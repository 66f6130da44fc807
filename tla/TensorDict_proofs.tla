------------------------- MODULE TensorDict_proofs -------------------------
(***************************************************************************)
(* Theorems about TensorDict, for every set of deployments and programs:   *)
(* receivers get the dictionaries of their source, and the all-gathers of  *)
(* the members of a stage belong together.                                 *)
(***************************************************************************)
EXTENDS TensorDict, FiniteSetTheorems, SequenceTheorems, WellFoundedInduction, TLAPS

---------------------------------------------------------------------------
(* Places in a program: the k-th dictionary and the i-th entry in it.      *)

Earlier(x, y) == x[1] < y[1] \/ (x[1] = y[1] /\ x[2] < y[2])

\* How many places of S come before y.
Before(S, y) == Cardinality({x \in S : Earlier(x, y)})

\* A sequence, of whatever elements.
IsSeq(s) == s \in Seq(Range(s))

---------------------------------------------------------------------------
(* What a configuration c determines.                                      *)

\* A tensor that goes in slices.
Cut(c, e) ==
    /\ Travels(e)
    /\ c.op = "p2p" /\ c.sliced /\ e.numel % c.size = 0 /\ e.key \notin c.whole

MetadataGroupOf(c) == IF c.op = "broadcast" /\ c.mq THEN "mq" ELSE "cpu"

\* A tensor at which either side stops: gloo refuses it, or it cannot be cut as told.
Stops(c, e) ==
    \/ c.staged /\ e.where = "xpu"
    \/ /\ c.op = "p2p" /\ c.sliced /\ e.numel % c.size # 0
       /\ e.key \in c.forced /\ e.key \notin c.whole

\* A dictionary, or a bare tensor, that is refused.
Rejects(c, k) ==
    \E i \in DOMAIN c.plan[k] :
        /\ k \in c.bare \/ Travels(c.plan[k][i])
        /\ Stops(c, c.plan[k][i])

\* What rank s sends of a tensor.
Piece(c, e, s, k) ==
    LET n == e.numel \div c.size
    IN  IF Cut(c, e) THEN [i \in 1..n |-> Element(e, s, k, s * n + i)] ELSE TensorOf(e, s, k)

\* The messages of the k-th dictionary on a group: the size of the metadata at -1, the
\* metadata at 0, and the tensors at the places of their entries.
Slots(c, g, k) ==
    IF k \in c.bare THEN IF g = "device" THEN {1} ELSE {}
    ELSE (IF c.op = "p2p" /\ g = "cpu" THEN {-1} ELSE {})
         \cup (IF g = MetadataGroupOf(c) THEN {0} ELSE {})
         \cup {i \in DOMAIN c.plan[k] : Travels(c.plan[k][i]) /\ CommGroup(c.plan[k][i]) = g}

\* All messages on a group, and all tensors that are gathered.
Messages(c, g) == UNION {{k} \X Slots(c, g, k) : k \in DOMAIN c.plan}

Cuts(c) == UNION {{k} \X {i \in DOMAIN c.plan[k] : Cut(c, c.plan[k][i])} : k \in DOMAIN c.plan}

\* The message of rank s at place x.
Content(c, s, x) ==
    LET entries == c.plan[x[1]]
    IN  IF x[2] = -1 THEN SizeOf(entries)
        ELSE IF x[2] = 0 THEN entries
        ELSE Piece(c, entries[x[2]], s, x[1])

\* A dictionary as the caller of s sees it.
DictOf(c, s, k) ==
    [i \in DOMAIN c.plan[k] |->
        LET e == c.plan[k][i]
        IN  [key |-> e.key, value |-> IF e.tensor THEN TensorOf(e, s, k) ELSE e.value]]

---------------------------------------------------------------------------
(* The inductive invariant: a sender.                                      *)

\* Dictionaries that are refused end the program.
Program(c, n, p) ==
    /\ n \in 0..Len(c.plan) /\ p \in {"idle", "object", "tensors", "raised"}
    /\ p \in {"object", "tensors"} => n >= 1 /\ n \notin c.bare
    /\ p = "object" => c.op = "p2p"
    /\ p = "raised" => n >= 1 /\ Rejects(c, n)
    /\ \A k \in 1..n : k < n \/ p = "idle" => ~Rejects(c, k)

\* The place up to which a sender has come.
Limit(n, p) == IF p = "idle" THEN <<n + 1, -1>> ELSE IF p = "object" THEN <<n, 0>> ELSE <<n, 1>>

\* A channel q holds what rank s has sent on group g before the place y.
Holds(c, s, g, y, q) ==
    \A x \in Messages(c, g) :
        Earlier(x, y) =>
            /\ Before(Messages(c, g), x) < Len(q)
            /\ q[Before(Messages(c, g), x) + 1] = Content(c, s, x)

\* It holds nothing else.
Full(c, s, g, y, q) ==
    IsSeq(q) /\ Len(q) = Before(Messages(c, g), y) /\ Holds(c, s, g, y, q)

Stream(c, s, n, p, q) ==
    \A g \in Group :
        /\ IsSeq(q[g])
        /\ p # "raised" => Len(q[g]) = Before(Messages(c, g), Limit(n, p))
        /\ Holds(c, s, g, Limit(n, p), q[g])

---------------------------------------------------------------------------
(* The inductive invariant: a receiver that has begun m dictionaries.      *)

\* It is not ahead of its sender, in n at p.
Follows(c, n, p, q, m) ==
    /\ m \in 0..n /\ \A k \in 1..m : ~Rejects(c, k)
    /\ m = n => p # "object"
    /\ q = "object" => m < n /\ m + 1 \notin c.bare /\ c.op = "p2p"

\* It has posted the receives for what it has begun.
Posted(c, q, m, count) ==
    q # "raised" =>
        \A g \in Group :
            count[g] = Before(Messages(c, g), <<m + 1, IF q = "object" THEN 0 ELSE -1>>)

\* Entry i of the dictionary k of rank s, in a dictionary that is at `todo`.
Entry(c, s, k, i, todo, b) ==
    LET e == c.plan[k][i] IN
    /\ {"entry", "group", "place", "value"} \subseteq DOMAIN b
    /\ b.entry = e /\ b.group = CommGroup(e)
    /\ k \notin c.bare /\ Travels(e) => b.place = Before(Messages(c, b.group), <<k, i>>) + 1
    /\ ~e.tensor => b.value = e.value
    /\ e.tensor /\ e.numel = 0 => b.value = <<>>
    /\ Travels(e) /\ todo > 0 =>
        b.value = IF Cut(c, e) /\ i >= todo THEN Piece(c, e, s, k) ELSE TensorOf(e, s, k)

\* The dictionary k of rank s, begun.
Begun(c, s, k, d) ==
    /\ d.todo \in Nat
    /\ k \in c.bare => d.todo = 2
    /\ DOMAIN d.buffers = DOMAIN c.plan[k]
    /\ \A i \in DOMAIN c.plan[k] : Entry(c, s, k, i, d.todo, d.buffers[i])

\* The dictionaries that are open, after m that have been handed over.
Opened(c, s, m, o) ==
    /\ IsSeq(o) /\ Len(o) <= c.window
    /\ \A j \in 1..Len(o) : Begun(c, s, m + j, o[j])
    /\ \A j \in 2..Len(o) : m + j \notin c.bare => o[j].todo = 0

\* The place up to which a receiver has gathered.
Reached(m, o) == IF o = <<>> THEN <<m + 1, 0>> ELSE <<m + 1, o[1].todo>>

\* It has handed its slices over in the order of the program.
Gathered(c, s, q, m, o, a) ==
    /\ IsSeq(a)
    /\ q # "gathering" => Len(a) = Before(Cuts(c), Reached(m, o))
    /\ q = "gathering" => /\ o # <<>> /\ o[1].todo > 0
                          /\ Len(a) = Before(Cuts(c), Reached(m, o)) + 1
                          /\ \E x \in Cuts(c) : x[1] = m + 1 /\ x[2] >= o[1].todo
    /\ \A n \in 1..Len(a) :
            \E x \in Cuts(c) :
                /\ n = Before(Cuts(c), x) + 1
                /\ a[n] = Piece(c, c.plan[x[1]][x[2]], s, x[1])

\* All of it, for receiver r of the ranks that s sends to.
Receiving(c, s, n, p, q, d, o, count, a) ==
    /\ q \in {"idle", "object", "gathering", "raised"}
    /\ IsSeq(d) /\ (q = "object" => Len(o) < c.window)
    /\ Follows(c, n, p, q, Len(d) + Len(o))
    /\ Posted(c, q, Len(d) + Len(o), count)
    /\ Opened(c, s, Len(d), o)
    /\ Gathered(c, s, q, Len(d), o, a)

---------------------------------------------------------------------------
(* The inductive invariant.                                                *)

Domains ==
    /\ DOMAIN sent = Rank /\ DOMAIN spc = Rank /\ DOMAIN chan = Rank /\ DOMAIN posted = Rank
    /\ DOMAIN open = Rank /\ DOMAIN rpc = Rank /\ DOMAIN gathers = Rank
    /\ DOMAIN received = Rank
    /\ \A r \in Rank : DOMAIN chan[r] = Group /\ DOMAIN posted[r] = Group

SenderInv(s) == Program(config, sent[s], spc[s])

ReceiverInv(r) ==
    LET s == From(r) IN
    /\ Stream(config, s, sent[s], spc[s], chan[r])
    /\ Receiving(config, s, sent[s], spc[s], rpc[r], received[r], open[r], posted[r], gathers[r])

\* The ranks of a broadcast that do not send, or do not receive.
IdleSender(s) == sent[s] = 0 /\ spc[s] = "idle"
IdleReceiver(r) == rpc[r] = "idle" /\ open[r] = <<>> /\ received[r] = <<>>

IInv ==
    /\ config \in Configs /\ Domains
    /\ \A s \in Rank : SenderInv(s)
    /\ \A r \in Receiver : ReceiverInv(r)
    /\ \A s \in Rank \ Sender : IdleSender(s)
    /\ \A r \in Rank \ Receiver : IdleReceiver(r)

---------------------------------------------------------------------------
(* Sequences.                                                              *)

\* A sequence over a set is a sequence of its own elements.
LEMMA SequenceOver ==
    ASSUME NEW S, NEW s \in Seq(S)
    PROVE  IsSeq(s) /\ Len(s) \in Nat /\ DOMAIN s = 1..Len(s)
  <1>1. s \in [1..Len(s) -> S] /\ Len(s) \in Nat /\ DOMAIN s = 1..Len(s)
    BY LenProperties
  <1>2. s = [i \in 1..Len(s) |-> s[i]] /\ \A i \in 1..Len(s) : s[i] \in Range(s)
    BY <1>1 DEF Range
  <1>3. s \in [1..Len(s) -> Range(s)]
    BY <1>2
  <1> QED BY <1>1, <1>3, SeqDef DEF IsSeq

\* A function on 1..n is a sequence.
LEMMA SequenceFrom ==
    ASSUME NEW n \in Nat, NEW S, NEW f \in [1..n -> S]
    PROVE  IsSeq(f) /\ Len(f) = n /\ DOMAIN f = 1..n
  <1>1. f \in Seq(S) /\ DOMAIN f = 1..n
    BY SeqDef
  <1>2. IsSeq(f) /\ Len(f) \in Nat /\ DOMAIN f = 1..Len(f)
    BY <1>1, SequenceOver
  <1> QED BY <1>1, <1>2

\* What a sequence is.
LEMMA SequenceFacts ==
    ASSUME NEW s, IsSeq(s)
    PROVE  Len(s) \in Nat /\ DOMAIN s = 1..Len(s) /\ (s = <<>> <=> Len(s) = 0)
  <1>1. s \in Seq(Range(s))
    BY DEF IsSeq
  <1>2. Len(s) \in Nat /\ DOMAIN s = 1..Len(s)
    BY <1>1, LenProperties
  <1>3. Len(s) = 0 => s = <<>>
    BY <1>1, EmptySeq
  <1> QED BY <1>2, <1>3

\* The concatenation of two sequences, of whatever elements.
LEMMA Concatenation ==
    ASSUME NEW s, NEW t, IsSeq(s), IsSeq(t)
    PROVE  /\ IsSeq(s \o t) /\ Len(s \o t) = Len(s) + Len(t)
           /\ \A i \in 1..Len(s) : (s \o t)[i] = s[i]
           /\ \A i \in 1..Len(t) : (s \o t)[Len(s) + i] = t[i]
  <1> DEFINE S == Range(s) \cup Range(t)
  <1>1. s \in Seq(Range(s)) /\ t \in Seq(Range(t)) /\ Len(s) \in Nat /\ Len(t) \in Nat
    BY SequenceFacts DEF IsSeq
  <1>2. s \in Seq(S) /\ t \in Seq(S)
    <2>1. Range(s) \subseteq S /\ Range(t) \subseteq S
      OBVIOUS
    <2> HIDE DEF S
    <2> QED BY <1>1, <2>1, SeqMonotonic
  <1> HIDE DEF S
  <1>3. /\ s \o t \in Seq(S) /\ Len(s \o t) = Len(s) + Len(t)
        /\ \A i \in 1..Len(s) + Len(t) :
                (s \o t)[i] = IF i <= Len(s) THEN s[i] ELSE t[i - Len(s)]
    BY <1>2, ConcatProperties
  <1>4. IsSeq(s \o t)
    BY <1>3, SequenceOver
  <1> QED BY <1>1, <1>3, <1>4

\* One more element.
LEMMA Appending ==
    ASSUME NEW s, IsSeq(s), NEW x
    PROVE  /\ IsSeq(Append(s, x)) /\ Len(Append(s, x)) = Len(s) + 1
           /\ \A i \in 1..Len(s) : Append(s, x)[i] = s[i]
           /\ Append(s, x)[Len(s) + 1] = x
  <1> DEFINE S == Range(s) \cup {x}
  <1>1. s \in Seq(Range(s)) /\ Len(s) \in Nat
    BY SequenceFacts DEF IsSeq
  <1>2. s \in Seq(S) /\ x \in S
    <2>1. Range(s) \subseteq S /\ x \in S
      OBVIOUS
    <2> HIDE DEF S
    <2> QED BY <1>1, <2>1, SeqMonotonic
  <1> HIDE DEF S
  <1>3. /\ Append(s, x) \in Seq(S) /\ Len(Append(s, x)) = Len(s) + 1
        /\ \A i \in 1..Len(s) : Append(s, x)[i] = s[i]
        /\ Append(s, x)[Len(s) + 1] = x
    BY <1>2, AppendProperties
  <1> QED BY <1>3, SequenceOver

\* All but the first element.
LEMMA Shortening ==
    ASSUME NEW s, IsSeq(s), s # <<>>
    PROVE  /\ IsSeq(Tail(s)) /\ Len(Tail(s)) = Len(s) - 1
           /\ \A i \in 1..Len(s) - 1 : Tail(s)[i] = s[i + 1]
  <1>1. s \in Seq(Range(s)) /\ Len(s) \in Nat
    BY SequenceFacts DEF IsSeq
  <1>2. /\ Tail(s) \in Seq(Range(s)) /\ Len(Tail(s)) = Len(s) - 1
        /\ \A i \in 1..Len(Tail(s)) : Tail(s)[i] = s[i + 1]
    BY <1>1, HeadTailProperties
  <1> QED BY <1>2, SequenceOver

\* x for the first element.
FirstIs(s, x) == [s EXCEPT ![1] = x]

\* A sequence after its first element has been replaced.
LEMMA Replacing ==
    ASSUME NEW s, IsSeq(s), s # <<>>, NEW x
    PROVE  /\ IsSeq(FirstIs(s, x)) /\ Len(FirstIs(s, x)) = Len(s) /\ FirstIs(s, x)[1] = x
           /\ \A i \in 2..Len(s) : FirstIs(s, x)[i] = s[i]
  <1> DEFINE S == Range(s) \cup {x}
  <1>1. s \in Seq(Range(s)) /\ Len(s) \in Nat /\ Len(s) # 0
    BY SequenceFacts DEF IsSeq
  <1>2. s \in Seq(S) /\ x \in S
    <2>1. Range(s) \subseteq S /\ x \in S
      OBVIOUS
    <2> HIDE DEF S
    <2> QED BY <1>1, <2>1, SeqMonotonic
  <1> HIDE DEF S
  <1>3. 1 \in 1..Len(s)
    BY <1>1
  <1>4. /\ [s EXCEPT ![1] = x] \in Seq(S) /\ Len([s EXCEPT ![1] = x]) = Len(s)
        /\ \A j \in 1..Len(s) : [s EXCEPT ![1] = x][j] = IF j = 1 THEN x ELSE s[j]
    BY <1>2, <1>3, ExceptSeq
  <1>5. IsSeq([s EXCEPT ![1] = x])
    BY <1>4, SequenceOver
  <1> QED BY <1>1, <1>3, <1>4, <1>5 DEF FirstIs

---------------------------------------------------------------------------
(* Places.                                                                 *)

IsPlaces(S) == IsFiniteSet(S) /\ S \subseteq Int \X Int

\* A number of places is a number.
LEMMA BeforeType ==
    ASSUME NEW S, IsPlaces(S), NEW y
    PROVE  /\ Before(S, y) \in Nat /\ IsFiniteSet({x \in S : Earlier(x, y)})
  <1>1. {x \in S : Earlier(x, y)} \in SUBSET S
    OBVIOUS
  <1>2. IsFiniteSet({x \in S : Earlier(x, y)})
    BY <1>1, FS_Subset DEF IsPlaces
  <1> QED BY <1>2, FS_CardinalityType DEF Before

\* The same places come before y and before z.
LEMMA BeforeSame ==
    ASSUME NEW S, NEW y, NEW z, \A x \in S : Earlier(x, y) <=> Earlier(x, z)
    PROVE  Before(S, y) = Before(S, z)
  <1>1. {x \in S : Earlier(x, y)} = {x \in S : Earlier(x, z)}
    OBVIOUS
  <1> QED BY <1>1 DEF Before

\* All places before y come before z.
LEMMA BeforeGrows ==
    ASSUME NEW S, IsPlaces(S), NEW y, NEW z, \A x \in S : Earlier(x, y) => Earlier(x, z)
    PROVE  Before(S, y) <= Before(S, z)
  <1>1. IsFiniteSet({x \in S : Earlier(x, z)})
    BY BeforeType
  <1>2. {x \in S : Earlier(x, y)} \in SUBSET {x \in S : Earlier(x, z)}
    OBVIOUS
  <1> QED BY <1>1, <1>2, FS_Subset DEF Before

\* Besides those, y itself comes before z.
LEMMA BeforeNext ==
    ASSUME NEW S, IsPlaces(S), NEW y \in S, NEW z,
           \A x \in S : Earlier(x, z) <=> (Earlier(x, y) \/ x = y)
    PROVE  Before(S, z) = Before(S, y) + 1
  <1>1. IsFiniteSet({x \in S : Earlier(x, y)})
    BY BeforeType
  <1>2. {x \in S : Earlier(x, z)} = {x \in S : Earlier(x, y)} \cup {y}
    OBVIOUS
  <1>3. y \notin {x \in S : Earlier(x, y)}
    <2>1. y[1] \in Int /\ y[2] \in Int
      BY DEF IsPlaces
    <2> QED BY <2>1 DEF Earlier
  <1> QED BY <1>1, <1>2, <1>3, FS_AddElement DEF Before

\* A place and what comes before it, before a later one.
LEMMA BeforeLess ==
    ASSUME NEW S, IsPlaces(S), NEW y \in S, NEW z \in Int \X Int, Earlier(y, z)
    PROVE  Before(S, y) < Before(S, z)
  <1> DEFINE A == {x \in S : Earlier(x, y)}
             B == {x \in S : Earlier(x, z)}
  <1>1. S \subseteq Int \X Int
    BY DEF IsPlaces
  <1>2. IsFiniteSet(A) /\ IsFiniteSet(B) /\ Before(S, y) \in Nat /\ Before(S, z) \in Nat
    BY BeforeType
  <1>3. A \cup {y} \in SUBSET B
    BY <1>1 DEF Earlier
  <1>4. y \notin A
    BY <1>1 DEF Earlier
  <1>5. Before(S, y) = Cardinality(A) /\ Before(S, z) = Cardinality(B)
    BY DEF Before
  <1> HIDE DEF A, B
  <1>6. Cardinality(A \cup {y}) = Cardinality(A) + 1
    BY <1>2, <1>4, FS_AddElement
  <1>7. Cardinality(A \cup {y}) <= Cardinality(B)
    BY <1>2, <1>3, FS_Subset
  <1> QED BY <1>2, <1>5, <1>6, <1>7

\* Two places are not at the same position.
LEMMA BeforeUnique ==
    ASSUME NEW S, IsPlaces(S), NEW y \in S, NEW z \in S, Before(S, y) = Before(S, z)
    PROVE  y = z
  <1>1. y \in Int \X Int /\ z \in Int \X Int /\ Before(S, y) \in Nat
    BY BeforeType DEF IsPlaces
  <1>2. ~Earlier(y, z) /\ ~Earlier(z, y)
    BY <1>1, BeforeLess
  <1>3. y[1] = z[1] /\ y[2] = z[2]
    BY <1>1, <1>2 DEF Earlier
  <1> QED BY <1>1, <1>3

---------------------------------------------------------------------------
(* Configurations.                                                         *)

\* What is known of an entry of a program.
IsEntry(c, e) ==
    /\ e.tensor \in BOOLEAN
    /\ e.tensor => e.where \in {"xpu", "cpu"} /\ e.numel \in Nat
    /\ e.tensor /\ c.op = "p2p" /\ c.sliced /\ ~e.alike => e.key \in c.whole

\* A bare tensor is all that there is in its place of the program.
IsBare(c, entries) ==
    /\ c.op = "p2p" /\ Len(entries) = 1
    /\ entries[1].tensor /\ entries[1].where = "xpu" /\ entries[1].key \in c.whole

\* A program.
LEMMA ConfigFacts ==
    ASSUME NEW c \in Configs
    PROVE  /\ c.op \in Ops /\ c.size \in Nat /\ c.size >= 2 /\ c.window \in Nat /\ c.window >= 1
           /\ Len(c.plan) \in Nat /\ DOMAIN c.plan = 1..Len(c.plan)
           /\ c.bare \subseteq 1..Len(c.plan)
           /\ \A k \in c.bare : IsBare(c, c.plan[k])
           /\ \A k \in 1..Len(c.plan) :
                /\ IsSeq(c.plan[k])
                /\ Len(c.plan[k]) \in Nat /\ DOMAIN c.plan[k] = 1..Len(c.plan[k])
                /\ \A i \in 1..Len(c.plan[k]) : IsEntry(c, c.plan[k][i])
  <1>1. /\ c.op \in Ops /\ c.size \in Nat \ {0, 1} /\ c.window \in Nat \ {0}
        /\ IsSeq(c.plan) /\ c.bare \subseteq DOMAIN c.plan
        /\ \A k \in c.bare : IsBare(c, c.plan[k])
        /\ \A k \in DOMAIN c.plan :
            /\ IsSeq(c.plan[k])
            /\ \A i \in DOMAIN c.plan[k] : IsEntry(c, c.plan[k][i])
    BY ConfigsAssumption, Zenon DEF IsSeq, IsEntry, IsBare
  <1>2. Len(c.plan) \in Nat /\ DOMAIN c.plan = 1..Len(c.plan)
    BY <1>1, SequenceFacts
  <1>3. ASSUME NEW k \in DOMAIN c.plan
        PROVE  Len(c.plan[k]) \in Nat /\ DOMAIN c.plan[k] = 1..Len(c.plan[k])
    BY <1>1, <1>3, SequenceFacts
  <1> QED BY <1>1, <1>2, <1>3

\* The places in a dictionary.
LEMMA SlotFacts ==
    ASSUME NEW c \in Configs, NEW k \in 1..Len(c.plan), NEW g
    PROVE  Slots(c, g, k) \subseteq -1..Len(c.plan[k])
  <1>1. Len(c.plan[k]) \in Nat /\ DOMAIN c.plan[k] = 1..Len(c.plan[k])
    BY ConfigFacts
  <1>2. k \in c.bare => Len(c.plan[k]) = 1
    BY ConfigFacts DEF IsBare
  <1>3. CASE k \in c.bare
    <2>1. Slots(c, g, k) \subseteq {1}
      BY <1>3 DEF Slots
    <2>2. 1 \in -1..Len(c.plan[k])
      <3>1. Len(c.plan[k]) = 1
        BY <1>2, <1>3
      <3> QED BY <3>1
    <2> QED BY <2>1, <2>2
  <1>4. CASE k \notin c.bare
    <2>1. Slots(c, g, k) \subseteq {-1, 0} \cup DOMAIN c.plan[k]
      BY <1>4 DEF Slots
    <2> QED BY <1>1, <2>1
  <1> QED BY <1>3, <1>4

\* The places of all messages of a group.
LEMMA MessageFacts ==
    ASSUME NEW c \in Configs, NEW g
    PROVE  /\ IsPlaces(Messages(c, g))
           /\ \A k, i : <<k, i>> \in Messages(c, g) <=> k \in 1..Len(c.plan) /\ i \in Slots(c, g, k)
           /\ \A x \in Messages(c, g) :
                /\ x = <<x[1], x[2]>>
                /\ x[1] \in 1..Len(c.plan) /\ x[2] \in Slots(c, g, x[1])
  <1> DEFINE of(k) == {k} \X Slots(c, g, k)
             D == DOMAIN c.plan
  <1>1. D = 1..Len(c.plan) /\ Len(c.plan) \in Nat
    BY ConfigFacts
  <1>2. Messages(c, g) = UNION {of(k) : k \in D}
    BY DEF Messages
  <1>3. ASSUME NEW k \in D
        PROVE  IsFiniteSet(of(k)) /\ of(k) \subseteq Int \X Int
    <2>1. k \in 1..Len(c.plan)
      BY <1>1, <1>3
    <2>2. Len(c.plan[k]) \in Nat /\ Slots(c, g, k) \in SUBSET (-1..Len(c.plan[k])) /\ k \in Int
      <3>1. Slots(c, g, k) \subseteq -1..Len(c.plan[k])
        BY <2>1, SlotFacts
      <3>2. Len(c.plan[k]) \in Nat
        BY <2>1, ConfigFacts
      <3> QED BY <2>1, <3>1, <3>2
    <2>3. IsFiniteSet(-1..Len(c.plan[k]))
      BY <2>2, FS_Interval
    <2>4. IsFiniteSet(Slots(c, g, k))
      BY <2>2, <2>3, FS_Subset
    <2>5. IsFiniteSet({k})
      BY FS_Singleton
    <2>6. IsFiniteSet(of(k))
      BY <2>4, <2>5, FS_Product
    <2> QED BY <2>2, <2>6
  <1>4. IsFiniteSet({of(k) : k \in D})
    <2>1. IsFiniteSet(D)
      BY <1>1, FS_Interval
    <2>2. PICK f : f = [k \in D |-> of(k)]
      OBVIOUS
    <2>3. f \in Surjection(D, {of(k) : k \in D})
      BY <2>2 DEF Surjection
    <2> QED BY <2>1, <2>3, FS_Surjection
  <1>5. \A T \in {of(k) : k \in D} : IsFiniteSet(T)
    BY <1>3
  <1>6. IsFiniteSet(UNION {of(k) : k \in D})
    BY <1>4, <1>5, FS_UNION
  <1>7. UNION {of(k) : k \in D} \subseteq Int \X Int
    BY <1>3
  <1>8. \A k, i : <<k, i>> \in Messages(c, g) <=> k \in D /\ i \in Slots(c, g, k)
    BY <1>2
  <1>9. ASSUME NEW x \in Messages(c, g)
        PROVE  x = <<x[1], x[2]>> /\ x[1] \in D /\ x[2] \in Slots(c, g, x[1])
    <2>1. PICK k \in D : x \in {k} \X Slots(c, g, k)
      BY <1>2, <1>9
    <2> QED BY <2>1
  <1> QED BY <1>1, <1>2, <1>6, <1>7, <1>8, <1>9, Zenon DEF IsPlaces

\* The place of a message.
LEMMA PlaceFacts ==
    ASSUME NEW c \in Configs, NEW g, NEW x \in Messages(c, g)
    PROVE  x = <<x[1], x[2]>> /\ x[1] \in Int /\ x[2] \in Int /\ x[2] \in Slots(c, g, x[1])
  <1>1. x = <<x[1], x[2]>> /\ x[1] \in 1..Len(c.plan) /\ x[2] \in Slots(c, g, x[1])
    BY MessageFacts
  <1>2. x \in Int \X Int
    BY MessageFacts DEF IsPlaces
  <1> QED BY <1>1, <1>2

\* The places of all tensors that are gathered.
LEMMA CutFacts ==
    ASSUME NEW c \in Configs
    PROVE  /\ IsPlaces(Cuts(c))
           /\ \A k, i : <<k, i>> \in Cuts(c) <=>
                            /\ k \in 1..Len(c.plan)
                            /\ i \in 1..Len(c.plan[k]) /\ Cut(c, c.plan[k][i])
           /\ \A x \in Cuts(c) :
                /\ x = <<x[1], x[2]>>
                /\ x[1] \in 1..Len(c.plan) /\ x[2] \in 1..Len(c.plan[x[1]])
                /\ Cut(c, c.plan[x[1]][x[2]])
  <1> DEFINE those(k) == {i \in DOMAIN c.plan[k] : Cut(c, c.plan[k][i])}
             of(k) == {k} \X those(k)
             D == DOMAIN c.plan
  <1>1. D = 1..Len(c.plan) /\ Len(c.plan) \in Nat
    BY ConfigFacts
  <1>2. \A k \in D : DOMAIN c.plan[k] = 1..Len(c.plan[k]) /\ Len(c.plan[k]) \in Nat
    BY ConfigFacts
  <1>3. Cuts(c) = UNION {of(k) : k \in D}
    BY DEF Cuts
  <1>4. ASSUME NEW k \in D
        PROVE  IsFiniteSet(of(k)) /\ of(k) \subseteq Int \X Int
    <2>1. those(k) \in SUBSET (1..Len(c.plan[k])) /\ k \in Int /\ Len(c.plan[k]) \in Nat
      BY <1>1, <1>2, <1>4
    <2>2. IsFiniteSet(1..Len(c.plan[k]))
      BY <2>1, FS_Interval
    <2> HIDE DEF those
    <2>3. IsFiniteSet(those(k)) /\ IsFiniteSet({k})
      <3>1. IsFiniteSet(those(k))
        BY <2>1, <2>2, FS_Subset
      <3> QED BY <3>1, FS_Singleton
    <2>4. IsFiniteSet(of(k))
      BY <2>3, FS_Product
    <2> QED BY <2>1, <2>4
  <1>5. IsFiniteSet({of(k) : k \in D})
    <2>1. IsFiniteSet(D)
      BY <1>1, FS_Interval
    <2>2. PICK f : f = [k \in D |-> of(k)]
      OBVIOUS
    <2> HIDE DEF of, those
    <2>3. f \in Surjection(D, {of(k) : k \in D})
      BY <2>2 DEF Surjection
    <2> QED BY <2>1, <2>3, FS_Surjection
  <1>6. \A T \in {of(k) : k \in D} : IsFiniteSet(T)
    BY <1>4
  <1>7. IsFiniteSet(UNION {of(k) : k \in D})
    BY <1>5, <1>6, FS_UNION
  <1>8. UNION {of(k) : k \in D} \subseteq Int \X Int
    BY <1>4
  <1>9. \A k, i : <<k, i>> \in Cuts(c) <=> k \in D /\ i \in those(k)
    BY <1>3
  <1>10. ASSUME NEW x \in Cuts(c)
         PROVE  x = <<x[1], x[2]>> /\ x[1] \in D /\ x[2] \in those(x[1])
    <2> HIDE DEF those
    <2>1. PICK k \in D : x \in {k} \X those(k)
      BY <1>3, <1>10
    <2> QED BY <2>1
  <1>11. \A k, i : i \in those(k) <=> i \in DOMAIN c.plan[k] /\ Cut(c, c.plan[k][i])
    OBVIOUS
  <1> HIDE DEF those, of, D
  <1>12. IsPlaces(Cuts(c))
    BY <1>3, <1>7, <1>8, Zenon DEF IsPlaces
  <1>13. \A k \in D : \A i : i \in those(k) <=> i \in 1..Len(c.plan[k]) /\ Cut(c, c.plan[k][i])
    BY <1>2, <1>11, Zenon
  <1>14. D = 1..Len(c.plan)
    BY <1>1
  <1>15. \A k, i : <<k, i>> \in Cuts(c) <=>
                        /\ k \in 1..Len(c.plan)
                        /\ i \in 1..Len(c.plan[k]) /\ Cut(c, c.plan[k][i])
    BY <1>9, <1>13, <1>14, Zenon
  <1>16. \A x \in Cuts(c) : x = <<x[1], x[2]>>
    BY <1>10, Zenon
  <1>17. \A x \in Cuts(c) : x[1] \in D /\ x[2] \in those(x[1])
    BY <1>10, Zenon
  <1>18. \A x \in Cuts(c) : x[2] \in 1..Len(c.plan[x[1]]) /\ Cut(c, c.plan[x[1]][x[2]])
    BY <1>13, <1>17, Zenon
  <1> QED BY <1>12, <1>14, <1>15, <1>16, <1>17, <1>18, Zenon

\* The position of a tensor on its group: after the metadata and the tensors before it.
LEMMA TensorPlace ==
    ASSUME NEW c \in Configs, NEW g, NEW k \in (1..Len(c.plan)) \ c.bare,
           NEW i \in 1..Len(c.plan[k]) + 1
    PROVE  /\ PostedBefore(c.plan[k], i, g) \in Nat
           /\ Before(Messages(c, g), <<k, i>>) =
                Before(Messages(c, g), <<k, 1>>) + PostedBefore(c.plan[k], i, g)
  <1> DEFINE M == Messages(c, g)
             P == {j \in 1..i - 1 : Travels(c.plan[k][j]) /\ CommGroup(c.plan[k][j]) = g}
             A == {x \in M : Earlier(x, <<k, 1>>)}
             B == {k} \X P
  <1>1. /\ Len(c.plan[k]) \in Nat /\ DOMAIN c.plan[k] = 1..Len(c.plan[k])
        /\ k \in Int /\ i \in Nat /\ i - 1 \in Int
    BY ConfigFacts
  <1>2. IsPlaces(M) /\ \A x \in M : x = <<x[1], x[2]>> /\ x[1] \in Int /\ x[2] \in Slots(c, g, x[1])
    BY MessageFacts
  <1>3. Slots(c, g, k) \subseteq -1..Len(c.plan[k])
    BY SlotFacts
  <1>4. \A j \in Slots(c, g, k) : j >= 1 => Travels(c.plan[k][j]) /\ CommGroup(c.plan[k][j]) = g
    BY <1>1 DEF Slots
  <1>5. \A j \in P : j \in Slots(c, g, k)
    BY <1>1 DEF Slots
  <1>6. IsFiniteSet(P)
    <2>1. P \in SUBSET (1..i - 1) /\ IsFiniteSet(1..i - 1)
      <3>1. IsFiniteSet(1..i - 1)
        BY <1>1, FS_Interval
      <3> QED BY <3>1
    <2> HIDE DEF P
    <2> QED BY <2>1, FS_Subset
  <1>7. Cardinality(P) \in Nat /\ PostedBefore(c.plan[k], i, g) = Cardinality(P)
    BY <1>6, FS_CardinalityType DEF PostedBefore
  <1>8. IsFiniteSet(B) /\ Cardinality(B) = Cardinality(P)
    <2> HIDE DEF P
    <2>1. IsFiniteSet({k}) /\ Cardinality({k}) = 1
      BY FS_Singleton
    <2>2. IsFiniteSet(B) /\ Cardinality(B) = 1 * Cardinality(P)
      BY <1>6, <2>1, FS_Product
    <2> QED BY <1>7, <2>2
  <1>9. {x \in M : Earlier(x, <<k, i>>)} = A \cup B
    <2>1. ASSUME NEW x \in M, Earlier(x, <<k, i>>), ~Earlier(x, <<k, 1>>)
          PROVE  x \in B
      <3>1. x[1] = k /\ x[2] \in 1..i - 1
        BY <1>1, <1>2, <1>3, <2>1 DEF Earlier
      <3>2. x[2] \in P
        BY <1>2, <1>4, <3>1, <2>1
      <3> QED BY <1>2, <3>1, <3>2, <2>1
    <2>2. ASSUME NEW x \in M, Earlier(x, <<k, 1>>)
          PROVE  Earlier(x, <<k, i>>)
      BY <1>1, <1>2, <1>3, <2>2 DEF Earlier
    <2>3. ASSUME NEW x \in B
          PROVE  x \in M /\ Earlier(x, <<k, i>>)
      <3>1. PICK j \in P : x = <<k, j>>
        BY <2>3
      <3>2. x \in M
        BY <1>5, <3>1, MessageFacts
      <3> QED BY <1>1, <3>1, <3>2 DEF Earlier
    <2> HIDE DEF B
    <2> QED BY <2>1, <2>2, <2>3
  <1>10. A \cap B = {}
    <2>1. ASSUME NEW x \in B PROVE ~Earlier(x, <<k, 1>>)
      BY <1>1, <2>1 DEF Earlier
    <2> QED BY <2>1
  <1>11. IsFiniteSet(A) /\ Before(M, <<k, 1>>) = Cardinality(A) /\ Cardinality(A) \in Nat
    BY <1>2, BeforeType DEF Before
  <1>12. Before(M, <<k, i>>) = Cardinality(A \cup B)
    BY <1>9 DEF Before
  <1> HIDE DEF A, B, P
  <1>13. Cardinality(A \cup B) = Cardinality(A) + Cardinality(B)
    <2>1. Cardinality(A \cap B) = 0
      BY <1>10, FS_EmptySet
    <2>2. Cardinality(A \cup B) = Cardinality(A) + Cardinality(B) - Cardinality(A \cap B)
      BY <1>8, <1>11, FS_Union
    <2> QED BY <1>7, <1>8, <1>11, <2>1, <2>2
  <1> QED BY <1>7, <1>8, <1>11, <1>12, <1>13

\* Behind the last entry of a dictionary is the next dictionary.
LEMMA DictionaryEnds ==
    ASSUME NEW c \in Configs, NEW g, NEW k \in 1..Len(c.plan), NEW i \in Nat,
           i > Len(c.plan[k])
    PROVE  Before(Messages(c, g), <<k, i>>) = Before(Messages(c, g), <<k + 1, -1>>)
  <1>1. Len(c.plan[k]) \in Nat /\ Len(c.plan) \in Nat
    BY ConfigFacts
  <1>2. ASSUME NEW x \in Messages(c, g)
        PROVE  Earlier(x, <<k, i>>) <=> Earlier(x, <<k + 1, -1>>)
    <2>1. x[1] \in 1..Len(c.plan) /\ x[2] \in Slots(c, g, x[1])
      BY <1>2, MessageFacts
    <2>2. Len(c.plan[x[1]]) \in Nat /\ x[2] \in -1..Len(c.plan[x[1]])
      BY <2>1, SlotFacts, ConfigFacts
    <2>3. x[2] \in Int /\ x[2] >= -1 /\ (x[1] = k => x[2] < i)
      <3>1. x[1] = k => x[2] <= Len(c.plan[k])
        BY <2>2
      <3> QED BY <1>1, <2>2, <3>1
    <2> QED BY <2>1, <2>3 DEF Earlier
  <1> QED BY <1>2, BeforeSame

---------------------------------------------------------------------------
(* Channels.                                                               *)

\* What a channel holds, it holds after another message.
LEMMA HoldsOn ==
    ASSUME NEW c \in Configs, NEW s, NEW g, NEW y, NEW q, IsSeq(q), NEW m, IsSeq(m),
           Holds(c, s, g, y, q)
    PROVE  Holds(c, s, g, y, q \o m)
  <1>1. /\ Len(q \o m) = Len(q) + Len(m) /\ Len(q) \in Nat /\ Len(m) \in Nat
        /\ \A i \in 1..Len(q) : (q \o m)[i] = q[i]
    BY Concatenation, SequenceFacts
  <1>2. ASSUME NEW x \in Messages(c, g), Earlier(x, y)
        PROVE  /\ Before(Messages(c, g), x) < Len(q \o m)
               /\ (q \o m)[Before(Messages(c, g), x) + 1] = Content(c, s, x)
    <2>1. PICK b : b = Before(Messages(c, g), x)
      OBVIOUS
    <2>2. b \in Nat
      BY <2>1, MessageFacts, BeforeType
    <2>3. b < Len(q) /\ q[b + 1] = Content(c, s, x)
      BY <1>2, <2>1 DEF Holds
    <2>4. b + 1 \in 1..Len(q) /\ b < Len(q \o m)
      BY <1>1, <2>2, <2>3
    <2> QED BY <1>1, <2>1, <2>3, <2>4
  <1> QED BY <1>2 DEF Holds

\* A channel that holds everything before y, and is given the messages m from y to z.
LEMMA ChannelGrows ==
    ASSUME NEW c \in Configs, NEW s, NEW g, NEW y, NEW z, NEW q, Full(c, s, g, y, q), NEW m, IsSeq(m),
           Before(Messages(c, g), z) = Before(Messages(c, g), y) + Len(m),
           \A x \in Messages(c, g) :
                Earlier(x, z) /\ ~Earlier(x, y) =>
                    \E j \in 1..Len(m) : /\ Before(Messages(c, g), x) + 1 = Len(q) + j
                                         /\ m[j] = Content(c, s, x)
    PROVE  Full(c, s, g, z, q \o m)
  <1>1. IsSeq(q) /\ Len(q) = Before(Messages(c, g), y) /\ Holds(c, s, g, y, q)
    BY DEF Full
  <1>2. /\ IsSeq(q \o m)
        /\ Len(q \o m) = Len(q) + Len(m) /\ Len(q) \in Nat /\ Len(m) \in Nat
        /\ \A i \in 1..Len(m) : (q \o m)[Len(q) + i] = m[i]
    BY <1>1, Concatenation, SequenceFacts
  <1>3. Holds(c, s, g, y, q \o m)
    BY <1>1, HoldsOn
  <1>4. ASSUME NEW x \in Messages(c, g), Earlier(x, z)
        PROVE  /\ Before(Messages(c, g), x) < Len(q \o m)
               /\ (q \o m)[Before(Messages(c, g), x) + 1] = Content(c, s, x)
    <2>1. CASE Earlier(x, y)
      BY <1>3, <2>1 DEF Holds
    <2>2. CASE ~Earlier(x, y)
      <3>1. PICK j \in 1..Len(m) : /\ Before(Messages(c, g), x) + 1 = Len(q) + j
                                   /\ m[j] = Content(c, s, x)
        BY <1>4, <2>2
      <3>2. PICK b : b = Before(Messages(c, g), x)
        OBVIOUS
      <3>3. b \in Nat
        BY <3>2, MessageFacts, BeforeType
      <3>4. b < Len(q \o m)
        BY <1>2, <3>1, <3>2, <3>3
      <3>5. (q \o m)[b + 1] = m[j]
        BY <1>2, <3>1, <3>2
      <3> QED BY <3>1, <3>2, <3>4, <3>5
    <2> QED BY <2>1, <2>2
  <1>5. Len(q \o m) = Before(Messages(c, g), z)
    BY <1>1, <1>2
  <1> QED BY <1>2, <1>4, <1>5 DEF Holds, Full

\* Nothing is sent from y to z.
LEMMA ChannelKept ==
    ASSUME NEW c \in Configs, NEW s, NEW g, NEW y, NEW z, NEW q,
           Full(c, s, g, y, q),
           \A x \in Messages(c, g) : Earlier(x, z) <=> Earlier(x, y)
    PROVE  Full(c, s, g, z, q \o <<>>)
  <1>1. IsSeq(<<>>) /\ Len(<<>>) = 0
    BY EmptySeq, SequenceOver
  <1>2. Before(Messages(c, g), z) = Before(Messages(c, g), y)
    BY BeforeSame
  <1>3. Before(Messages(c, g), y) \in Nat
    BY MessageFacts, BeforeType
  <1>4. Before(Messages(c, g), z) = Before(Messages(c, g), y) + Len(<<>>)
    BY <1>1, <1>2, <1>3
  <1> QED BY <1>1, <1>4, ChannelGrows

\* One message is sent, that of place w.
LEMMA ChannelTakesOne ==
    ASSUME NEW c \in Configs, NEW s, NEW g, NEW y, NEW z, NEW q,
           Full(c, s, g, y, q),
           NEW w \in Messages(c, g), NEW v, v = Content(c, s, w),
           \A x \in Messages(c, g) :
                /\ Earlier(x, w) <=> Earlier(x, y)
                /\ Earlier(x, z) <=> (Earlier(x, w) \/ x = w)
    PROVE  Full(c, s, g, z, q \o <<v>>)
  <1>1. PICK m : m = <<v>>
    OBVIOUS
  <1>2. IsSeq(m) /\ Len(m) = 1 /\ m[1] = v
    <2>1. m \in Seq({v}) /\ Len(m) = 1 /\ m[1] = v
      BY <1>1
    <2> QED BY <2>1, SequenceOver
  <1>3. Before(Messages(c, g), w) = Before(Messages(c, g), y)
    BY BeforeSame
  <1>4. Before(Messages(c, g), z) = Before(Messages(c, g), w) + 1
    BY MessageFacts, BeforeNext
  <1>5. Before(Messages(c, g), z) = Before(Messages(c, g), y) + Len(m)
    BY <1>2, <1>3, <1>4
  <1>6. Len(q) = Before(Messages(c, g), y)
    BY DEF Full
  <1>7. ASSUME NEW x \in Messages(c, g), Earlier(x, z), ~Earlier(x, y)
        PROVE  \E j \in 1..Len(m) : /\ Before(Messages(c, g), x) + 1 = Len(q) + j
                                    /\ m[j] = Content(c, s, x)
    <2>1. x = w
      BY <1>7
    <2>2. 1 \in 1..Len(m) /\ Before(Messages(c, g), x) + 1 = Len(q) + 1 /\ m[1] = Content(c, s, x)
      BY <1>2, <1>3, <1>6, <2>1
    <2> QED BY <2>2
  <1> QED BY <1>1, <1>2, <1>5, <1>7, ChannelGrows

---------------------------------------------------------------------------
(* What a sender's step does to the channel of its receiver.               *)

\* A sender that is not stopped has sent everything before its place.
LEMMA StreamFacts ==
    ASSUME NEW c \in Configs, NEW s, NEW n, NEW p, NEW q, Stream(c, s, n, p, q), p # "raised",
           NEW g \in Group
    PROVE  Full(c, s, g, Limit(n, p), q[g])
  BY DEF Stream, Full

\* The size of the metadata.
LEMMA SizeIsSent ==
    ASSUME NEW c \in Configs, NEW s, NEW n \in 0..Len(c.plan) - 1, NEW q,
           Stream(c, s, n, "idle", q), NEW k, k = n + 1, k \notin c.bare, c.op = "p2p",
           NEW m, m = On("cpu", <<SizeOf(c.plan[k])>>)
    PROVE  Stream(c, s, k, "object", [g \in Group |-> q[g] \o m[g]])
  <1>1. PICK y, z : y = <<k, -1>> /\ z = <<k, 0>>
    OBVIOUS
  <1>2. k \in 1..Len(c.plan) /\ k \in Int /\ Limit(n, "idle") = y /\ Limit(k, "object") = z
    BY <1>1, ConfigFacts DEF Limit
  <1>3. ASSUME NEW g \in Group
        PROVE  Full(c, s, g, z, q[g] \o m[g])
    <2>1. Full(c, s, g, y, q[g])
      BY <1>2, StreamFacts
    <2>2. \A x \in Messages(c, g) :
            x = <<x[1], x[2]>> /\ x[1] \in Int /\ x[2] \in Int /\ x[2] \in Slots(c, g, x[1])
      BY PlaceFacts
    <2>3. CASE g = "cpu"
      <3>1. y \in Messages(c, g)
        <4>1. -1 \in Slots(c, g, k)
          BY <1>1, <2>3 DEF Slots
        <4> QED BY <1>1, <1>2, <4>1, MessageFacts
      <3>2. \A x \in Messages(c, g) : Earlier(x, z) <=> (Earlier(x, y) \/ x = y)
        BY <1>1, <1>2, <2>2 DEF Earlier
      <3>3. PICK v : v = SizeOf(c.plan[k])
        OBVIOUS
      <3>4. v = Content(c, s, y) /\ m[g] = <<v>>
        BY <1>1, <2>3, <3>3 DEF Content, On
      <3>5. Full(c, s, g, z, q[g] \o <<v>>)
        BY <2>1, <3>1, <3>2, <3>4, ChannelTakesOne
      <3> QED BY <3>4, <3>5, Zenon
    <2>4. CASE g # "cpu"
      <3>1. ASSUME NEW x \in Messages(c, g), x[1] = k PROVE x[2] # -1
        <4>1. x[2] \in Slots(c, g, k) /\ k \notin c.bare
          BY <1>1, <2>2, <3>1
        <4>2. Slots(c, g, k) \subseteq {0} \cup DOMAIN c.plan[k]
          BY <2>4, <4>1 DEF Slots
        <4>3. DOMAIN c.plan[k] \subseteq Nat
          BY <1>2, ConfigFacts
        <4> QED BY <4>1, <4>2, <4>3
      <3>2. \A x \in Messages(c, g) : Earlier(x, z) <=> Earlier(x, y)
        BY <1>1, <1>2, <2>2, <3>1 DEF Earlier
      <3>3. m[g] = <<>>
        BY <2>4 DEF On
      <3> QED BY <2>1, <3>2, <3>3, ChannelKept
    <2> QED BY <2>3, <2>4
  <1> QED BY <1>1, <1>2, <1>3 DEF Stream, Full

\* The metadata, behind its size.
LEMMA ObjectIsSent ==
    ASSUME NEW c \in Configs, NEW s, NEW n \in 1..Len(c.plan), NEW q,
           Stream(c, s, n, "object", q), n \notin c.bare, c.op = "p2p",
           NEW m, m = On("cpu", <<c.plan[n]>>)
    PROVE  Stream(c, s, n, "tensors", [g \in Group |-> q[g] \o m[g]])
  <1>1. PICK y, z : y = <<n, 0>> /\ z = <<n, 1>>
    OBVIOUS
  <1>2. n \in Int /\ Limit(n, "object") = y /\ Limit(n, "tensors") = z
    BY <1>1 DEF Limit
  <1>3. ASSUME NEW g \in Group
        PROVE  Full(c, s, g, z, q[g] \o m[g])
    <2>1. Full(c, s, g, y, q[g])
      BY <1>2, StreamFacts
    <2>2. \A x \in Messages(c, g) :
            x = <<x[1], x[2]>> /\ x[1] \in Int /\ x[2] \in Int /\ x[2] \in Slots(c, g, x[1])
      BY PlaceFacts
    <2>3. CASE g = "cpu"
      <3>1. y \in Messages(c, g)
        <4>1. 0 \in Slots(c, g, n)
          BY <2>3 DEF Slots, MetadataGroupOf
        <4> QED BY <1>1, <4>1, MessageFacts
      <3>2. \A x \in Messages(c, g) : Earlier(x, z) <=> (Earlier(x, y) \/ x = y)
        BY <1>1, <1>2, <2>2 DEF Earlier
      <3>3. PICK v : v = c.plan[n]
        OBVIOUS
      <3>4. v = Content(c, s, y) /\ m[g] = <<v>>
        BY <1>1, <2>3, <3>3 DEF Content, On
      <3>5. Full(c, s, g, z, q[g] \o <<v>>)
        BY <2>1, <3>1, <3>2, <3>4, ChannelTakesOne
      <3> QED BY <3>4, <3>5, Zenon
    <2>4. CASE g # "cpu"
      <3>1. ASSUME NEW x \in Messages(c, g), x[1] = n PROVE x[2] # 0
        <4>1. x[2] \in Slots(c, g, n)
          BY <2>2, <3>1
        <4>2. Slots(c, g, n) \subseteq DOMAIN c.plan[n]
          BY <2>4 DEF Slots, MetadataGroupOf
        <4>3. DOMAIN c.plan[n] = 1..Len(c.plan[n])
          BY ConfigFacts
        <4> QED BY <4>1, <4>2, <4>3
      <3>2. \A x \in Messages(c, g) : Earlier(x, z) <=> Earlier(x, y)
        BY <1>1, <1>2, <2>2, <3>1 DEF Earlier
      <3>3. m[g] = <<>>
        BY <2>4 DEF On
      <3> QED BY <2>1, <3>2, <3>3, ChannelKept
    <2> QED BY <2>3, <2>4
  <1> QED BY <1>1, <1>2, <1>3 DEF Stream, Full

\* The metadata that is broadcast.
LEMMA MetadataIsSent ==
    ASSUME NEW c \in Configs, NEW s, NEW n \in 0..Len(c.plan) - 1, NEW q,
           Stream(c, s, n, "idle", q), NEW k, k = n + 1, k \notin c.bare, c.op # "p2p",
           NEW m, m = On(MetadataGroupOf(c), <<c.plan[k]>>)
    PROVE  Stream(c, s, k, "tensors", [g \in Group |-> q[g] \o m[g]])
  <1>1. PICK y, w, z : y = <<k, -1>> /\ w = <<k, 0>> /\ z = <<k, 1>>
    OBVIOUS
  <1>2. k \in 1..Len(c.plan) /\ k \in Int /\ Limit(n, "idle") = y /\ Limit(k, "tensors") = z
    BY <1>1, ConfigFacts DEF Limit
  <1>3. ASSUME NEW g \in Group
        PROVE  Full(c, s, g, z, q[g] \o m[g])
    <2>1. Full(c, s, g, y, q[g])
      BY <1>2, StreamFacts
    <2>2. \A x \in Messages(c, g) :
            x = <<x[1], x[2]>> /\ x[1] \in Int /\ x[2] \in Int /\ x[2] \in Slots(c, g, x[1])
      BY PlaceFacts
    <2>3. DOMAIN c.plan[k] \subseteq Nat \ {0}
      <3>1. Len(c.plan[k]) \in Nat /\ DOMAIN c.plan[k] = 1..Len(c.plan[k])
        BY <1>2, ConfigFacts
      <3> QED BY <3>1
    <2>4. CASE g = MetadataGroupOf(c)
      <3>1. w \in Messages(c, g)
        <4>1. 0 \in Slots(c, g, k)
          BY <1>1, <2>4 DEF Slots
        <4> QED BY <1>1, <1>2, <4>1, MessageFacts
      <3>2. ASSUME NEW x \in Messages(c, g), x[1] = k PROVE x[2] >= 0
        <4>1. x[2] \in Slots(c, g, k) /\ k \notin c.bare
          BY <1>1, <2>2, <3>2
        <4>2. Slots(c, g, k) \subseteq {0} \cup DOMAIN c.plan[k]
          BY <4>1 DEF Slots
        <4> QED BY <2>3, <4>1, <4>2
      <3>3. \A x \in Messages(c, g) :
                /\ Earlier(x, w) <=> Earlier(x, y)
                /\ Earlier(x, z) <=> (Earlier(x, w) \/ x = w)
        BY <1>1, <1>2, <2>2, <3>2 DEF Earlier
      <3>4. PICK v : v = c.plan[k]
        OBVIOUS
      <3>5. v = Content(c, s, w) /\ m[g] = <<v>>
        BY <1>1, <2>4, <3>4 DEF Content, On
      <3>6. Full(c, s, g, z, q[g] \o <<v>>)
        BY <2>1, <3>1, <3>3, <3>5, ChannelTakesOne
      <3> QED BY <3>5, <3>6, Zenon
    <2>5. CASE g # MetadataGroupOf(c)
      <3>1. ASSUME NEW x \in Messages(c, g), x[1] = k PROVE x[2] >= 1
        <4>1. x[2] \in Slots(c, g, k) /\ k \notin c.bare
          BY <1>1, <2>2, <3>1
        <4>2. Slots(c, g, k) \subseteq DOMAIN c.plan[k]
          BY <2>5, <4>1 DEF Slots
        <4> QED BY <2>3, <4>1, <4>2
      <3>2. \A x \in Messages(c, g) : Earlier(x, z) <=> Earlier(x, y)
        BY <1>1, <1>2, <2>2, <3>1 DEF Earlier
      <3>3. m[g] = <<>>
        BY <2>5 DEF On
      <3> QED BY <2>1, <3>2, <3>3, ChannelKept
    <2> QED BY <2>4, <2>5
  <1> QED BY <1>1, <1>2, <1>3 DEF Stream, Full

\* A bare tensor.
LEMMA BareIsSent ==
    ASSUME NEW c \in Configs, NEW s, NEW n \in 0..Len(c.plan) - 1, NEW q,
           Stream(c, s, n, "idle", q), NEW k, k = n + 1, k \in c.bare,
           NEW m, m = On("device", <<TensorOf(c.plan[k][1], s, k)>>)
    PROVE  Stream(c, s, k, "idle", [g \in Group |-> q[g] \o m[g]])
  <1>1. PICK y, w, z : y = <<k, -1>> /\ w = <<k, 1>> /\ z = <<k + 1, -1>>
    OBVIOUS
  <1>2. k \in 1..Len(c.plan) /\ k \in Int /\ Limit(n, "idle") = y /\ Limit(k, "idle") = z
    BY <1>1, ConfigFacts DEF Limit
  <1>3. ASSUME NEW g \in Group
        PROVE  Full(c, s, g, z, q[g] \o m[g])
    <2>1. Full(c, s, g, y, q[g])
      BY <1>2, StreamFacts
    <2>2. \A x \in Messages(c, g) :
            /\ x = <<x[1], x[2]>> /\ x[1] \in Int /\ x[2] \in Int /\ x[2] \in Slots(c, g, x[1])
            /\ x[2] >= -1
      <3>1. ASSUME NEW x \in Messages(c, g) PROVE x[2] >= -1
        <4>1. x[2] \in Slots(c, g, x[1]) /\ x[1] \in 1..Len(c.plan) /\ x[2] \in Int
          BY MessageFacts, PlaceFacts
        <4>2. x[2] \in -1..Len(c.plan[x[1]])
          BY <4>1, SlotFacts
        <4> QED BY <4>1, <4>2
      <3> QED BY <3>1, PlaceFacts
    <2>3. CASE g = "device"
      <3>1. w \in Messages(c, g)
        <4>1. 1 \in Slots(c, g, k)
          BY <1>1, <2>3 DEF Slots
        <4> QED BY <1>1, <1>2, <4>1, MessageFacts
      <3>2. ASSUME NEW x \in Messages(c, g), x[1] = k PROVE x[2] = 1
        <4>1. x[2] \in Slots(c, g, k)
          BY <2>2, <3>2
        <4> QED BY <1>1, <4>1 DEF Slots
      <3>3. \A x \in Messages(c, g) :
                /\ Earlier(x, w) <=> Earlier(x, y)
                /\ Earlier(x, z) <=> (Earlier(x, w) \/ x = w)
        BY <1>1, <1>2, <2>2, <3>2 DEF Earlier
      <3>4. PICK v : v = TensorOf(c.plan[k][1], s, k)
        OBVIOUS
      <3>5. v = Content(c, s, w)
        <4>1. ~Cut(c, c.plan[k][1])
          BY <1>1, ConfigFacts DEF IsBare, Cut
        <4> QED BY <1>1, <3>4, <4>1 DEF Content, Piece
      <3>6. m[g] = <<v>>
        BY <2>3, <3>4 DEF On
      <3>7. Full(c, s, g, z, q[g] \o <<v>>)
        BY <2>1, <3>1, <3>3, <3>5, ChannelTakesOne
      <3> QED BY <3>6, <3>7, Zenon
    <2>4. CASE g # "device"
      <3>1. ASSUME NEW x \in Messages(c, g) PROVE x[1] # k
        <4>1. Slots(c, g, k) = {}
          BY <1>1, <2>4 DEF Slots
        <4> QED BY <2>2, <4>1
      <3>2. \A x \in Messages(c, g) : Earlier(x, z) <=> Earlier(x, y)
        BY <1>1, <1>2, <2>2, <3>1 DEF Earlier
      <3>3. m[g] = <<>>
        BY <2>4 DEF On
      <3> QED BY <2>1, <3>2, <3>3, ChannelKept
    <2> QED BY <2>3, <2>4
  <1> QED BY <1>1, <1>2, <1>3 DEF Stream, Full

\* A bare tensor that is refused.
LEMMA BareIsRefused ==
    ASSUME NEW c \in Configs, NEW s, NEW n \in 0..Len(c.plan) - 1, NEW q,
           Stream(c, s, n, "idle", q), NEW k, k = n + 1, k \in c.bare
    PROVE  Stream(c, s, k, "raised", q)
  <1>1. PICK y, z : y = <<k, -1>> /\ z = <<k, 1>>
    OBVIOUS
  <1>2. k \in Int /\ Limit(n, "idle") = y /\ Limit(k, "raised") = z
    BY <1>1, ConfigFacts DEF Limit
  <1>3. ASSUME NEW g \in Group
        PROVE  IsSeq(q[g]) /\ Holds(c, s, g, z, q[g])
    <2>1. IsSeq(q[g]) /\ Holds(c, s, g, y, q[g])
      BY <1>2, StreamFacts DEF Full
    <2>2. \A x \in Messages(c, g) :
            x = <<x[1], x[2]>> /\ x[1] \in Int /\ x[2] \in Int /\ x[2] \in Slots(c, g, x[1])
      BY PlaceFacts
    <2>3. ASSUME NEW x \in Messages(c, g), x[1] = k PROVE x[2] = 1
      <3>1. x[2] \in Slots(c, g, k)
        BY <2>2, <2>3
      <3> QED BY <1>1, <3>1 DEF Slots
    <2>4. \A x \in Messages(c, g) : Earlier(x, z) => Earlier(x, y)
      BY <1>1, <1>2, <2>2, <2>3 DEF Earlier
    <2> QED BY <2>1, <2>4 DEF Holds
  <1> QED BY <1>1, <1>2, <1>3 DEF Stream, Full

\* The tensors of the k-th dictionary that go on a group.
Carried(c, k, g) ==
    {i \in DOMAIN c.plan[k] : Travels(c.plan[k][i]) /\ CommGroup(c.plan[k][i]) = g}

\* In the order of a set of numbers, an element has the position that the number of
\* smaller elements says.
LEMMA InOrderFinds ==
    ASSUME NEW S, IsFiniteSet(S), S \subseteq Int, NEW i \in S
    PROVE  /\ Cardinality({j \in S : j < i}) + 1 \in 1..Cardinality(S)
           /\ InOrder(S)[Cardinality({j \in S : j < i}) + 1] = i
  <1> DEFINE below(q) == {j \in S : j < q}
  <1>1. ASSUME NEW q \in S
        PROVE  IsFiniteSet(below(q)) /\ Cardinality(below(q)) \in Nat
    <2>1. below(q) \in SUBSET S
      OBVIOUS
    <2> HIDE DEF below
    <2> QED BY <2>1, FS_Subset, FS_CardinalityType
  <1>2. ASSUME NEW p \in S, NEW q \in S, p < q
        PROVE  Cardinality(below(p)) < Cardinality(below(q))
    <2>1. p \in Int /\ q \in Int
      OBVIOUS
    <2>2. below(p) \cup {p} \in SUBSET below(q) /\ p \notin below(p)
      <3>1. \A j \in S : j \in Int /\ (j < p => j < q) /\ p < q /\ ~(p < p)
        BY <1>2, <2>1
      <3> QED BY <3>1
    <2> HIDE DEF below
    <2>3. Cardinality(below(p) \cup {p}) = Cardinality(below(p)) + 1
      BY <1>1, <2>2, FS_AddElement
    <2>4. Cardinality(below(p) \cup {p}) <= Cardinality(below(q))
      BY <1>1, <2>2, FS_Subset
    <2> QED BY <1>1, <2>3, <2>4
  <1>3. Cardinality(S) \in Nat
    BY FS_CardinalityType
  <1>4. Cardinality(below(i)) < Cardinality(S)
    <2>1. below(i) \in SUBSET S /\ below(i) # S /\ i \in Int
      OBVIOUS
    <2> HIDE DEF below
    <2>2. Cardinality(below(i)) <= Cardinality(S) /\ Cardinality(below(i)) # Cardinality(S)
      BY <2>1, FS_Subset
    <2> QED BY <1>1, <1>3, <2>2
  <1>5. PICK n : n = Cardinality(below(i)) + 1
    OBVIOUS
  <1>6. n \in 1..Cardinality(S) /\ n - 1 = Cardinality(below(i))
    <2> HIDE DEF below
    <2> QED BY <1>1, <1>3, <1>4, <1>5
  <1>7. ASSUME NEW q \in S, Cardinality(below(q)) = n - 1
        PROVE  q = i
    <2>1. ~(q < i) /\ ~(i < q)
      <3> HIDE DEF below
      <3> QED BY <1>1, <1>2, <1>6, <1>7
    <2>2. q \in Int /\ i \in Int
      OBVIOUS
    <2> QED BY <2>1, <2>2
  <1>8. (CHOOSE q \in S : Cardinality(below(q)) = n - 1) = i
    <2> HIDE DEF below
    <2> QED BY <1>6, <1>7
  <1>9. InOrder(S)[n] = CHOOSE q \in S : Cardinality(below(q)) = n - 1
    BY <1>6, Zenon DEF InOrder
  <1> QED BY <1>5, <1>6, <1>8, <1>9

\* The tensors before entry i are those of a smaller number.
LEMMA CarriedFacts ==
    ASSUME NEW c \in Configs, NEW k \in 1..Len(c.plan), NEW g
    PROVE  /\ IsFiniteSet(Carried(c, k, g)) /\ Carried(c, k, g) \subseteq 1..Len(c.plan[k])
           /\ Cardinality(Carried(c, k, g)) \in Nat
           /\ PostedBefore(c.plan[k], Len(c.plan[k]) + 1, g) = Cardinality(Carried(c, k, g))
           /\ \A i \in 1..Len(c.plan[k]) :
                PostedBefore(c.plan[k], i, g) = Cardinality({j \in Carried(c, k, g) : j < i})
  <1>1. DOMAIN c.plan[k] = 1..Len(c.plan[k]) /\ Len(c.plan[k]) \in Nat
    BY ConfigFacts
  <1>2. Carried(c, k, g) \in SUBSET (1..Len(c.plan[k]))
    BY <1>1 DEF Carried
  <1>3. IsFiniteSet(1..Len(c.plan[k]))
    BY <1>1, FS_Interval
  <1>4. IsFiniteSet(Carried(c, k, g)) /\ Cardinality(Carried(c, k, g)) \in Nat
    BY <1>2, <1>3, FS_Subset, FS_CardinalityType
  <1>5. {j \in 1..(Len(c.plan[k]) + 1) - 1 : Travels(c.plan[k][j]) /\ CommGroup(c.plan[k][j]) = g}
            = Carried(c, k, g)
    <2>1. (Len(c.plan[k]) + 1) - 1 = Len(c.plan[k])
      BY <1>1
    <2> QED BY <1>1, <2>1, Zenon DEF Carried
  <1>6. ASSUME NEW i \in 1..Len(c.plan[k])
        PROVE  {j \in 1..i - 1 : Travels(c.plan[k][j]) /\ CommGroup(c.plan[k][j]) = g}
                = {j \in Carried(c, k, g) : j < i}
    <2>1. \A j : j \in 1..i - 1 <=> j \in 1..Len(c.plan[k]) /\ j < i
      BY <1>1
    <2> QED BY <1>1, <2>1, Zenon DEF Carried
  <1> QED BY <1>2, <1>4, <1>5, <1>6 DEF PostedBefore

\* One after the other, the tensors of a dictionary that go on a group.
Pieces(c, s, k, g, m) ==
    /\ IsSeq(m) /\ Len(m) = Cardinality(Carried(c, k, g))
    /\ \A i \in Carried(c, k, g) :
            m[PostedBefore(c.plan[k], i, g) + 1] = Piece(c, c.plan[k][i], s, k)

\* The tensors of a dictionary that nothing refuses.
LEMMA TensorsAreSent ==
    ASSUME NEW c \in Configs, NEW s, NEW n \in (1..Len(c.plan)) \ c.bare, NEW q,
           Stream(c, s, n, "tensors", q), NEW m, \A g \in Group : Pieces(c, s, n, g, m[g])
    PROVE  Stream(c, s, n, "idle", [g \in Group |-> q[g] \o m[g]])
  <1>1. PICK y, z : y = <<n, 1>> /\ z = <<n + 1, -1>>
    OBVIOUS
  <1>2. n \in 1..Len(c.plan) /\ n \in Int /\ Limit(n, "tensors") = y /\ Limit(n, "idle") = z
    BY <1>1 DEF Limit
  <1>3. Len(c.plan[n]) \in Nat /\ DOMAIN c.plan[n] = 1..Len(c.plan[n])
    BY ConfigFacts
  <1>4. ASSUME NEW g \in Group
        PROVE  Full(c, s, g, z, q[g] \o m[g])
    <2>1. Full(c, s, g, y, q[g])
      BY <1>2, StreamFacts
    <2>2. /\ Carried(c, n, g) \subseteq 1..Len(c.plan[n])
          /\ PostedBefore(c.plan[n], Len(c.plan[n]) + 1, g) = Cardinality(Carried(c, n, g))
      BY <1>2, CarriedFacts
    <2>3. /\ IsSeq(m[g]) /\ Len(m[g]) = Cardinality(Carried(c, n, g))
          /\ \A i \in Carried(c, n, g) :
                m[g][PostedBefore(c.plan[n], i, g) + 1] = Piece(c, c.plan[n][i], s, n)
      BY DEF Pieces
    <2>4. Before(Messages(c, g), z) = Before(Messages(c, g), y) + Len(m[g])
      <3>1. Len(c.plan[n]) + 1 \in 1..Len(c.plan[n]) + 1 /\ Len(c.plan[n]) + 1 \in Nat
            /\ Len(c.plan[n]) + 1 > Len(c.plan[n])
        BY <1>3
      <3>2. Before(Messages(c, g), <<n, Len(c.plan[n]) + 1>>) = Before(Messages(c, g), z)
        BY <1>1, <3>1, DictionaryEnds
      <3>3. Before(Messages(c, g), <<n, Len(c.plan[n]) + 1>>) =
                Before(Messages(c, g), y) + PostedBefore(c.plan[n], Len(c.plan[n]) + 1, g)
        BY <1>1, <3>1, TensorPlace
      <3> QED BY <2>2, <2>3, <3>2, <3>3
    <2>5. ASSUME NEW x \in Messages(c, g), Earlier(x, z), ~Earlier(x, y)
          PROVE  \E j \in 1..Len(m[g]) : /\ Before(Messages(c, g), x) + 1 = Len(q[g]) + j
                                         /\ m[g][j] = Content(c, s, x)
      <3>1. x = <<x[1], x[2]>> /\ x[1] \in Int /\ x[2] \in Int /\ x[2] \in Slots(c, g, x[1])
        BY PlaceFacts
      <3>2. x[1] \in 1..Len(c.plan) /\ x[2] >= -1
        <4>1. x[1] \in 1..Len(c.plan)
          BY MessageFacts
        <4>2. x[2] \in -1..Len(c.plan[x[1]])
          BY <3>1, <4>1, SlotFacts
        <4> QED BY <4>1, <4>2, <3>1
      <3>3. x[1] = n /\ x[2] >= 1
        BY <1>1, <1>2, <2>5, <3>1, <3>2 DEF Earlier
      <3>4. PICK i : i = x[2] /\ x = <<n, i>>
        BY <3>1, <3>3
      <3>5. i \in Slots(c, g, n) /\ i >= 1 /\ n \notin c.bare
        BY <3>1, <3>3, <3>4
      <3>6. i \in Carried(c, n, g)
        BY <3>5 DEF Slots, Carried
      <3>7. i \in 1..Len(c.plan[n]) /\ i \in 1..Len(c.plan[n]) + 1
        BY <1>3, <2>2, <3>6
      <3>8. PICK b : b = PostedBefore(c.plan[n], i, g)
        OBVIOUS
      <3>9. b \in Nat /\ Before(Messages(c, g), x) = Before(Messages(c, g), y) + b
        BY <1>1, <3>4, <3>7, <3>8, TensorPlace
      <3>10. Len(q[g]) = Before(Messages(c, g), y) /\ Before(Messages(c, g), y) \in Nat
        BY <2>1, MessageFacts, BeforeType DEF Full
      <3>11. Before(Messages(c, g), x) + 1 = Len(q[g]) + (b + 1)
        BY <3>9, <3>10
      <3>12. b + 1 <= Len(m[g]) /\ Len(m[g]) \in Nat
        <4>1. Before(Messages(c, g), x) < Before(Messages(c, g), z)
          <5>1. z \in Int \X Int /\ IsPlaces(Messages(c, g))
            BY <1>1, <1>2, MessageFacts
          <5> QED BY <2>5, <5>1, BeforeLess
        <4>2. Len(m[g]) \in Nat
          BY <2>3, SequenceFacts
        <4> QED BY <2>4, <3>9, <3>10, <4>1, <4>2
      <3>13. b + 1 \in 1..Len(m[g])
        BY <3>9, <3>12
      <3>14. m[g][b + 1] = Piece(c, c.plan[n][i], s, n)
        BY <2>3, <3>6, <3>8
      <3>15. Content(c, s, x) = Piece(c, c.plan[n][i], s, n)
        BY <3>3, <3>4, <3>7 DEF Content
      <3> QED BY <3>11, <3>13, <3>14, <3>15
    <2> QED BY <2>1, <2>3, <2>4, <2>5, ChannelGrows
  <1> QED BY <1>2, <1>4 DEF Stream, Full

\* The tensors up to one that is refused.
LEMMA TensorsAreRefused ==
    ASSUME NEW c \in Configs, NEW s, NEW n \in 1..Len(c.plan), NEW q,
           Stream(c, s, n, "tensors", q), NEW m, \A g \in Group : IsSeq(m[g])
    PROVE  Stream(c, s, n, "raised", [g \in Group |-> q[g] \o m[g]])
  <1>1. Limit(n, "raised") = Limit(n, "tensors")
    BY DEF Limit
  <1>2. ASSUME NEW g \in Group
        PROVE  IsSeq(q[g] \o m[g]) /\ Holds(c, s, g, Limit(n, "raised"), q[g] \o m[g])
    <2>1. IsSeq(q[g]) /\ Holds(c, s, g, Limit(n, "raised"), q[g])
      BY <1>1, StreamFacts DEF Full
    <2> QED BY <2>1, Concatenation, HoldsOn
  <1> QED BY <1>2 DEF Stream

---------------------------------------------------------------------------
(* Slices.                                                                 *)

\* The s-th of `size` pieces of n elements lies within all of them.
LEMMA PieceFits ==
    ASSUME NEW size \in Nat, NEW s \in 0..size - 1, NEW n \in Nat
    PROVE  /\ s * n \in Nat /\ (s + 1) * n = s * n + n /\ size * n \in Nat
           /\ s * n + n <= size * n
  <1>1. PICK d \in Nat : size = s + 1 + d
    <2>1. size - s - 1 \in Nat /\ size = s + 1 + (size - s - 1)
      OBVIOUS
    <2> QED BY <2>1
  <1>2. size * n = s * n + n + d * n
    BY <1>1
  <1>3. d * n \in Nat /\ s * n \in Nat /\ (s + 1) * n = s * n + n
    BY <1>1
  <1> QED BY <1>2, <1>3

\* A number of elements that can be divided.
LEMMA Divided ==
    ASSUME NEW size \in Nat \ {0}, NEW l \in Nat, l % size = 0
    PROVE  l \div size \in Nat /\ l = size * (l \div size)
  OBVIOUS

\* A tensor that is refused stops the loops, and of the others those go in slices that
\* can be divided.
LEMMA WhatStops ==
    ASSUME NEW e
    PROVE  /\ Refuses(e) <=> Stops(config, e)
           /\ Travels(e) /\ ~Stops(config, e) => (UseAllGather(e) <=> Cut(config, e))
  BY DEF Refuses, Stops, UseAllGather, Divisible, Cut

\* A dictionary with a tensor that is refused.
LEMMA WhatRejects ==
    ASSUME NEW k, k \notin config.bare
    PROVE  HasRefused(config.plan[k]) <=> Rejects(config, k)
  BY WhatStops DEF HasRefused, Rejects

\* A bare tensor that is refused.
LEMMA WhatRejectsBare ==
    ASSUME NEW k \in config.bare, DOMAIN config.plan[k] = {1}
    PROVE  Refuses(config.plan[k][1]) <=> Rejects(config, k)
  BY WhatStops DEF Rejects

\* What a rank sends is its piece.
LEMMA MessageIsPiece ==
    ASSUME config \in Configs, NEW e, IsEntry(config, e), Travels(e), ~Refuses(e),
           NEW s \in Rank, NEW k
    PROVE  Message(e, s, k) = Piece(config, e, s, k)
  <1>1. UseAllGather(e) <=> Cut(config, e)
    BY WhatStops
  <1>2. CASE ~Cut(config, e)
    BY <1>1, <1>2 DEF Message, Piece
  <1>3. CASE Cut(config, e)
    <2>1. PICK l, size, n : l = e.numel /\ size = config.size /\ n = l \div size
      OBVIOUS
    <2>2. l \in Nat /\ size \in Nat \ {0} /\ s \in 0..size - 1 /\ l % size = 0
      BY <1>3, <2>1, ConfigFacts DEF Rank, Cut, IsEntry, Travels
    <2>3. n \in Nat /\ l = size * n
      BY <2>1, <2>2, Divided
    <2>4. PICK a, b, h : a = s * n /\ b = (s + 1) * n /\ h = size * n
      OBVIOUS
    <2>5. a \in Nat /\ b = a + n /\ h \in Nat /\ a + n <= h
      BY <2>2, <2>3, <2>4, PieceFits
    <2>6. PICK data : data = TensorOf(e, s, k)
      OBVIOUS
    <2>7. data = [i \in 1..h |-> Element(e, s, k, i)]
      BY <2>1, <2>3, <2>4, <2>6 DEF TensorOf
    <2>8. IsSeq(data) /\ Len(data) = h /\ DOMAIN data = 1..h
      <3>1. PICK T : T = {Element(e, s, k, i) : i \in 1..h}
        OBVIOUS
      <3>2. data \in [1..h -> T]
        BY <2>7, <3>1
      <3> QED BY <2>5, <3>2, SequenceFrom
    <2>9. Message(e, s, k) = SubSeq(data, a + 1, b)
      BY <1>1, <1>3, <2>1, <2>3, <2>4, <2>6, <2>8 DEF Message, Slice
    <2>10. SubSeq(data, a + 1, b) = [i \in 1..n |-> data[a + i]]
      <3>1. PICK T : T = Range(data) /\ data \in Seq(T)
        BY <2>8 DEF IsSeq
      <3>2. \A i \in a + 1..b : i \in DOMAIN data
        BY <2>5, <2>8
      <3>3. /\ SubSeq(data, a + 1, b) \in Seq(T)
            /\ Len(SubSeq(data, a + 1, b)) = IF a + 1 <= b THEN b - (a + 1) + 1 ELSE 0
            /\ \A i \in 1..b - (a + 1) + 1 : SubSeq(data, a + 1, b)[i] = data[a + 1 + i - 1]
        BY <2>5, <3>1, <3>2, SubSeqProperties
      <3>4. Len(SubSeq(data, a + 1, b)) = n
        BY <2>3, <2>5, <3>3
      <3>5. \A i \in 1..n : SubSeq(data, a + 1, b)[i] = data[a + i]
        <4>1. b - (a + 1) + 1 = n /\ \A i \in 1..n : a + 1 + i - 1 = a + i
          BY <2>3, <2>5
        <4> QED BY <3>3, <4>1
      <3>6. PICK t : t = SubSeq(data, a + 1, b)
        OBVIOUS
      <3>7. t = [i \in 1..Len(t) |-> t[i]]
        BY <3>3, <3>6, LenProperties
      <3> QED BY <3>4, <3>5, <3>6, <3>7
    <2>11. [i \in 1..n |-> data[a + i]] = [i \in 1..n |-> Element(e, s, k, a + i)]
      <3>1. \A i \in 1..n : a + i \in 1..h
        BY <2>3, <2>5
      <3>2. \A i \in 1..n : data[a + i] = Element(e, s, k, a + i)
        BY <2>7, <3>1
      <3> QED BY <3>2
    <2>12. Piece(config, e, s, k) = [i \in 1..n |-> Element(e, s, k, a + i)]
      BY <1>3, <2>1, <2>4 DEF Piece
    <2> QED BY <2>9, <2>10, <2>11, <2>12
  <1> QED BY <1>2, <1>3

---------------------------------------------------------------------------
(* A sender's step.                                                        *)

\* Sender s comes to dictionary n, at p; the other senders stay.
Moves(s, n, p) ==
    /\ DOMAIN sent' = Rank /\ sent'[s] = n /\ \A t \in Rank \ {s} : sent'[t] = sent[t]
    /\ DOMAIN spc' = Rank /\ spc'[s] = p /\ \A t \in Rank \ {s} : spc'[t] = spc[t]

\* Its messages go to its receivers, and to nobody else.
Carries(s, messages) ==
    /\ DOMAIN chan' = Rank
    /\ \A r \in Receiver :
        chan'[r] = IF From(r) = s THEN [g \in Group |-> chan[r][g] \o messages[g]] ELSE chan[r]
    /\ \A r \in Rank : DOMAIN chan'[r] = Group

\* That is what Put does.
LEMMA PutCarries ==
    ASSUME Domains, NEW s, NEW messages, Put(s, messages)
    PROVE  Carries(s, messages)
  <1>1. \A r \in Rank : r \in To(s) <=> r \in Receiver /\ From(r) = s
    BY DEF To
  <1>2. Receiver \subseteq Rank
    BY DEF Receiver
  <1>3. DOMAIN chan' = Rank
    BY DEF Put
  <1>4. \A r \in Rank : chan'[r] = IF r \in To(s)
                                   THEN [g \in Group |-> chan[r][g] \o messages[g]] ELSE chan[r]
    BY DEF Put
  <1>5. \A r \in Rank : DOMAIN chan'[r] = Group
    BY <1>4 DEF Domains
  <1> QED BY <1>1, <1>2, <1>3, <1>4, <1>5 DEF Carries

\* A receiver does not see how far its sender is ahead.
LEMMA FollowsOn ==
    ASSUME NEW c, NEW n \in Int, NEW p, NEW q, NEW m, Follows(c, n, p, q, m),
           NEW k \in Nat, NEW o, n <= k, k = n => o # "object"
    PROVE  Follows(c, k, o, q, m)
  <1>1. m \in 0..k /\ (m < n => m < k) /\ (m = k => k = n)
    BY DEF Follows
  <1> QED BY <1>1 DEF Follows

\* What is to be shown of a step of a sender.
LEMMA SenderStep ==
    ASSUME IInv, NEW s \in Sender, NEW n \in Nat, NEW p, Moves(s, n, p),
           Program(config, n, p), sent[s] <= n, n = sent[s] => p # "object",
           UNCHANGED <<config, posted, open, rpc, gathers, received>>,
           DOMAIN chan' = Rank, \A r \in Rank : DOMAIN chan'[r] = Group,
           \A r \in Receiver : IF From(r) = s THEN Stream(config, s, n, p, chan'[r])
                               ELSE chan'[r] = chan[r]
    PROVE  IInv'
  <1>1. /\ Rank' = Rank /\ Receiver' = Receiver /\ Sender' = Sender
        /\ \A r : From(r)' = From(r)
    BY DEF Rank, Receiver, Sender, From
  <1>2. s \in Rank /\ Receiver \subseteq Rank /\ Sender \subseteq Rank
    BY ConfigFacts DEF IInv, Rank, Receiver, Sender
  <1>3. config' \in Configs /\ Domains'
    BY <1>1 DEF IInv, Domains, Moves
  <1>4. ASSUME NEW t \in Rank PROVE SenderInv(t)'
    <2>1. CASE t = s
      BY <2>1 DEF SenderInv, Moves
    <2>2. CASE t # s
      <3>1. sent'[t] = sent[t] /\ spc'[t] = spc[t] /\ SenderInv(t)
        BY <2>2 DEF IInv, Moves
      <3> QED BY <3>1 DEF SenderInv
    <2> QED BY <2>1, <2>2
  <1>5. ASSUME NEW r \in Receiver PROVE ReceiverInv(r)'
    <2>1. From(r) \in Rank
      BY <1>2, ConfigFacts DEF From, Rank, IInv, Receiver
    <2>2. ReceiverInv(r)
      BY DEF IInv
    <2>3. CASE From(r) = s
      <3>1. sent'[From(r)] = n /\ spc'[From(r)] = p /\ Stream(config, s, n, p, chan'[r])
        BY <2>3 DEF Moves
      <3>2. sent[s] \in Int
        BY <1>2 DEF IInv, SenderInv, Program
      <3>3. Receiving(config, s, sent[s], spc[s], rpc[r], received[r], open[r], posted[r],
                      gathers[r])
        BY <2>2, <2>3 DEF ReceiverInv
      <3>4. Follows(config, n, p, rpc[r], Len(received[r]) + Len(open[r]))
        BY <3>2, <3>3, FollowsOn DEF Receiving
      <3>5. Receiving(config, s, n, p, rpc[r], received[r], open[r], posted[r], gathers[r])
        BY <3>3, <3>4 DEF Receiving
      <3> QED BY <1>1, <2>3, <3>1, <3>5 DEF ReceiverInv
    <2>4. CASE From(r) # s
      <3>1. sent'[From(r)] = sent[From(r)] /\ spc'[From(r)] = spc[From(r)] /\ chan'[r] = chan[r]
        BY <2>1, <2>4 DEF Moves
      <3> QED BY <1>1, <2>2, <3>1 DEF ReceiverInv
    <2> QED BY <2>3, <2>4
  <1>6. ASSUME NEW t \in Rank \ Sender PROVE IdleSender(t)'
    <2>1. sent'[t] = sent[t] /\ spc'[t] = spc[t] /\ IdleSender(t)
      BY <1>6 DEF Moves, IInv
    <2> QED BY <2>1 DEF IdleSender
  <1>7. ASSUME NEW r \in Rank \ Receiver PROVE IdleReceiver(r)'
    <2>1. IdleReceiver(r)
      BY DEF IInv
    <2> QED BY <2>1 DEF IdleReceiver
  <1> QED BY <1>1, <1>3, <1>4, <1>5, <1>6, <1>7 DEF IInv

\* The program of a sender, step by step.
LEMMA ProgramSteps ==
    ASSUME NEW c \in Configs, NEW n
    PROVE  /\ Program(c, n, "idle") /\ n < Len(c.plan) /\ n + 1 \notin c.bare =>
                /\ c.op = "p2p" => Program(c, n + 1, "object")
                /\ Program(c, n + 1, "tensors")
           /\ Program(c, n, "object") => Program(c, n, "tensors")
           /\ Program(c, n, "idle") /\ n + 1 \in c.bare =>
                Program(c, n + 1, IF Rejects(c, n + 1) THEN "raised" ELSE "idle")
           /\ Program(c, n, "tensors") =>
                Program(c, n, IF Rejects(c, n) THEN "raised" ELSE "idle")
  <1>1. Len(c.plan) \in Nat /\ c.bare \subseteq 1..Len(c.plan)
    BY ConfigFacts
  <1>2. ASSUME Program(c, n, "idle")
        PROVE  n \in 0..Len(c.plan) /\ \A k \in 1..n : ~Rejects(c, k)
    BY <1>2 DEF Program
  <1>3. ASSUME Program(c, n, "idle"), n < Len(c.plan)
        PROVE  /\ n + 1 \in 0..Len(c.plan) /\ n + 1 >= 1
               /\ \A k \in 1..n + 1 : k < n + 1 => ~Rejects(c, k)
    BY <1>1, <1>2, <1>3
  <1>4. ASSUME Program(c, n, "idle"), n < Len(c.plan), n + 1 \notin c.bare
        PROVE  (c.op = "p2p" => Program(c, n + 1, "object")) /\ Program(c, n + 1, "tensors")
    BY <1>3, <1>4 DEF Program
  <1>5. ASSUME Program(c, n, "object") PROVE Program(c, n, "tensors")
    BY <1>5 DEF Program
  <1>6. ASSUME Program(c, n, "idle"), n + 1 \in c.bare
        PROVE  Program(c, n + 1, IF Rejects(c, n + 1) THEN "raised" ELSE "idle")
    <2>1. n < Len(c.plan)
      BY <1>1, <1>2, <1>6
    <2>2. /\ n + 1 \in 0..Len(c.plan) /\ n + 1 >= 1
          /\ \A k \in 1..n + 1 : k < n + 1 => ~Rejects(c, k)
      BY <1>3, <1>6, <2>1
    <2>3. \A k \in 1..n + 1 : k < n + 1 \/ k = n + 1
      BY <2>2
    <2> QED BY <2>2, <2>3 DEF Program
  <1>7. ASSUME Program(c, n, "tensors")
        PROVE  Program(c, n, IF Rejects(c, n) THEN "raised" ELSE "idle")
    <2>1. /\ n \in 0..Len(c.plan) /\ n >= 1
          /\ \A k \in 1..n : k < n => ~Rejects(c, k)
      BY <1>7 DEF Program
    <2>2. \A k \in 1..n : k < n \/ k = n
      BY <2>1
    <2> QED BY <2>1, <2>2 DEF Program
  <1> QED BY <1>4, <1>5, <1>6, <1>7

\* A step that sends messages.
LEMMA SenderPuts ==
    ASSUME IInv, NEW s \in Sender, NEW n \in Nat, NEW p, Moves(s, n, p),
           Program(config, n, p), sent[s] <= n, n = sent[s] => p # "object",
           UNCHANGED <<config, posted, open, rpc, gathers, received>>,
           NEW messages, Put(s, messages),
           \A q : Stream(config, s, sent[s], spc[s], q) =>
                    Stream(config, s, n, p, [g \in Group |-> q[g] \o messages[g]])
    PROVE  IInv'
  <1>1. Carries(s, messages)
    BY PutCarries DEF IInv
  <1>2. DOMAIN chan' = Rank /\ \A r \in Rank : DOMAIN chan'[r] = Group
    BY <1>1 DEF Carries
  <1>3. ASSUME NEW r \in Receiver
        PROVE  IF From(r) = s THEN Stream(config, s, n, p, chan'[r]) ELSE chan'[r] = chan[r]
    <2>1. CASE From(r) = s
      <3>1. Stream(config, s, sent[s], spc[s], chan[r])
        BY <2>1 DEF IInv, ReceiverInv
      <3>2. PICK q : q = chan[r]
        OBVIOUS
      <3>3. Stream(config, s, n, p, [g \in Group |-> q[g] \o messages[g]])
        BY <3>1, <3>2
      <3>4. chan'[r] = [g \in Group |-> q[g] \o messages[g]]
        BY <1>1, <2>1, <3>2 DEF Carries
      <3> QED BY <2>1, <3>3, <3>4
    <2>2. CASE From(r) # s
      BY <1>1, <2>2 DEF Carries
    <2> QED BY <2>1, <2>2
  <1> QED BY <1>2, <1>3, SenderStep

\* Where a sender is.
LEMMA SenderFacts ==
    ASSUME IInv, NEW s \in Sender
    PROVE  /\ config \in Configs /\ s \in Rank /\ Sender \subseteq Rank
           /\ sent[s] \in Nat /\ sent[s] <= Len(Plan) /\ Len(Plan) \in Nat
           /\ Program(config, sent[s], spc[s])
           /\ DOMAIN sent = Rank /\ DOMAIN spc = Rank
  <1>1. config \in Configs /\ s \in Rank /\ Sender \subseteq Rank
    BY ConfigFacts DEF IInv, Rank, Sender
  <1>2. Program(config, sent[s], spc[s]) /\ DOMAIN sent = Rank /\ DOMAIN spc = Rank
    BY <1>1 DEF IInv, SenderInv, Domains
  <1>3. Len(Plan) \in Nat
    BY <1>1, ConfigFacts DEF Plan
  <1>4. sent[s] \in 0..Len(Plan)
    BY <1>2 DEF Program, Plan
  <1> QED BY <1>1, <1>2, <1>3, <1>4

\* A step of one sender is written with EXCEPT.
LEMMA SenderMoves ==
    ASSUME IInv, NEW s \in Sender, NEW n, NEW p,
           \/ sent' = [sent EXCEPT ![s] = n]
           \/ sent' = sent /\ n = sent[s],
           \/ spc' = [spc EXCEPT ![s] = p]
           \/ spc' = spc /\ p = spc[s]
    PROVE  Moves(s, n, p)
  <1>1. s \in Rank /\ DOMAIN sent = Rank /\ DOMAIN spc = Rank
    BY SenderFacts
  <1>2. DOMAIN sent' = Rank /\ sent'[s] = n /\ \A t \in Rank \ {s} : sent'[t] = sent[t]
    BY <1>1
  <1>3. DOMAIN spc' = Rank /\ spc'[s] = p /\ \A t \in Rank \ {s} : spc'[t] = spc[t]
    BY <1>1
  <1> QED BY <1>2, <1>3 DEF Moves

\* Beginning a dictionary keeps the invariant: the size of the metadata, or the metadata,
\* goes behind what the channels hold.
LEMMA SendMetadataKeeps ==
    ASSUME IInv, NEW s \in Sender, SendMetadata(s)
    PROVE  IInv'
  <1>1. PICK k, c : k = sent[s] /\ c = config
    OBVIOUS
  <1>2. /\ k \in Nat /\ c \in Configs /\ Len(c.plan) \in Nat /\ Program(c, k, "idle")
        /\ k < Len(c.plan) /\ k + 1 \notin c.bare
    BY <1>1, SenderFacts DEF SendMetadata, Plan
  <1>3. k \in 0..Len(c.plan) - 1 /\ k + 1 \in Nat /\ sent[s] <= k + 1 /\ k + 1 # sent[s]
    BY <1>1, <1>2
  <1>4. sent' = [sent EXCEPT ![s] = k + 1]
    BY <1>1, Zenon DEF SendMetadata
  <1>5. UNCHANGED <<config, posted, open, rpc, gathers, received>> /\ spc[s] = "idle"
    BY DEF SendMetadata
  <1>6. CASE config.op = "p2p"
    <2>1. PICK messages : messages = On("cpu", <<SizeOf(c.plan[k + 1])>>)
      OBVIOUS
    <2>2. Put(s, messages) /\ spc' = [spc EXCEPT ![s] = "object"]
      BY <1>1, <1>6, <2>1 DEF SendMetadata, Plan
    <2>3. Moves(s, k + 1, "object")
      BY <1>4, <2>2, SenderMoves
    <2>4. Program(c, k + 1, "object")
      BY <1>1, <1>2, <1>6, ProgramSteps
    <2>5. ASSUME NEW q, Stream(c, s, k, "idle", q)
          PROVE  Stream(c, s, k + 1, "object", [g \in Group |-> q[g] \o messages[g]])
      <3>1. PICK j : j = k + 1
        OBVIOUS
      <3>2. j \notin c.bare /\ messages = On("cpu", <<SizeOf(c.plan[j])>>) /\ c.op = "p2p"
        BY <1>1, <1>2, <1>6, <2>1, <3>1
      <3>3. Stream(c, s, j, "object", [g \in Group |-> q[g] \o messages[g]])
        BY <1>2, <1>3, <2>5, <3>1, <3>2, SizeIsSent
      <3> QED BY <3>1, <3>3, Zenon
    <2> QED BY <1>1, <1>3, <1>5, <2>2, <2>3, <2>4, <2>5, SenderPuts
  <1>7. CASE config.op # "p2p"
    <2>1. PICK messages : messages = On(MetadataGroupOf(c), <<c.plan[k + 1]>>)
      OBVIOUS
    <2>2. Put(s, messages) /\ spc' = [spc EXCEPT ![s] = "tensors"]
      BY <1>1, <1>7, <2>1 DEF SendMetadata, Plan, MetadataGroup, MetadataGroupOf
    <2>3. Moves(s, k + 1, "tensors")
      BY <1>4, <2>2, SenderMoves
    <2>4. Program(c, k + 1, "tensors")
      BY <1>2, ProgramSteps
    <2>5. ASSUME NEW q, Stream(c, s, k, "idle", q)
          PROVE  Stream(c, s, k + 1, "tensors", [g \in Group |-> q[g] \o messages[g]])
      BY <1>1, <1>2, <1>3, <1>7, <2>1, <2>5, MetadataIsSent
    <2> QED BY <1>1, <1>3, <1>5, <2>2, <2>3, <2>4, <2>5, SenderPuts
  <1> QED BY <1>6, <1>7

\* Sending the metadata keeps the invariant.
LEMMA SendObjectKeeps ==
    ASSUME IInv, NEW s \in Sender, SendObject(s)
    PROVE  IInv'
  <1>1. PICK k, c : k = sent[s] /\ c = config
    OBVIOUS
  <1>2. k \in Nat /\ c \in Configs /\ Len(c.plan) \in Nat /\ Program(c, k, "object")
    BY <1>1, SenderFacts DEF SendObject, Plan
  <1>3. k \in 1..Len(c.plan) /\ k \notin c.bare /\ c.op = "p2p"
    BY <1>2 DEF Program
  <1>4. PICK messages : messages = On("cpu", <<c.plan[k]>>)
    OBVIOUS
  <1>5. /\ Put(s, messages) /\ spc' = [spc EXCEPT ![s] = "tensors"] /\ spc[s] = "object"
        /\ sent' = sent /\ UNCHANGED <<config, posted, open, rpc, gathers, received>>
    BY <1>1, <1>4 DEF SendObject, Plan
  <1>6. Moves(s, k, "tensors")
    BY <1>1, <1>5, SenderMoves
  <1>7. Program(c, k, "tensors")
    BY <1>2, ProgramSteps
  <1>8. ASSUME NEW q, Stream(c, s, k, "object", q)
        PROVE  Stream(c, s, k, "tensors", [g \in Group |-> q[g] \o messages[g]])
    BY <1>2, <1>3, <1>4, <1>8, ObjectIsSent
  <1>9. sent[s] <= k
    BY <1>1, <1>2
  <1> QED BY <1>1, <1>2, <1>5, <1>6, <1>7, <1>8, <1>9, SenderPuts

\* Sending a bare tensor keeps the invariant, refused or not.
LEMMA SendBareKeeps ==
    ASSUME IInv, NEW s \in Sender, SendBare(s)
    PROVE  IInv'
  <1>1. PICK k, j, c : k = sent[s] /\ c = config /\ j = k + 1
    OBVIOUS
  <1>2. /\ k \in Nat /\ c \in Configs /\ Len(c.plan) \in Nat /\ Program(c, k, "idle")
        /\ j \in c.bare
    BY <1>1, SenderFacts DEF SendBare, Plan
  <1>3. j \in 1..Len(c.plan)
    BY <1>2, ConfigFacts
  <1>4. k \in 0..Len(c.plan) - 1 /\ j \in Nat /\ sent[s] <= j /\ j # sent[s]
    BY <1>1, <1>2, <1>3
  <1>5. sent' = [sent EXCEPT ![s] = j]
    BY <1>1, Zenon DEF SendBare
  <1>6. UNCHANGED <<config, posted, open, rpc, gathers, received>> /\ spc[s] = "idle"
    BY DEF SendBare
  <1>7. Refuses(c.plan[j][1]) <=> Rejects(c, j)
    <2>1. DOMAIN c.plan[j] = 1..Len(c.plan[j]) /\ Len(c.plan[j]) = 1
      BY <1>2, <1>3, ConfigFacts DEF IsBare
    <2>2. DOMAIN c.plan[j] = {1}
      BY <2>1
    <2> QED BY <1>1, <1>2, <2>2, WhatRejectsBare
  <1>8. Program(c, j, IF Rejects(c, j) THEN "raised" ELSE "idle")
    BY <1>1, <1>2, ProgramSteps
  <1>9. CASE Rejects(c, j)
    <2>1. spc' = [spc EXCEPT ![s] = "raised"] /\ chan' = chan
      BY <1>1, <1>7, <1>9 DEF SendBare, Plan
    <2>2. Moves(s, j, "raised")
      BY <1>5, <2>1, SenderMoves
    <2>3. DOMAIN chan' = Rank /\ \A r \in Rank : DOMAIN chan'[r] = Group
      BY <2>1 DEF IInv, Domains
    <2>4. ASSUME NEW r \in Receiver, From(r) = s
          PROVE  Stream(c, s, j, "raised", chan'[r])
      <3>1. Stream(c, s, k, "idle", chan[r])
        BY <1>1, <1>6, <2>4 DEF IInv, ReceiverInv
      <3>2. Stream(c, s, j, "raised", chan[r])
        BY <1>1, <1>2, <1>4, <3>1, BareIsRefused
      <3> QED BY <2>1, <3>2
    <2>5. \A r \in Receiver : IF From(r) = s THEN Stream(config, s, j, "raised", chan'[r])
                              ELSE chan'[r] = chan[r]
      BY <1>1, <2>1, <2>4
    <2> QED BY <1>1, <1>4, <1>6, <1>8, <1>9, <2>2, <2>3, <2>5, SenderStep
  <1>10. CASE ~Rejects(c, j)
    <2>1. PICK messages : messages = On("device", <<TensorOf(c.plan[j][1], s, j)>>)
      OBVIOUS
    <2>2. Put(s, messages) /\ spc' = spc
      BY <1>1, <1>7, <1>10, <2>1 DEF SendBare, Plan
    <2>3. Moves(s, j, "idle")
      BY <1>5, <1>6, <2>2, SenderMoves
    <2>4. ASSUME NEW q, Stream(c, s, k, "idle", q)
          PROVE  Stream(c, s, j, "idle", [g \in Group |-> q[g] \o messages[g]])
      BY <1>1, <1>2, <1>4, <2>1, <2>4, BareIsSent
    <2> QED BY <1>1, <1>4, <1>6, <1>8, <1>10, <2>2, <2>3, <2>4, SenderPuts
  <1> QED BY <1>9, <1>10

\* What SendTensors puts into the channels.
Sending(k, s) ==
    [g \in Group |->
        LET S == {i \in Outgoing(Plan[k]) : CommGroup(Plan[k][i]) = g}
        IN  [n \in 1..Cardinality(S) |-> Message(Plan[k][InOrder(S)[n]], s, k)]]

\* These are sequences.
LEMMA SendingFacts ==
    ASSUME config \in Configs, NEW k \in 1..Len(Plan), NEW s, NEW g \in Group
    PROVE  IsSeq(Sending(k, s)[g])
  <1>1. PICK S : S = {i \in Outgoing(Plan[k]) : CommGroup(Plan[k][i]) = g}
    OBVIOUS
  <1>2. Sending(k, s)[g] = [n \in 1..Cardinality(S) |-> Message(Plan[k][InOrder(S)[n]], s, k)]
    BY <1>1, Zenon DEF Sending
  <1>3. Cardinality(S) \in Nat
    <2>1. DOMAIN Plan[k] = 1..Len(Plan[k]) /\ Len(Plan[k]) \in Nat
      BY ConfigFacts DEF Plan
    <2>2. S \in SUBSET (1..Len(Plan[k]))
      BY <1>1, <2>1 DEF Outgoing
    <2>3. IsFiniteSet(1..Len(Plan[k]))
      BY <2>1, FS_Interval
    <2> QED BY <2>2, <2>3, FS_Subset, FS_CardinalityType
  <1>4. PICK N, T : N = Cardinality(S) /\ T = {Message(Plan[k][InOrder(S)[n]], s, k) : n \in 1..N}
    OBVIOUS
  <1>5. Sending(k, s)[g] \in [1..N -> T] /\ N \in Nat
    BY <1>2, <1>3, <1>4
  <1> QED BY <1>5, SequenceFrom

\* If nothing is refused, they are the pieces of all tensors that travel.
LEMMA SendingPieces ==
    ASSUME config \in Configs, NEW k \in 1..Len(Plan), NEW s \in Rank, NEW g \in Group,
           ~HasRefused(Plan[k])
    PROVE  Pieces(config, s, k, g, Sending(k, s)[g])
  <1>1. PICK S : S = Carried(config, k, g)
    OBVIOUS
  <1>2. DOMAIN Plan[k] = 1..Len(Plan[k]) /\ Len(Plan[k]) \in Nat
    BY ConfigFacts DEF Plan
  <1>3. {i \in Outgoing(Plan[k]) : CommGroup(Plan[k][i]) = g} = S
    <2>1. ASSUME NEW i \in DOMAIN Plan[k] PROVE \A j \in 1..i : j \in DOMAIN Plan[k]
      BY <1>2, <2>1
    <2>2. \A i \in DOMAIN Plan[k] : i \in Outgoing(Plan[k]) <=> Travels(Plan[k][i])
      BY <2>1, Zenon DEF Outgoing, HasRefused
    <2>3. \A i : i \in Outgoing(Plan[k]) => i \in DOMAIN Plan[k]
      BY DEF Outgoing
    <2>4. \A i : i \in S <=> /\ i \in DOMAIN Plan[k] /\ Travels(Plan[k][i])
                             /\ CommGroup(Plan[k][i]) = g
      BY <1>1, Zenon DEF Carried, Plan
    <2> QED BY <2>2, <2>3, <2>4, Zenon
  <1>4. PICK m : m = Sending(k, s)[g]
    OBVIOUS
  <1>5. m = [n \in 1..Cardinality(S) |-> Message(Plan[k][InOrder(S)[n]], s, k)]
    BY <1>3, <1>4, Zenon DEF Sending
  <1>6. k \in 1..Len(config.plan)
    BY DEF Plan
  <1>7. /\ IsFiniteSet(S) /\ S \subseteq 1..Len(Plan[k]) /\ Cardinality(S) \in Nat
        /\ \A i \in 1..Len(Plan[k]) :
                PostedBefore(Plan[k], i, g) = Cardinality({j \in S : j < i})
    <2>1. /\ IsFiniteSet(Carried(config, k, g))
          /\ Carried(config, k, g) \subseteq 1..Len(config.plan[k])
          /\ Cardinality(Carried(config, k, g)) \in Nat
          /\ \A i \in 1..Len(config.plan[k]) :
                PostedBefore(config.plan[k], i, g) =
                    Cardinality({j \in Carried(config, k, g) : j < i})
      BY <1>6, CarriedFacts, Zenon
    <2> QED BY <1>1, <2>1, Zenon DEF Plan
  <1>8. ASSUME NEW i \in S
        PROVE  m[PostedBefore(Plan[k], i, g) + 1] = Piece(config, Plan[k][i], s, k)
    <2>1. i \in 1..Len(Plan[k]) /\ S \subseteq Int
      BY <1>2, <1>7
    <2>2. PICK n : n = Cardinality({j \in S : j < i}) + 1
      OBVIOUS
    <2>3. n \in 1..Cardinality(S) /\ InOrder(S)[n] = i
      BY <1>7, <2>1, <2>2, InOrderFinds
    <2>4. n = PostedBefore(Plan[k], i, g) + 1
      BY <1>7, <2>1, <2>2
    <2>5. m[n] = Message(Plan[k][i], s, k)
      BY <1>5, <2>3
    <2>6. Travels(Plan[k][i])
      BY <1>1, Zenon DEF Carried, Plan
    <2>7. IsEntry(config, Plan[k][i])
      BY <1>6, <2>1, ConfigFacts DEF Plan
    <2>8. ~Refuses(Plan[k][i])
      BY <1>2, <2>1, <2>6 DEF HasRefused
    <2> QED BY <2>4, <2>5, <2>6, <2>7, <2>8, MessageIsPiece
  <1>9. Len(m) = Cardinality(S)
    <2>1. PICK N, T : N = Cardinality(S) /\ T = {Message(Plan[k][InOrder(S)[n]], s, k) : n \in 1..N}
      OBVIOUS
    <2>2. m \in [1..N -> T] /\ N \in Nat
      BY <1>5, <1>7, <2>1
    <2> QED BY <2>1, <2>2, SequenceFrom
  <1>10. IsSeq(m)
    BY <1>4, SendingFacts
  <1> QED BY <1>1, <1>4, <1>8, <1>9, <1>10, Zenon DEF Pieces, Plan

\* Sending the tensors of a dictionary keeps the invariant, up to one that is refused.
LEMMA SendTensorsKeeps ==
    ASSUME IInv, NEW s \in Sender, SendTensors(s)
    PROVE  IInv'
  <1>1. PICK k, c : k = sent[s] /\ c = config
    OBVIOUS
  <1>2. /\ k \in Nat /\ c \in Configs /\ Len(c.plan) \in Nat /\ Program(c, k, "tensors")
        /\ s \in Rank
    BY <1>1, SenderFacts DEF SendTensors, Plan
  <1>3. k \in 1..Len(c.plan) /\ k \notin c.bare
    BY <1>2 DEF Program
  <1>4. HasRefused(c.plan[k]) <=> Rejects(c, k)
    BY <1>1, <1>3, WhatRejects
  <1>5. PICK m : m = Sending(k, s)
    OBVIOUS
  <1>6. Put(s, m)
    BY <1>1, <1>5, Zenon DEF SendTensors, Sending
  <1>7. /\ UNCHANGED <<config, posted, open, rpc, gathers, received>>
        /\ spc[s] = "tensors" /\ sent' = sent
        /\ spc' = [spc EXCEPT ![s] = IF Rejects(c, k) THEN "raised" ELSE "idle"]
    BY <1>1, <1>4 DEF SendTensors, Plan
  <1>8. PICK p : p = IF Rejects(c, k) THEN "raised" ELSE "idle"
    OBVIOUS
  <1>9. Moves(s, k, p)
    BY <1>1, <1>7, <1>8, SenderMoves
  <1>10. Program(c, k, p)
    BY <1>2, <1>8, ProgramSteps
  <1>11. ASSUME NEW q, Stream(c, s, k, "tensors", q)
         PROVE  Stream(c, s, k, p, [g \in Group |-> q[g] \o m[g]])
    <2>1. CASE Rejects(c, k)
      <3>1. \A g \in Group : IsSeq(m[g])
        BY <1>1, <1>2, <1>3, <1>5, SendingFacts DEF Plan
      <3> QED BY <1>2, <1>3, <1>8, <1>11, <2>1, <3>1, TensorsAreRefused
    <2>2. CASE ~Rejects(c, k)
      <3>1. \A g \in Group : Pieces(c, s, k, g, m[g])
        BY <1>1, <1>2, <1>3, <1>4, <1>5, <2>2, SendingPieces DEF Plan
      <3>2. k \in (1..Len(c.plan)) \ c.bare
        BY <1>3
      <3> QED BY <1>2, <1>8, <1>11, <2>2, <3>1, <3>2, TensorsAreSent
    <2> QED BY <2>1, <2>2
  <1>12. sent[s] <= k /\ p # "object"
    BY <1>1, <1>2, <1>8
  <1> QED BY <1>1, <1>2, <1>6, <1>7, <1>9, <1>10, <1>11, <1>12, SenderPuts

---------------------------------------------------------------------------
(* What a receiver finds in its channels.                                  *)

\* Of two places, one is not after the other.
LEMMA NotEarlier ==
    ASSUME NEW x \in Int \X Int, NEW y \in Int \X Int, NEW z \in Int \X Int,
           ~Earlier(y, z), Earlier(x, z)
    PROVE  Earlier(x, y)
  BY DEF Earlier

\* A receiver that has begun the dictionaries before k, none of which gloo refuses, may
\* wait for the message of place <<k, i>> of a sender that is in dictionary n.
Awaits(c, n, k, i) ==
    /\ k \in Nat \ {0} /\ i \in Int /\ k <= n + 1 /\ \A j \in 1..k - 1 : ~Rejects(c, j)
    /\ i <= 0 \/ ~Rejects(c, k)

\* A receiver that has begun the dictionaries before k, none of which gloo refuses, and
\* to which the message of place <<k, i>> has come: its sender is behind that place.
LEMMA HasBeenSent ==
    ASSUME NEW c \in Configs, NEW s, NEW n, NEW p, Program(c, n, p),
           NEW q, Stream(c, s, n, p, q), NEW g \in Group,
           NEW k, NEW i, Awaits(c, n, k, i), Before(Messages(c, g), <<k, i>>) < Len(q[g])
    PROVE  Earlier(<<k, i>>, Limit(n, p))
  <1>1. /\ k \in Nat \ {0} /\ i \in Int /\ k <= n + 1 /\ \A j \in 1..k - 1 : ~Rejects(c, j)
        /\ i <= 0 \/ ~Rejects(c, k)
    BY DEF Awaits
  <1>2. n \in Nat
    BY ConfigFacts DEF Program
  <1>3. CASE p = "raised"
    <2>1. n >= 1 /\ Rejects(c, n)
      BY <1>3 DEF Program
    <2>2. k <= n
      <3>1. k = n + 1 => n \in 1..k - 1
        BY <1>2, <2>1
      <3> QED BY <1>1, <1>2, <2>1, <3>1
    <2>3. k = n => i < 1
      BY <1>1, <2>1
    <2> QED BY <1>1, <1>2, <1>3, <2>2, <2>3 DEF Limit, Earlier
  <1>4. CASE p # "raised"
    <2>1. Len(q[g]) = Before(Messages(c, g), Limit(n, p))
      BY <1>4 DEF Stream
    <2>2. PICK y, z : y = <<k, i>> /\ z = Limit(n, p)
      OBVIOUS
    <2>3. y \in Int \X Int /\ z \in Int \X Int
      BY <1>1, <1>2, <2>2 DEF Limit
    <2>4. SUFFICES ASSUME ~Earlier(y, z)
                   PROVE  FALSE
      BY <2>2
    <2>5. IsPlaces(Messages(c, g))
      BY MessageFacts
    <2>6. \A x \in Messages(c, g) : Earlier(x, z) => Earlier(x, y)
      BY <2>3, <2>4, <2>5, NotEarlier DEF IsPlaces
    <2>7. Before(Messages(c, g), z) <= Before(Messages(c, g), y)
      BY <2>5, <2>6, BeforeGrows
    <2>8. Before(Messages(c, g), z) \in Nat /\ Before(Messages(c, g), y) \in Nat
      BY <2>5, BeforeType
    <2> QED BY <2>1, <2>2, <2>7, <2>8
  <1> QED BY <1>3, <1>4

\* The message of a place that the sender is behind.
LEMMA WhatHasCome ==
    ASSUME NEW c, NEW s, NEW n, NEW p, NEW q, Stream(c, s, n, p, q), NEW g \in Group,
           NEW y \in Messages(c, g), Earlier(y, Limit(n, p)), NEW b, b = Before(Messages(c, g), y)
    PROVE  q[g][b + 1] = Content(c, s, y) /\ b < Len(q[g])
  BY DEF Stream, Holds

---------------------------------------------------------------------------
(* A receiver's steps: posting receives.                                   *)

\* Where a receiver is that has begun m dictionaries.
LEMMA FollowsFacts ==
    ASSUME NEW c \in Configs, NEW n, NEW p, Program(c, n, p), NEW q, NEW m, Follows(c, n, p, q, m)
    PROVE  /\ m \in Nat /\ n \in Nat /\ n <= Len(c.plan) /\ m + 1 \in Nat \ {0} /\ m + 1 <= n + 1
           /\ \A k \in 1..(m + 1) - 1 : ~Rejects(c, k)
  <1>1. n \in 0..Len(c.plan) /\ m \in 0..n /\ \A k \in 1..m : ~Rejects(c, k)
    BY DEF Program, Follows
  <1>2. Len(c.plan) \in Nat
    BY ConfigFacts
  <1>3. m \in Nat /\ n \in Nat /\ n <= Len(c.plan) /\ (m + 1) - 1 = m /\ m <= n
    BY <1>1, <1>2
  <1> QED BY <1>1, <1>3

\* The next place is that of the size, or, if it is broadcast, of the metadata.
LEMMA BeforeMetadata ==
    ASSUME NEW c \in Configs, NEW g, NEW k \in 1..Len(c.plan), k \notin c.bare,
           NEW y, NEW z, y = <<k, -1>>, z = <<k, 0>>
    PROVE  Before(Messages(c, g), z) =
                Before(Messages(c, g), y) + IF c.op = "p2p" /\ g = "cpu" THEN 1 ELSE 0
  <1>1. k \in Int /\ DOMAIN c.plan[k] = 1..Len(c.plan[k])
    BY ConfigFacts
  <1>2. IsPlaces(Messages(c, g)) /\ Before(Messages(c, g), y) \in Nat
    BY MessageFacts, BeforeType
  <1>3. \A x \in Messages(c, g) :
            x = <<x[1], x[2]>> /\ x[1] \in Int /\ x[2] \in Int /\ x[2] \in Slots(c, g, x[1])
    BY PlaceFacts
  <1>4. CASE c.op = "p2p" /\ g = "cpu"
    <2>1. y \in Messages(c, g)
      <3>1. -1 \in Slots(c, g, k)
        BY <1>4 DEF Slots
      <3> QED BY <3>1, MessageFacts
    <2>2. \A x \in Messages(c, g) : Earlier(x, z) <=> (Earlier(x, y) \/ x = y)
      BY <1>1, <1>3 DEF Earlier
    <2>3. Before(Messages(c, g), z) = Before(Messages(c, g), y) + 1
      BY <1>2, <2>1, <2>2, BeforeNext
    <2> QED BY <1>4, <2>3
  <1>5. CASE ~(c.op = "p2p" /\ g = "cpu")
    <2>1. ASSUME NEW x \in Messages(c, g), x[1] = k PROVE x[2] # -1
      <3>1. x[2] \in Slots(c, g, k)
        BY <1>3, <2>1
      <3>2. Slots(c, g, k) \subseteq {0} \cup DOMAIN c.plan[k]
        BY <1>5 DEF Slots
      <3> QED BY <1>1, <3>1, <3>2
    <2>2. \A x \in Messages(c, g) : Earlier(x, y) <=> Earlier(x, z)
      BY <1>1, <1>3, <2>1 DEF Earlier
    <2>3. Before(Messages(c, g), z) = Before(Messages(c, g), y)
      BY <2>2, BeforeSame
    <2> QED BY <1>2, <1>5, <2>3
  <1> QED BY <1>4, <1>5

\* Behind it are the tensors.
LEMMA BeforeTensors ==
    ASSUME NEW c \in Configs, NEW g, NEW k \in 1..Len(c.plan), k \notin c.bare,
           NEW y, NEW z, y = <<k, 0>>, z = <<k, 1>>
    PROVE  Before(Messages(c, g), z) =
                Before(Messages(c, g), y) + IF g = MetadataGroupOf(c) THEN 1 ELSE 0
  <1>1. k \in Int /\ DOMAIN c.plan[k] = 1..Len(c.plan[k])
    BY ConfigFacts
  <1>2. IsPlaces(Messages(c, g)) /\ Before(Messages(c, g), y) \in Nat
    BY MessageFacts, BeforeType
  <1>3. \A x \in Messages(c, g) :
            x = <<x[1], x[2]>> /\ x[1] \in Int /\ x[2] \in Int /\ x[2] \in Slots(c, g, x[1])
    BY PlaceFacts
  <1>4. CASE g = MetadataGroupOf(c)
    <2>1. y \in Messages(c, g)
      <3>1. 0 \in Slots(c, g, k)
        BY <1>4 DEF Slots
      <3> QED BY <3>1, MessageFacts
    <2>2. \A x \in Messages(c, g) : Earlier(x, z) <=> (Earlier(x, y) \/ x = y)
      BY <1>1, <1>3 DEF Earlier
    <2>3. Before(Messages(c, g), z) = Before(Messages(c, g), y) + 1
      BY <1>2, <2>1, <2>2, BeforeNext
    <2> QED BY <1>4, <2>3
  <1>5. CASE g # MetadataGroupOf(c)
    <2>1. ASSUME NEW x \in Messages(c, g), x[1] = k PROVE x[2] # 0
      <3>1. x[2] \in Slots(c, g, k)
        BY <1>3, <2>1
      <3>2. Slots(c, g, k) \subseteq {-1} \cup DOMAIN c.plan[k]
        BY <1>5 DEF Slots
      <3> QED BY <1>1, <3>1, <3>2
    <2>2. \A x \in Messages(c, g) : Earlier(x, y) <=> Earlier(x, z)
      BY <1>1, <1>3, <2>1 DEF Earlier
    <2>3. Before(Messages(c, g), z) = Before(Messages(c, g), y)
      BY <2>2, BeforeSame
    <2> QED BY <1>2, <1>5, <2>3
  <1> QED BY <1>4, <1>5

\* One component of a function is set, or none.
Sets(f, g, r, v) == DOMAIN g = Rank /\ g[r] = v /\ \A t \in Rank \ {r} : g[t] = f[t]

\* An EXCEPT sets one component.
LEMMA SetFacts ==
    ASSUME NEW f, DOMAIN f = Rank, NEW r \in Rank, NEW v
    PROVE  Sets(f, [f EXCEPT ![r] = v], r, v) /\ Sets(f, f, r, f[r])
  BY DEF Sets

\* Where a receiver is, and its sender.
LEMMA ReceiverFacts ==
    ASSUME IInv, NEW r \in Receiver
    PROVE  /\ config \in Configs /\ r \in Rank /\ From(r) \in Rank
           /\ Program(config, sent[From(r)], spc[From(r)])
           /\ Stream(config, From(r), sent[From(r)], spc[From(r)], chan[r])
           /\ Receiving(config, From(r), sent[From(r)], spc[From(r)],
                        rpc[r], received[r], open[r], posted[r], gathers[r])
           /\ DOMAIN rpc = Rank /\ DOMAIN received = Rank /\ DOMAIN open = Rank
           /\ DOMAIN posted = Rank /\ DOMAIN gathers = Rank /\ DOMAIN posted[r] = Group
  <1>1. config \in Configs
    BY DEF IInv
  <1>2. r \in Rank /\ From(r) \in Rank
    BY <1>1, ConfigFacts DEF Receiver, Rank, From
  <1>3. ReceiverInv(r) /\ SenderInv(From(r)) /\ Domains
    BY <1>2 DEF IInv
  <1> QED BY <1>1, <1>2, <1>3 DEF ReceiverInv, SenderInv, Domains

\* What is to be shown of a step of a receiver.
LEMMA ReceiverStep ==
    ASSUME IInv, NEW r \in Receiver, UNCHANGED <<config, sent, spc, chan>>,
           NEW q, NEW d, NEW o, NEW count, NEW a,
           Sets(rpc, rpc', r, q), Sets(received, received', r, d), Sets(open, open', r, o),
           Sets(posted, posted', r, count), Sets(gathers, gathers', r, a),
           DOMAIN count = Group,
           Receiving(config, From(r), sent[From(r)], spc[From(r)], q, d, o, count, a)
    PROVE  IInv'
  <1>1. /\ Rank' = Rank /\ Receiver' = Receiver /\ Sender' = Sender
        /\ \A t : From(t)' = From(t)
    BY DEF Rank, Receiver, Sender, From
  <1>2. r \in Rank /\ Receiver \subseteq Rank
    BY ReceiverFacts DEF Receiver
  <1>3. \A t \in Rank : DOMAIN chan'[t] = Group /\ DOMAIN posted'[t] = Group
    BY DEF IInv, Domains, Sets
  <1>4. config' \in Configs /\ Domains'
    BY <1>1, <1>3 DEF IInv, Domains, Sets
  <1>5. ASSUME NEW t \in Rank PROVE SenderInv(t)'
    <2>1. SenderInv(t)
      BY DEF IInv
    <2> QED BY <2>1 DEF SenderInv
  <1>6. ASSUME NEW t \in Receiver PROVE ReceiverInv(t)'
    <2>1. ReceiverInv(t)
      BY DEF IInv
    <2>2. CASE t = r
      <3>1. /\ rpc'[r] = q /\ received'[r] = d /\ open'[r] = o /\ posted'[r] = count
            /\ gathers'[r] = a
        BY DEF Sets
      <3> QED BY <1>1, <2>1, <2>2, <3>1 DEF ReceiverInv
    <2>3. CASE t # r
      <3>1. t \in Rank \ {r}
        BY <1>2, <2>3
      <3>2. /\ rpc'[t] = rpc[t] /\ received'[t] = received[t] /\ open'[t] = open[t]
            /\ posted'[t] = posted[t] /\ gathers'[t] = gathers[t]
        BY <3>1 DEF Sets
      <3> QED BY <1>1, <2>1, <3>2 DEF ReceiverInv
    <2> QED BY <2>2, <2>3
  <1>7. ASSUME NEW t \in Rank \ Sender PROVE IdleSender(t)'
    <2>1. IdleSender(t)
      BY DEF IInv
    <2> QED BY <2>1 DEF IdleSender
  <1>8. ASSUME NEW t \in Rank \ Receiver PROVE IdleReceiver(t)'
    <2>1. IdleReceiver(t) /\ t \in Rank \ {r}
      BY DEF IInv
    <2>2. rpc'[t] = rpc[t] /\ received'[t] = received[t] /\ open'[t] = open[t]
      BY <2>1 DEF Sets
    <2> QED BY <2>1, <2>2 DEF IdleReceiver
  <1> QED BY <1>1, <1>4, <1>5, <1>6, <1>7, <1>8 DEF IInv

\* The size of the metadata is received.
LEMMA SizeIsReceived ==
    ASSUME NEW c \in Configs, NEW s, NEW n, NEW p, Program(c, n, p),
           NEW ch, Stream(c, s, n, p, ch), NEW d, NEW o, NEW count, NEW a,
           Receiving(c, s, n, p, "idle", d, o, count, a), c.op = "p2p", Len(o) < c.window,
           Len(d) + Len(o) + 1 \notin c.bare, count["cpu"] + 1 <= Len(ch["cpu"]),
           DOMAIN count = Group
    PROVE  Receiving(c, s, n, p, "object", d, o,
                     [count EXCEPT !["cpu"] = count["cpu"] + 1], a)
  <1>1. PICK m, k, y, z : m = Len(d) + Len(o) /\ k = m + 1 /\ y = <<k, -1>> /\ z = <<k, 0>>
    OBVIOUS
  <1>2. /\ Follows(c, n, p, "idle", m)
        /\ \A g \in Group : count[g] = Before(Messages(c, g), y)
    BY <1>1 DEF Receiving, Posted
  <1>3. /\ m \in Nat /\ n \in Nat /\ n <= Len(c.plan) /\ k \in Nat \ {0} /\ k <= n + 1
        /\ \A j \in 1..k - 1 : ~Rejects(c, j)
    BY <1>1, <1>2, FollowsFacts
  <1>4. "cpu" \in Group
    BY DEF Group
  <1>5. k <= n
    <2>1. count["cpu"] \in Nat /\ Len(ch["cpu"]) \in Nat
      <3>1. count["cpu"] = Before(Messages(c, "cpu"), y) /\ IsSeq(ch["cpu"])
        BY <1>2, <1>4 DEF Stream
      <3>2. IsPlaces(Messages(c, "cpu"))
        BY MessageFacts, Zenon
      <3>3. Before(Messages(c, "cpu"), y) \in Nat
        BY <3>2, BeforeType
      <3>4. Len(ch["cpu"]) \in Nat
        BY <3>1, SequenceFacts
      <3> QED BY <3>1, <3>3, <3>4
    <2>2. Before(Messages(c, "cpu"), y) < Len(ch["cpu"])
      BY <1>2, <1>4, <2>1
    <2>3. Earlier(y, Limit(n, p))
      <3>1. PICK i : i = -1 /\ i \in Int /\ i <= 0
        OBVIOUS
      <3>2. y = <<k, i>> /\ Before(Messages(c, "cpu"), <<k, i>>) < Len(ch["cpu"])
        BY <1>1, <2>2, <3>1
      <3>3. Awaits(c, n, k, i)
        BY <1>3, <3>1 DEF Awaits
      <3>4. Earlier(<<k, i>>, Limit(n, p))
        BY <1>4, <3>2, <3>3, HasBeenSent
      <3> QED BY <3>2, <3>4
    <2> QED BY <1>1, <1>3, <2>3 DEF Earlier, Limit
  <1>6. Follows(c, n, p, "object", m)
    BY <1>1, <1>2, <1>3, <1>5 DEF Follows
  <1>7. k \in 1..Len(c.plan) /\ k \notin c.bare
    BY <1>1, <1>3, <1>5
  <1>8. ASSUME NEW g \in Group
        PROVE  [count EXCEPT !["cpu"] = count["cpu"] + 1][g] = Before(Messages(c, g), z)
    <2>1. Before(Messages(c, g), z) = Before(Messages(c, g), y) + IF g = "cpu" THEN 1 ELSE 0
      BY <1>1, <1>7, BeforeMetadata
    <2>2. Before(Messages(c, g), y) \in Nat
      BY MessageFacts, BeforeType
    <2> QED BY <1>2, <1>4, <2>1, <2>2
  <1>9. Posted(c, "object", m, [count EXCEPT !["cpu"] = count["cpu"] + 1])
    BY <1>1, <1>8 DEF Posted
  <1> QED BY <1>1, <1>6, <1>9 DEF Receiving, Gathered

\* Receiving the size of the metadata keeps the invariant.
LEMMA ReceiveSizeKeeps ==
    ASSUME IInv, NEW r \in Receiver, ReceiveSize(r)
    PROVE  IInv'
  <1>1. PICK count : count = [posted[r] EXCEPT !["cpu"] = posted[r]["cpu"] + 1]
    OBVIOUS
  <1>2. /\ rpc' = [rpc EXCEPT ![r] = "object"] /\ posted' = [posted EXCEPT ![r] = count]
        /\ rpc[r] = "idle"
        /\ UNCHANGED <<config, sent, spc, chan>> /\ UNCHANGED <<open, gathers, received>>
    BY <1>1 DEF ReceiveSize
  <1>3. /\ Sets(rpc, rpc', r, "object") /\ Sets(received, received', r, received[r])
        /\ Sets(open, open', r, open[r]) /\ Sets(posted, posted', r, count)
        /\ Sets(gathers, gathers', r, gathers[r])
    BY <1>2, ReceiverFacts, SetFacts
  <1>4. /\ config.op = "p2p" /\ Len(open[r]) < config.window
        /\ Len(received[r]) + Len(open[r]) + 1 \notin config.bare
        /\ posted[r]["cpu"] + 1 <= Len(chan[r]["cpu"])
    BY DEF ReceiveSize, MayOpen, Expected, HasCome, Posts
  <1>5. Receiving(config, From(r), sent[From(r)], spc[From(r)], "object", received[r], open[r],
                  count, gathers[r])
    BY <1>1, <1>2, <1>4, ReceiverFacts, SizeIsReceived
  <1>6. DOMAIN count = Group
    BY <1>1, ReceiverFacts
  <1> QED BY <1>2, <1>3, <1>5, <1>6, ReceiverStep

\* A bare tensor is not gathered.
LEMMA BareIsNotCut ==
    ASSUME NEW c \in Configs, NEW x \in Cuts(c)
    PROVE  x[1] \notin c.bare
  <1>1. SUFFICES ASSUME x[1] \in c.bare
                 PROVE  FALSE
    OBVIOUS
  <1>2. x[2] \in 1..Len(c.plan[x[1]]) /\ Cut(c, c.plan[x[1]][x[2]])
    BY CutFacts
  <1>3. IsBare(c, c.plan[x[1]])
    BY <1>1, ConfigFacts
  <1>4. Len(c.plan[x[1]]) = 1 /\ c.plan[x[1]][1].key \in c.whole
    BY <1>3 DEF IsBare
  <1>5. x[2] = 1
    BY <1>2, <1>4
  <1> QED BY <1>2, <1>4, <1>5 DEF Cut

\* Where tensors that are gathered are.
LEMMA CutPlaces ==
    ASSUME NEW c \in Configs, NEW x \in Cuts(c)
    PROVE  x = <<x[1], x[2]>> /\ x[1] \in Int /\ x[2] \in Int /\ x[2] >= 1
  <1>1. x = <<x[1], x[2]>> /\ x[1] \in 1..Len(c.plan) /\ x[2] \in 1..Len(c.plan[x[1]])
    BY CutFacts
  <1>2. x \in Int \X Int
    BY CutFacts DEF IsPlaces
  <1>3. x[1] \in Int /\ x[2] \in Int
    BY <1>2
  <1>4. Len(c.plan[x[1]]) \in Nat
    BY <1>1, ConfigFacts
  <1> QED BY <1>1, <1>3, <1>4

\* A receiver that raises.
LEMMA ReceiverRaises ==
    ASSUME NEW c, NEW s, NEW n, NEW p, NEW q \in {"idle", "object"}, NEW d, NEW o, NEW count,
           NEW a, Receiving(c, s, n, p, q, d, o, count, a)
    PROVE  Receiving(c, s, n, p, "raised", d, o, count, a)
  <1>1. Follows(c, n, p, "raised", Len(d) + Len(o))
    BY DEF Receiving, Follows
  <1>2. Posted(c, "raised", Len(d) + Len(o), count)
    BY DEF Posted
  <1>3. Gathered(c, s, "raised", Len(d), o, a)
    BY DEF Receiving, Gathered
  <1> QED BY <1>1, <1>2, <1>3 DEF Receiving

\* So many receives have been posted as there are messages before the place y.
Counts(c, count, y) ==
    \A g \in Group : count[g] \in Nat /\ count[g] = Before(Messages(c, g), y)

\* The k-th dictionary can be begun, as d.
CanBegin(c, s, n, p, k, d) ==
    /\ k <= n /\ ~Rejects(c, k) /\ (k = n => p # "object")
    /\ Begun(c, s, k, d) /\ (k \notin c.bare => d.todo = 0)

\* A dictionary, the k-th, or a bare tensor, has been begun.
LEMMA DictionaryIsOpened ==
    ASSUME NEW c \in Configs, NEW s, NEW n, NEW p, Program(c, n, p),
           NEW q \in {"idle", "object"}, NEW d, NEW o, NEW count, NEW a,
           Receiving(c, s, n, p, q, d, o, count, a), Len(o) < c.window,
           NEW k, k = Len(d) + Len(o) + 1, NEW new, CanBegin(c, s, n, p, k, new),
           NEW y, y = <<k + 1, -1>>, NEW posts, Counts(c, posts, y)
    PROVE  Receiving(c, s, n, p, "idle", d, Append(o, new), posts, a)
  <1>1. /\ k <= n /\ ~Rejects(c, k) /\ (k = n => p # "object")
        /\ Begun(c, s, k, new) /\ (k \notin c.bare => new.todo = 0)
    BY DEF CanBegin
  <1>2. /\ IsSeq(d) /\ Follows(c, n, p, q, Len(d) + Len(o)) /\ Opened(c, s, Len(d), o)
        /\ Gathered(c, s, q, Len(d), o, a)
    BY DEF Receiving
  <1>3. IsSeq(o) /\ Len(o) \in Nat /\ Len(d) \in Nat /\ c.window \in Nat /\ (o = <<>> <=> Len(o) = 0)
    BY <1>2, SequenceFacts, ConfigFacts DEF Opened
  <1>4. PICK e : e = Append(o, new)
    OBVIOUS
  <1>5. /\ IsSeq(e) /\ Len(e) = Len(o) + 1 /\ e[Len(o) + 1] = new
        /\ \A j \in 1..Len(o) : e[j] = o[j]
    BY <1>3, <1>4, Appending
  <1>6. Len(d) + Len(e) = k /\ k \in Nat /\ e # <<>>
    <2>1. Len(e) # 0
      BY <1>3, <1>5
    <2> QED BY <1>3, <1>5, <2>1, SequenceFacts
  <1>7. Follows(c, n, p, "idle", k)
    <2>1. n \in Nat /\ \A j \in 1..k - 1 : ~Rejects(c, j)
      <3>1. (Len(d) + Len(o) + 1) - 1 = k - 1
        BY <1>3
      <3> QED BY <1>2, <3>1, FollowsFacts
    <2>2. \A j \in 1..k : j \in 1..k - 1 \/ j = k
      BY <1>6
    <2> QED BY <1>1, <1>6, <2>1, <2>2 DEF Follows
  <1>8. Posted(c, "idle", k, posts)
    BY DEF Posted, Counts
  <1>9. Opened(c, s, Len(d), e)
    <2>1. Len(e) <= c.window
      BY <1>3, <1>5
    <2>2. ASSUME NEW j \in 1..Len(e)
          PROVE  Begun(c, s, Len(d) + j, e[j])
      <3>1. CASE j \in 1..Len(o)
        BY <1>2, <1>5, <3>1 DEF Opened
      <3>2. CASE j = Len(o) + 1
        <4>1. e[j] = new /\ Len(d) + j = k
          BY <1>3, <1>5, <3>2
        <4> QED BY <1>1, <4>1
      <3>3. j \in 1..Len(o) \/ j = Len(o) + 1
        BY <1>3, <1>5
      <3> QED BY <3>1, <3>2, <3>3
    <2>3. ASSUME NEW j \in 2..Len(e), Len(d) + j \notin c.bare
          PROVE  e[j].todo = 0
      <3>1. CASE j \in 2..Len(o)
        <4>1. j \in 1..Len(o)
          BY <3>1
        <4>2. o[j].todo = 0
          BY <1>2, <2>3, <3>1 DEF Opened
        <4> QED BY <1>5, <4>1, <4>2
      <3>2. CASE j = Len(o) + 1
        <4>1. e[j] = new /\ Len(d) + j = k
          BY <1>3, <1>5, <3>2
        <4> QED BY <1>1, <2>3, <4>1
      <3>3. j \in 2..Len(o) \/ j = Len(o) + 1
        BY <1>3, <1>5
      <3> QED BY <3>1, <3>2, <3>3
    <2> QED BY <1>5, <2>1, <2>2, <2>3 DEF Opened
  <1>10. Before(Cuts(c), Reached(Len(d), e)) = Before(Cuts(c), Reached(Len(d), o))
    <2>1. CASE o = <<>>
      <3>1. e[1] = new /\ Len(d) + 1 = k
        BY <1>3, <1>5, <2>1
      <3>2. Reached(Len(d), e) = <<k, new.todo>> /\ Reached(Len(d), o) = <<k, 0>>
        BY <1>6, <2>1, <3>1 DEF Reached
      <3>3. PICK u, z : u = <<k, new.todo>> /\ z = <<k, 0>>
        OBVIOUS
      <3>4. ASSUME NEW x \in Cuts(c)
            PROVE  Earlier(x, u) <=> Earlier(x, z)
        <4>1. x = <<x[1], x[2]>> /\ x[1] \in Int /\ x[2] \in Int /\ x[2] >= 1 /\ x[1] \notin c.bare
          BY CutPlaces, BareIsNotCut
        <4>2. x[1] = k => new.todo = 0
          BY <1>1, <4>1
        <4> QED BY <3>3, <4>1, <4>2 DEF Earlier
      <3> QED BY <3>2, <3>3, <3>4, BeforeSame
    <2>2. CASE o # <<>>
      <3>1. e[1] = o[1]
        BY <1>3, <1>5, <2>2
      <3> QED BY <1>6, <2>2, <3>1 DEF Reached
    <2> QED BY <2>1, <2>2
  <1>11. Gathered(c, s, "idle", Len(d), e, a)
    BY <1>2, <1>10 DEF Gathered
  <1> QED BY <1>2, <1>4, <1>6, <1>7, <1>8, <1>9, <1>11 DEF Receiving

\* A receiver waits for metadata, and a message has come on its group.
WaitsForMetadata(c, q, count, ch, g) ==
    /\ g = MetadataGroupOf(c) /\ count[g] + 1 <= Len(ch[g])
    /\ q = (IF c.op = "p2p" THEN "object" ELSE "idle")

\* It is the metadata of dictionary k.
IsMetadata(c, n, p, k, m) ==
    k \in (1..Len(c.plan)) \ c.bare /\ k <= n /\ (k = n => p # "object") /\ m = c.plan[k]

\* The metadata of dictionary k has come to a receiver, and its size before it.
LEMMA MetadataHasArrived ==
    ASSUME NEW c \in Configs, NEW s, NEW n, NEW p, Program(c, n, p),
           NEW ch, Stream(c, s, n, p, ch), NEW q, NEW d, NEW o, NEW count, NEW a,
           Receiving(c, s, n, p, q, d, o, count, a),
           NEW g \in Group, WaitsForMetadata(c, q, count, ch, g),
           NEW k, k = Len(d) + Len(o) + 1, NEW z, z = <<k, 0>>
    PROVE  IsMetadata(c, n, p, k, ch[g][count[g] + 1]) /\ Counts(c, count, z)
  <1>1. /\ g = MetadataGroupOf(c) /\ count[g] + 1 <= Len(ch[g])
        /\ q = (IF c.op = "p2p" THEN "object" ELSE "idle")
    BY DEF WaitsForMetadata
  <1>2. PICK m, y : m = Len(d) + Len(o) /\ k = m + 1 /\ y = <<k, -1>>
    OBVIOUS
  <1>3. /\ Follows(c, n, p, q, m)
        /\ \A h \in Group : count[h] = Before(Messages(c, h), IF q = "object" THEN z ELSE y)
    <2>1. Follows(c, n, p, q, m) /\ Posted(c, q, m, count) /\ q # "raised"
      BY <1>1, <1>2 DEF Receiving
    <2> QED BY <1>2, <2>1 DEF Posted
  <1>4. /\ m \in Nat /\ n \in Nat /\ n <= Len(c.plan) /\ k \in Nat \ {0} /\ k <= n + 1
        /\ \A j \in 1..k - 1 : ~Rejects(c, j)
    BY <1>2, <1>3, FollowsFacts
  <1>5. Len(c.plan) \in Nat /\ c.op \in Ops /\ \A j \in c.bare : c.op = "p2p"
    BY ConfigFacts DEF IsBare
  <1>6. /\ IsPlaces(Messages(c, g)) /\ Before(Messages(c, g), y) \in Nat
        /\ Before(Messages(c, g), z) \in Nat /\ Len(ch[g]) \in Nat
    BY MessageFacts, BeforeType, SequenceFacts DEF Stream
  <1>7. PICK i : i \in Int /\ i = (IF q = "object" THEN 0 ELSE -1) /\ i <= 0
    OBVIOUS
  <1>8. Before(Messages(c, g), <<k, i>>) = count[g]
    BY <1>1, <1>2, <1>3, <1>7
  <1>9. Earlier(<<k, i>>, Limit(n, p))
    <2>1. Before(Messages(c, g), <<k, i>>) < Len(ch[g])
      BY <1>1, <1>2, <1>3, <1>6, <1>8
    <2>2. Awaits(c, n, k, i)
      BY <1>4, <1>7 DEF Awaits
    <2> QED BY <2>1, <2>2, HasBeenSent
  <1>10. k <= n
    BY <1>4, <1>7, <1>9 DEF Earlier, Limit
  <1>11. k \in (1..Len(c.plan)) \ c.bare
    <2>1. CASE c.op = "p2p"
      BY <1>1, <1>2, <1>3, <1>4, <1>5, <1>10, <2>1 DEF Follows
    <2>2. CASE c.op # "p2p"
      BY <1>4, <1>5, <1>10, <2>2
    <2> QED BY <2>1, <2>2
  <1>12. k = n => p # "object"
    <2>1. SUFFICES ASSUME k = n, p = "object"
                   PROVE  FALSE
      OBVIOUS
    <2>2. c.op = "p2p"
      BY <2>1 DEF Program
    <2> QED BY <1>1, <1>4, <1>7, <1>9, <2>1, <2>2 DEF Earlier, Limit
  <1>13. ASSUME NEW h \in Group
         PROVE  count[h] \in Nat /\ count[h] = Before(Messages(c, h), z)
    <2>1. k \in 1..Len(c.plan) /\ k \notin c.bare
      BY <1>11
    <2>2. Before(Messages(c, h), z) =
                Before(Messages(c, h), y) + IF c.op = "p2p" /\ h = "cpu" THEN 1 ELSE 0
      BY <1>2, <2>1, BeforeMetadata
    <2>3. Before(Messages(c, h), y) \in Nat
      BY MessageFacts, BeforeType
    <2> QED BY <1>1, <1>3, <2>2, <2>3
  <1>14. ch[g][count[g] + 1] = c.plan[k]
    <2>1. z \in Messages(c, g)
      <3>1. 0 \in Slots(c, g, k)
        BY <1>1, <1>11 DEF Slots
      <3> QED BY <1>2, <1>11, <3>1, MessageFacts
    <2>2. PICK j : j = 0 /\ j \in Int /\ j <= 0
      OBVIOUS
    <2>3. z = <<k, j>>
      BY <1>2, <2>2
    <2>4. Awaits(c, n, k, j)
      BY <1>4, <2>2 DEF Awaits
    <2>5. PICK b \in Nat : b = count[g]
      BY <1>13
    <2>6. b = Before(Messages(c, g), z) /\ b + 1 <= Len(ch[g])
      BY <1>1, <1>13, <2>5
    <2>7. ch[g][b + 1] = Content(c, s, z)
      <3>1. Earlier(z, Limit(n, p))
        <4>1. Before(Messages(c, g), <<k, j>>) < Len(ch[g])
          BY <1>6, <2>3, <2>6
        <4>2. Earlier(<<k, j>>, Limit(n, p))
          BY <2>4, <4>1, HasBeenSent
        <4> QED BY <2>3, <4>2
      <3> QED BY <2>1, <2>6, <3>1 DEF Stream, Holds
    <2>8. Content(c, s, z) = c.plan[k]
      BY <1>2 DEF Content
    <2> QED BY <2>5, <2>7, <2>8
  <1> QED BY <1>10, <1>11, <1>12, <1>13, <1>14 DEF IsMetadata, Counts

\* Where the messages of the entries of a dictionary are, and, behind them, the next one.
LEMMA EntryPlace ==
    ASSUME NEW c \in Configs, NEW g, NEW k \in (1..Len(c.plan)) \ c.bare,
           NEW i \in 1..Len(c.plan[k]), NEW x, x = <<k, 1>>, NEW y, y = <<k, i>>
    PROVE  Before(Messages(c, g), y) = Before(Messages(c, g), x) + PostedBefore(c.plan[k], i, g)
  <1>1. i \in 1..Len(c.plan[k]) + 1
    BY ConfigFacts
  <1> QED BY <1>1, TensorPlace

\* The position of the next dictionary: after the tensors of this one.
LEMMA NextPosts ==
    ASSUME NEW c \in Configs, NEW g, NEW k \in (1..Len(c.plan)) \ c.bare, NEW l,
           l = Len(c.plan[k]) + 1, NEW x, x = <<k, 1>>, NEW y, y = <<k + 1, -1>>
    PROVE  /\ Before(Messages(c, g), y) \in Nat
           /\ Before(Messages(c, g), y) = Before(Messages(c, g), x) + PostedBefore(c.plan[k], l, g)
  <1>1. Len(c.plan[k]) \in Nat
    BY ConfigFacts
  <1>2. l \in Nat /\ l > Len(c.plan[k]) /\ l \in 1..Len(c.plan[k]) + 1
    BY <1>1
  <1>3. Before(Messages(c, g), <<k, l>>) = Before(Messages(c, g), <<k + 1, -1>>)
    BY <1>2, DictionaryEnds
  <1>4. Before(Messages(c, g), <<k, l>>) =
            Before(Messages(c, g), <<k, 1>>) + PostedBefore(c.plan[k], l, g)
    BY <1>2, TensorPlace
  <1>5. Before(Messages(c, g), y) \in Nat
    BY MessageFacts, BeforeType
  <1> QED BY <1>3, <1>4, <1>5

\* The buffers that ReceiveMetadata makes, when so many receives have been posted.
Prepared(entries, after) ==
    [i \in DOMAIN entries |->
        LET g == CommGroup(entries[i])
        IN  [entry |-> entries[i],
             group |-> g,
             place |-> after[g] + PostedBefore(entries, i, g) + 1,
             value |-> IF entries[i].tensor
                       THEN IF entries[i].numel = 0 THEN <<>> ELSE Garbage
                       ELSE entries[i].value]]

\* They are for the messages of their dictionary.
LEMMA PreparedIsBegun ==
    ASSUME NEW c \in Configs, NEW s, NEW k \in (1..Len(c.plan)) \ c.bare, NEW after,
           NEW x, x = <<k, 1>>, Counts(c, after, x)
    PROVE  Begun(c, s, k, [buffers |-> Prepared(c.plan[k], after), todo |-> 0])
  <1>1. PICK buffers, new : /\ buffers = Prepared(c.plan[k], after)
                            /\ new = [buffers |-> buffers, todo |-> 0]
    OBVIOUS
  <1>2. new.buffers = buffers /\ new.todo = 0 /\ DOMAIN buffers = DOMAIN c.plan[k]
    BY <1>1 DEF Prepared
  <1>3. ASSUME NEW i \in DOMAIN c.plan[k]
        PROVE  Entry(c, s, k, i, 0, buffers[i])
    <2>1. PICK e, g, b : e = c.plan[k][i] /\ g = CommGroup(e) /\ b = buffers[i]
      OBVIOUS
    <2>2. b = [entry |-> e, group |-> g, place |-> after[g] + PostedBefore(c.plan[k], i, g) + 1,
               value |-> IF e.tensor THEN IF e.numel = 0 THEN <<>> ELSE Garbage ELSE e.value]
      BY <1>1, <2>1 DEF Prepared
    <2>3. b.place = Before(Messages(c, g), <<k, i>>) + 1
      <3>1. g \in Group /\ i \in 1..Len(c.plan[k])
        BY <2>1, ConfigFacts DEF CommGroup, Group
      <3>2. PICK y : y = <<k, i>>
        OBVIOUS
      <3>3. Before(Messages(c, g), y) = Before(Messages(c, g), x) + PostedBefore(c.plan[k], i, g)
        BY <3>1, <3>2, EntryPlace
      <3>4. after[g] = Before(Messages(c, g), x)
        BY <3>1 DEF Counts
      <3> QED BY <2>2, <3>2, <3>3, <3>4
    <2>4. /\ b.entry = e /\ b.group = g /\ (~e.tensor => b.value = e.value)
          /\ (e.tensor /\ e.numel = 0 => b.value = <<>>)
      <3>1. b.value = IF e.tensor THEN IF e.numel = 0 THEN <<>> ELSE Garbage ELSE e.value
        BY <2>2
      <3>2. e.tensor \in BOOLEAN
        BY <2>1, ConfigFacts DEF IsEntry
      <3> QED BY <2>2, <3>1, <3>2
    <2>5. {"entry", "group", "place", "value"} \subseteq DOMAIN b
      BY <2>2
    <2> QED BY <2>1, <2>3, <2>4, <2>5 DEF Entry
  <1> QED BY <1>1, <1>2, <1>3 DEF Begun

\* A dictionary has been announced, and a receive is posted for each of its tensors.
LEMMA ReceiveMetadataKeeps ==
    ASSUME IInv, NEW r \in Receiver, ReceiveMetadata(r)
    PROVE  IInv'
  <1>1. PICK c, s, n, p, ch : /\ c = config /\ s = From(r) /\ n = sent[From(r)] /\ p = spc[From(r)]
                              /\ ch = chan[r]
    OBVIOUS
  <1>2. PICK q, d, o, count, a : /\ q = rpc[r] /\ d = received[r] /\ o = open[r]
                                 /\ count = posted[r] /\ a = gathers[r]
    OBVIOUS
  <1>3. /\ c \in Configs /\ Program(c, n, p) /\ Stream(c, s, n, p, ch)
        /\ Receiving(c, s, n, p, q, d, o, count, a) /\ DOMAIN count = Group
    BY <1>1, <1>2, ReceiverFacts
  <1>4. PICK k, g, x, y, z : /\ k = Len(d) + Len(o) + 1 /\ g = MetadataGroupOf(c)
                             /\ x = <<k, 0>> /\ y = <<k, 1>> /\ z = <<k + 1, -1>>
    OBVIOUS
  <1>5. g = MetadataGroup /\ g \in Group
    BY <1>1, <1>4 DEF MetadataGroup, MetadataGroupOf, Group
  <1>6. WaitsForMetadata(c, q, count, ch, g) /\ q \in {"idle", "object"} /\ Len(o) < c.window
    <2>1. MetadataHasCome(r)
      BY DEF ReceiveMetadata
    <2>2. q = "object" => Len(o) < c.window
      BY <1>3 DEF Receiving
    <2> QED BY <1>1, <1>2, <1>4, <1>5, <2>1, <2>2 DEF MetadataHasCome, HasCome, Posts, MayOpen,
                    WaitsForMetadata
  <1>7. IsMetadata(c, n, p, k, ch[g][count[g] + 1]) /\ Counts(c, count, x)
    BY <1>3, <1>4, <1>5, <1>6, MetadataHasArrived
  <1>8. /\ k \in (1..Len(c.plan)) \ c.bare /\ k <= n /\ (k = n => p # "object")
        /\ ch[g][count[g] + 1] = c.plan[k]
    BY <1>7 DEF IsMetadata
  <1>9. HasRefused(c.plan[k]) <=> Rejects(c, k)
    BY <1>1, <1>8, WhatRejects
  <1>10. PICK after : after = [count EXCEPT ![g] = count[g] + 1]
    OBVIOUS
  <1>11. UNCHANGED <<config, sent, spc, chan>> /\ UNCHANGED <<gathers, received>>
    BY DEF ReceiveMetadata
  <1>12. Sets(received, received', r, d) /\ Sets(gathers, gathers', r, a)
    BY <1>2, <1>11, ReceiverFacts, SetFacts
  <1>13. CASE Rejects(c, k)
    <2>1. rpc' = [rpc EXCEPT ![r] = "raised"] /\ open' = open /\ posted' = posted
      BY <1>1, <1>2, <1>5, <1>8, <1>9, <1>13 DEF ReceiveMetadata, Posts
    <2>2. Sets(rpc, rpc', r, "raised") /\ Sets(open, open', r, o) /\ Sets(posted, posted', r, count)
      BY <1>2, <2>1, ReceiverFacts, SetFacts
    <2>3. Receiving(c, s, n, p, "raised", d, o, count, a)
      BY <1>3, <1>6, ReceiverRaises
    <2> QED BY <1>1, <1>3, <1>11, <1>12, <2>2, <2>3, ReceiverStep
  <1>14. CASE ~Rejects(c, k)
    <2>1. PICK new : new = [buffers |-> Prepared(c.plan[k], after), todo |-> 0]
      OBVIOUS
    <2>2. PICK posts : posts = [h \in Group |->
                                    after[h] + PostedBefore(c.plan[k], Len(c.plan[k]) + 1, h)]
      OBVIOUS
    <2>3. /\ rpc' = [rpc EXCEPT ![r] = "idle"] /\ open' = [open EXCEPT ![r] = Append(o, new)]
          /\ posted' = [posted EXCEPT ![r] = posts]
      BY <1>1, <1>2, <1>5, <1>8, <1>9, <1>10, <1>14, <2>1, <2>2 DEF ReceiveMetadata, Posts, Prepared
    <2>4. /\ Sets(rpc, rpc', r, "idle") /\ Sets(open, open', r, Append(o, new))
          /\ Sets(posted, posted', r, posts)
      BY <2>3, ReceiverFacts, SetFacts
    <2>5. ASSUME NEW h \in Group
          PROVE  after[h] \in Nat /\ after[h] = Before(Messages(c, h), y)
      <3>1. Before(Messages(c, h), y) = Before(Messages(c, h), x) + IF h = g THEN 1 ELSE 0
        BY <1>3, <1>4, <1>8, BeforeTensors
      <3>2. count[h] \in Nat /\ count[h] = Before(Messages(c, h), x)
        BY <1>7 DEF Counts
      <3>3. after[h] = count[h] + IF h = g THEN 1 ELSE 0
        BY <1>3, <1>10, <3>2
      <3> QED BY <3>1, <3>2, <3>3
    <2>6. CanBegin(c, s, n, p, k, new)
      <3>1. Counts(c, after, y)
        BY <2>5 DEF Counts
      <3>2. Begun(c, s, k, new) /\ new.todo = 0
        BY <1>3, <1>4, <1>8, <2>1, <3>1, PreparedIsBegun
      <3> QED BY <1>8, <1>14, <3>2 DEF CanBegin
    <2>7. Counts(c, posts, z)
      <3>1. PICK l : l = Len(c.plan[k]) + 1
        OBVIOUS
      <3>2. ASSUME NEW h \in Group
            PROVE  posts[h] \in Nat /\ posts[h] = Before(Messages(c, h), z)
        <4>1. /\ Before(Messages(c, h), z) = Before(Messages(c, h), y) + PostedBefore(c.plan[k], l, h)
              /\ Before(Messages(c, h), z) \in Nat
          BY <1>3, <1>4, <1>8, <3>1, NextPosts
        <4> QED BY <2>2, <2>5, <3>1, <4>1
      <3> QED BY <3>2 DEF Counts
    <2>8. Receiving(c, s, n, p, "idle", d, Append(o, new), posts, a)
      BY <1>3, <1>4, <1>6, <2>6, <2>7, DictionaryIsOpened
    <2>9. DOMAIN posts = Group
      BY <2>2
    <2> QED BY <1>1, <1>11, <1>12, <2>4, <2>8, <2>9, ReceiverStep
  <1> QED BY <1>13, <1>14

\* The place of a bare tensor, the k-th element of the program.
BareCounts(c, g, k) ==
    LET y == <<k, -1>>  w == <<k, 1>>  z == <<k + 1, -1>>  M == Messages(c, g)
    IN  /\ Before(M, y) \in Nat
        /\ Before(M, z) = Before(M, y) + IF g = "device" THEN 1 ELSE 0
        /\ g = "device" => w \in M /\ Before(M, w) = Before(M, y)

\* It is the only one on its group.
LEMMA BarePlace ==
    ASSUME NEW c \in Configs, NEW g, NEW k \in c.bare
    PROVE  BareCounts(c, g, k)
  <1>1. PICK y, w, z : y = <<k, -1>> /\ w = <<k, 1>> /\ z = <<k + 1, -1>>
    OBVIOUS
  <1>2. k \in 1..Len(c.plan) /\ k \in Int
    BY ConfigFacts
  <1>3. \A x \in Messages(c, g) :
            /\ x = <<x[1], x[2]>> /\ x[1] \in Int /\ x[2] \in Int /\ x[2] \in Slots(c, g, x[1])
            /\ x[2] >= -1
    <2>1. ASSUME NEW x \in Messages(c, g) PROVE x[2] >= -1
      <3>1. x[2] \in Slots(c, g, x[1]) /\ x[1] \in 1..Len(c.plan) /\ x[2] \in Int
        BY MessageFacts, PlaceFacts
      <3>2. x[2] \in -1..Len(c.plan[x[1]])
        BY <3>1, SlotFacts
      <3> QED BY <3>1, <3>2
    <2> QED BY <2>1, PlaceFacts
  <1>4. IsPlaces(Messages(c, g)) /\ Before(Messages(c, g), y) \in Nat
    BY MessageFacts, BeforeType
  <1>5. CASE g = "device"
    <2>1. w \in Messages(c, g)
      <3>1. 1 \in Slots(c, g, k)
        BY <1>5 DEF Slots
      <3> QED BY <1>1, <1>2, <3>1, MessageFacts
    <2>2. ASSUME NEW x \in Messages(c, g), x[1] = k PROVE x[2] = 1
      <3>1. x[2] \in Slots(c, g, k)
        BY <1>3, <2>2
      <3> QED BY <3>1 DEF Slots
    <2>3. \A x \in Messages(c, g) :
              /\ Earlier(x, w) <=> Earlier(x, y)
              /\ Earlier(x, z) <=> (Earlier(x, w) \/ x = w)
      BY <1>1, <1>2, <1>3, <2>2 DEF Earlier
    <2>4. Before(Messages(c, g), w) = Before(Messages(c, g), y)
      BY <2>3, BeforeSame
    <2>5. Before(Messages(c, g), z) = Before(Messages(c, g), w) + 1
      BY <1>4, <2>1, <2>3, BeforeNext
    <2> QED BY <1>1, <1>4, <1>5, <2>1, <2>4, <2>5 DEF BareCounts
  <1>6. CASE g # "device"
    <2>1. ASSUME NEW x \in Messages(c, g) PROVE x[1] # k
      <3>1. Slots(c, g, k) = {}
        BY <1>6 DEF Slots
      <3> QED BY <1>3, <3>1
    <2>2. \A x \in Messages(c, g) : Earlier(x, z) <=> Earlier(x, y)
      BY <1>1, <1>2, <1>3, <2>1 DEF Earlier
    <2>3. Before(Messages(c, g), z) = Before(Messages(c, g), y)
      BY <2>2, BeforeSame
    <2> QED BY <1>1, <1>4, <1>6, <2>3 DEF BareCounts
  <1> QED BY <1>5, <1>6

\* What is received of a bare tensor e.
Bare(e, place, message) ==
    [buffers |-> <<[entry |-> e, group |-> "device", place |-> place, value |-> message]>>,
     todo |-> 2]

\* A bare tensor has come.
LEMMA BareIsReceived ==
    ASSUME NEW c \in Configs, NEW s, NEW n, NEW p, Program(c, n, p),
           NEW ch, Stream(c, s, n, p, ch), NEW d, NEW o, NEW count, NEW a,
           Receiving(c, s, n, p, "idle", d, o, count, a), DOMAIN count = Group,
           Len(o) < c.window, NEW k \in c.bare, k = Len(d) + Len(o) + 1, ~Rejects(c, k),
           NEW b, b = count["device"], b + 1 <= Len(ch["device"])
    PROVE  Receiving(c, s, n, p, "idle", d,
                     Append(o, Bare(c.plan[k][1], b + 1, ch["device"][b + 1])),
                     [count EXCEPT !["device"] = b + 1], a)
  <1>1. PICK m, y, w, z : /\ m = Len(d) + Len(o) /\ k = m + 1
                          /\ y = <<k, -1>> /\ w = <<k, 1>> /\ z = <<k + 1, -1>>
    OBVIOUS
  <1>2. /\ Follows(c, n, p, "idle", m)
        /\ \A h \in Group : count[h] = Before(Messages(c, h), y)
    BY <1>1 DEF Receiving, Posted
  <1>3. /\ n \in Nat /\ k \in Nat \ {0} /\ k <= n + 1 /\ \A j \in 1..k - 1 : ~Rejects(c, j)
    BY <1>1, <1>2, FollowsFacts
  <1>4. PICK g \in Group : g = "device"
    BY DEF Group
  <1>5. /\ w \in Messages(c, g) /\ b = Before(Messages(c, g), w) /\ b \in Nat
    <2>1. /\ w \in Messages(c, g) /\ Before(Messages(c, g), w) = Before(Messages(c, g), y)
          /\ Before(Messages(c, g), y) \in Nat
      <3>1. BareCounts(c, g, k)
        BY BarePlace
      <3> QED BY <1>1, <1>4, <3>1 DEF BareCounts
    <2> QED BY <1>2, <1>4, <2>1
  <1>6. Earlier(w, Limit(n, p))
    <2>1. PICK i : i = 1 /\ i \in Int
      OBVIOUS
    <2>2. Awaits(c, n, k, i)
      BY <1>3, <2>1 DEF Awaits
    <2>3. Len(ch[g]) \in Nat
      BY SequenceFacts DEF Stream
    <2>4. w = <<k, i>> /\ Before(Messages(c, g), <<k, i>>) < Len(ch[g])
      BY <1>1, <1>4, <1>5, <2>1, <2>3
    <2>5. Earlier(<<k, i>>, Limit(n, p))
      BY <2>2, <2>4, HasBeenSent
    <2> QED BY <2>4, <2>5
  <1>7. k <= n /\ (k = n => p # "object")
    BY <1>1, <1>3, <1>6 DEF Earlier, Limit
  <1>8. PICK e, v, new : /\ e = c.plan[k][1] /\ v = ch["device"][b + 1]
                         /\ new = Bare(e, b + 1, v)
    OBVIOUS
  <1>9. /\ k \in 1..Len(c.plan) /\ DOMAIN c.plan[k] = {1} /\ e.tensor /\ e.where = "xpu"
        /\ e.numel \in Nat /\ ~Cut(c, e)
    <2>1. k \in 1..Len(c.plan) /\ IsBare(c, c.plan[k]) /\ DOMAIN c.plan[k] = 1..Len(c.plan[k])
      BY ConfigFacts
    <2>2. DOMAIN c.plan[k] = {1}
      BY <2>1 DEF IsBare
    <2>3. IsEntry(c, e)
      <3>1. 1 \in 1..Len(c.plan[k])
        BY <2>1, <2>2
      <3> QED BY <1>8, <2>1, <3>1, ConfigFacts
    <2> QED BY <1>8, <2>1, <2>2, <2>3 DEF IsBare, IsEntry, Cut
  <1>10. v = TensorOf(e, s, k)
    <2>1. v = Content(c, s, w)
      BY <1>4, <1>5, <1>6, <1>8, WhatHasCome
    <2>2. Content(c, s, w) = Piece(c, e, s, k)
      BY <1>1, <1>8 DEF Content
    <2> QED BY <1>9, <2>1, <2>2 DEF Piece
  <1>11. e.numel = 0 => v = <<>>
    BY <1>10 DEF TensorOf
  <1>12. Begun(c, s, k, new)
    <2>1. PICK f : f = [entry |-> e, group |-> "device", place |-> b + 1, value |-> v]
      OBVIOUS
    <2>2. new.todo = 2 /\ new.buffers = <<f>>
      BY <1>8, <2>1 DEF Bare
    <2>3. Entry(c, s, k, 1, 2, f)
      <3>1. {"entry", "group", "place", "value"} \subseteq DOMAIN f
        BY <2>1
      <3> QED BY <1>8, <1>9, <1>10, <1>11, <2>1, <3>1 DEF Entry, CommGroup
    <2> QED BY <1>9, <2>2, <2>3 DEF Begun
  <1>13. CanBegin(c, s, n, p, k, new)
    BY <1>7, <1>12 DEF CanBegin
  <1>14. PICK posts : posts = [count EXCEPT !["device"] = b + 1]
    OBVIOUS
  <1>15. Counts(c, posts, z)
    <2>1. ASSUME NEW h \in Group
          PROVE  posts[h] \in Nat /\ posts[h] = Before(Messages(c, h), z)
      <3>1. /\ Before(Messages(c, h), y) \in Nat
            /\ Before(Messages(c, h), z) =
                Before(Messages(c, h), y) + IF h = "device" THEN 1 ELSE 0
        <4>1. BareCounts(c, h, k)
          BY BarePlace
        <4> QED BY <1>1, <4>1 DEF BareCounts
      <3>2. count[h] = Before(Messages(c, h), y)
        BY <1>2
      <3>3. posts[h] = count[h] + IF h = "device" THEN 1 ELSE 0
        BY <1>14, <3>1, <3>2
      <3> QED BY <3>1, <3>2, <3>3
    <2> QED BY <2>1 DEF Counts
  <1>16. Receiving(c, s, n, p, "idle", d, Append(o, new), posts, a)
    BY <1>1, <1>13, <1>15, DictionaryIsOpened
  <1> QED BY <1>8, <1>14, <1>16

\* A bare tensor is received, or gloo refuses it.
LEMMA ReceiveBareKeeps ==
    ASSUME IInv, NEW r \in Receiver, ReceiveBare(r)
    PROVE  IInv'
  <1>1. PICK c, s, n, p, ch : /\ c = config /\ s = From(r) /\ n = sent[From(r)] /\ p = spc[From(r)]
                              /\ ch = chan[r]
    OBVIOUS
  <1>2. PICK d, o, count, a : /\ d = received[r] /\ o = open[r]
                              /\ count = posted[r] /\ a = gathers[r]
    OBVIOUS
  <1>3. PICK k, b : k = Len(d) + Len(o) + 1 /\ b = count["device"]
    OBVIOUS
  <1>4. rpc[r] = "idle" /\ Len(o) < c.window /\ k \in c.bare
    BY <1>1, <1>2, <1>3 DEF ReceiveBare, MayOpen, Expected
  <1>5. /\ c \in Configs /\ Program(c, n, p) /\ Stream(c, s, n, p, ch)
        /\ Receiving(c, s, n, p, "idle", d, o, count, a) /\ DOMAIN count = Group
    BY <1>1, <1>2, <1>4, ReceiverFacts
  <1>6. Refuses(c.plan[k][1]) <=> Rejects(c, k)
    <2>1. DOMAIN c.plan[k] = 1..Len(c.plan[k]) /\ Len(c.plan[k]) = 1
      BY <1>4, <1>5, ConfigFacts DEF IsBare
    <2>2. DOMAIN c.plan[k] = {1}
      BY <2>1
    <2> QED BY <1>1, <1>4, <2>2, WhatRejectsBare
  <1>7. UNCHANGED <<config, sent, spc, chan>> /\ UNCHANGED <<gathers, received>>
    BY DEF ReceiveBare
  <1>8. Sets(received, received', r, d) /\ Sets(gathers, gathers', r, a)
    BY <1>2, <1>7, ReceiverFacts, SetFacts
  <1>9. CASE Rejects(c, k)
    <2>1. rpc' = [rpc EXCEPT ![r] = "raised"] /\ open' = open /\ posted' = posted
      BY <1>1, <1>2, <1>3, <1>6, <1>9 DEF ReceiveBare, Expected, Plan
    <2>2. Sets(rpc, rpc', r, "raised") /\ Sets(open, open', r, o) /\ Sets(posted, posted', r, count)
      BY <1>2, <2>1, ReceiverFacts, SetFacts
    <2>3. Receiving(c, s, n, p, "raised", d, o, count, a)
      BY <1>5, ReceiverRaises
    <2> QED BY <1>1, <1>5, <1>7, <1>8, <2>2, <2>3, ReceiverStep
  <1>10. CASE ~Rejects(c, k)
    <2>1. PICK new, posts : /\ new = Bare(c.plan[k][1], b + 1, ch["device"][b + 1])
                            /\ posts = [count EXCEPT !["device"] = b + 1]
      OBVIOUS
    <2>2. /\ rpc' = rpc /\ open' = [open EXCEPT ![r] = Append(o, new)]
          /\ posted' = [posted EXCEPT ![r] = posts] /\ b + 1 <= Len(ch["device"])
      <3>1. Expected(r) = k /\ Posts(r, "device") = b + 1
        BY <1>2, <1>3 DEF Expected, Posts
      <3>2. /\ HasCome(r, "device") /\ rpc' = rpc
            /\ posted' = [posted EXCEPT ![r]["device"] = posted[r]["device"] + 1]
            /\ open' = [open EXCEPT ![r] = Append(open[r],
                            Bare(Plan[Expected(r)][1], Posts(r, "device"),
                                 chan[r]["device"][Posts(r, "device")]))]
        BY <1>1, <1>6, <1>10, <3>1 DEF ReceiveBare, Plan, Bare
      <3> QED BY <1>1, <1>2, <1>3, <2>1, <3>1, <3>2 DEF HasCome, Plan
    <2>3. /\ Sets(rpc, rpc', r, "idle") /\ Sets(open, open', r, Append(o, new))
          /\ Sets(posted, posted', r, posts)
      BY <1>4, <2>2, ReceiverFacts, SetFacts
    <2>4. Receiving(c, s, n, p, "idle", d, Append(o, new), posts, a)
      BY <1>3, <1>4, <1>5, <1>10, <2>1, <2>2, BareIsReceived
    <2>5. DOMAIN posts = Group
      BY <1>5, <2>1
    <2> QED BY <1>1, <1>7, <1>8, <2>3, <2>4, <2>5, ReceiverStep
  <1> QED BY <1>9, <1>10

---------------------------------------------------------------------------
(* A receiver's steps: the oldest open dictionary.                         *)

\* The oldest dictionary that is open.
LEMMA OldestFacts ==
    ASSUME NEW c \in Configs, NEW s, NEW n, NEW p, Program(c, n, p), NEW q, NEW d, NEW o,
           NEW count, NEW a, Receiving(c, s, n, p, q, d, o, count, a), o # <<>>,
           NEW k, k = Len(d) + 1
    PROVE  /\ k \in 1..Len(c.plan) /\ k \in Nat \ {0} /\ k <= n
           /\ \A j \in 1..k : ~Rejects(c, j)
           /\ ~Rejects(c, k) /\ Begun(c, s, k, o[1])
           /\ Len(d) \in Nat /\ Len(o) \in Nat /\ Len(o) >= 1
  <1>1. IsSeq(d) /\ IsSeq(o) /\ Follows(c, n, p, q, Len(d) + Len(o)) /\ Opened(c, s, Len(d), o)
    BY DEF Receiving, Opened
  <1>2. Len(d) \in Nat /\ Len(o) \in Nat /\ Len(o) # 0
    BY <1>1, SequenceFacts
  <1>3. /\ Len(d) + Len(o) \in 0..n /\ \A j \in 1..Len(d) + Len(o) : ~Rejects(c, j)
        /\ n \in 0..Len(c.plan) /\ Len(c.plan) \in Nat
    BY <1>1, ConfigFacts DEF Follows, Program
  <1>4. Begun(c, s, k, o[1])
    BY <1>1, <1>2 DEF Opened
  <1>5. k \in 1..k /\ \A j \in 1..k : ~Rejects(c, j)
    BY <1>2, <1>3
  <1> QED BY <1>2, <1>3, <1>4, <1>5

\* The oldest dictionary that is open changes.
LEMMA OldestChanges ==
    ASSUME NEW c, NEW s, NEW m, NEW o, Opened(c, s, m, o), o # <<>>, NEW new,
           NEW k, k = m + 1, Begun(c, s, k, new), NEW e, e = FirstIs(o, new)
    PROVE  Opened(c, s, m, e) /\ Len(e) = Len(o) /\ e # <<>> /\ e[1] = new
  <1>1. IsSeq(o)
    BY DEF Opened
  <1>2. /\ IsSeq(e) /\ Len(e) = Len(o) /\ e[1] = new /\ \A i \in 2..Len(o) : e[i] = o[i]
    BY <1>1, Replacing
  <1>3. Len(o) \in Nat /\ Len(o) # 0
    BY <1>1, SequenceFacts
  <1>4. e # <<>>
    BY <1>2, <1>3, SequenceFacts
  <1>5. ASSUME NEW j \in 1..Len(e)
        PROVE  Begun(c, s, m + j, e[j])
    <2>1. CASE j = 1
      BY <1>2, <2>1
    <2>2. CASE j # 1
      <3>1. j \in 2..Len(o) /\ j \in 1..Len(o)
        BY <1>2, <1>3, <2>2
      <3> QED BY <1>2, <3>1 DEF Opened
    <2> QED BY <2>1, <2>2
  <1>6. ASSUME NEW j \in 2..Len(e), m + j \notin c.bare
        PROVE  e[j].todo = 0
    BY <1>2, <1>6 DEF Opened
  <1>7. Len(e) <= c.window
    BY <1>2 DEF Opened
  <1> QED BY <1>2, <1>4, <1>5, <1>6, <1>7 DEF Opened

\* The handles of the dictionary d have been waited for.
Waited(d, ch) ==
    [buffers |-> [i \in DOMAIN d.buffers |->
                    LET b == d.buffers[i]
                    IN  IF Travels(b.entry) THEN [b EXCEPT !.value = ch[b.group][b.place]] ELSE b],
     todo |-> 1]

\* Every tensor of an open dictionary has come.
AllArrived(d, ch) ==
    \A i \in DOMAIN d.buffers :
        LET b == d.buffers[i]
        IN  Travels(b.entry) => b.place <= Len(ch[b.group])

\* None of the first k elements of the program is refused.
Accepted(c, k) == \A j \in 1..k : ~Rejects(c, j)

\* Entry i of the k-th dictionary is e, and on its group g it is the message of number l.
IsPlaceOf(c, k, i, e, g, l) ==
    /\ k \in (1..Len(c.plan)) \ c.bare /\ i \in DOMAIN c.plan[k] /\ e = c.plan[k][i]
    /\ g = CommGroup(e) /\ l = Before(Messages(c, g), <<k, i>>) + 1

\* The message of a tensor of an open dictionary has come, and is its piece.
LEMMA PieceHasCome ==
    ASSUME NEW c \in Configs, NEW s, NEW n, NEW p, Program(c, n, p),
           NEW ch, Stream(c, s, n, p, ch),
           NEW k, NEW i, NEW e, NEW g, NEW l, IsPlaceOf(c, k, i, e, g, l),
           k <= n, Accepted(c, k), Travels(e), l <= Len(ch[g])
    PROVE  ch[g][l] = Piece(c, e, s, k)
  <1>1. PICK y : y = <<k, i>>
    OBVIOUS
  <1>2. /\ k \in (1..Len(c.plan)) \ c.bare /\ i \in DOMAIN c.plan[k] /\ e = c.plan[k][i]
        /\ g = CommGroup(e) /\ l = Before(Messages(c, g), y) + 1
    BY <1>1 DEF IsPlaceOf
  <1>3. PICK b : b = Before(Messages(c, g), y)
    OBVIOUS
  <1>4. /\ k \in Nat \ {0} /\ n \in Nat /\ i \in Nat /\ i >= 1 /\ g \in Group
        /\ \A j \in 1..k - 1 : j \in 1..k
    <2>1. DOMAIN c.plan[k] = 1..Len(c.plan[k]) /\ Len(c.plan[k]) \in Nat /\ Len(c.plan) \in Nat
      BY <1>2, ConfigFacts
    <2>2. n \in 0..Len(c.plan)
      BY DEF Program
    <2>3. g \in Group
      BY <1>2 DEF CommGroup, Group
    <2> QED BY <1>2, <2>1, <2>2, <2>3
  <1>5. y \in Messages(c, g)
    <2>1. i \in Slots(c, g, k)
      BY <1>2 DEF Slots
    <2> QED BY <1>1, <1>2, <1>3, <2>1, MessageFacts
  <1>6. b \in Nat /\ Len(ch[g]) \in Nat
    <2>1. b \in Nat
      BY <1>3, MessageFacts, BeforeType
    <2>2. IsSeq(ch[g])
      BY <1>4 DEF Stream
    <2> QED BY <2>1, <2>2, SequenceFacts
  <1>7. Earlier(y, Limit(n, p))
    <2>1. Awaits(c, n, k, i)
      BY <1>4 DEF Awaits, Accepted
    <2>2. Before(Messages(c, g), <<k, i>>) < Len(ch[g])
      BY <1>1, <1>2, <1>3, <1>6
    <2>3. Earlier(<<k, i>>, Limit(n, p))
      BY <1>4, <2>1, <2>2, HasBeenSent
    <2> QED BY <1>1, <1>3, <2>3
  <1>8. ch[g][b + 1] = Content(c, s, y)
    BY <1>3, <1>4, <1>5, <1>7, WhatHasCome
  <1>9. Content(c, s, y) = Piece(c, e, s, k)
    BY <1>1, <1>2, <1>3, <1>4 DEF Content
  <1> QED BY <1>2, <1>3, <1>8, <1>9

\* The tensors hold their pieces when the handles have been waited for.
LEMMA WaitedIsBegun ==
    ASSUME NEW c \in Configs, NEW s, NEW n, NEW p, Program(c, n, p),
           NEW ch, Stream(c, s, n, p, ch),
           NEW k \in 1..Len(c.plan), k <= n, Accepted(c, k),
           NEW d, Begun(c, s, k, d), d.todo = 0, AllArrived(d, ch)
    PROVE  Begun(c, s, k, Waited(d, ch))
  <1>1. PICK new : new = Waited(d, ch)
    OBVIOUS
  <1>2. k \notin c.bare /\ DOMAIN d.buffers = DOMAIN c.plan[k]
    BY DEF Begun
  <1>3. new.todo = 1 /\ DOMAIN new.buffers = DOMAIN c.plan[k]
    BY <1>1, <1>2 DEF Waited
  <1>4. ASSUME NEW i \in DOMAIN c.plan[k]
        PROVE  Entry(c, s, k, i, 1, new.buffers[i])
    <2>1. PICK e, b, f : e = c.plan[k][i] /\ b = d.buffers[i] /\ f = new.buffers[i]
      OBVIOUS
    <2>2. Entry(c, s, k, i, 0, b)
      BY <2>1 DEF Begun
    <2>3. b.entry = e /\ b.group = CommGroup(e)
      BY <2>1, <2>2 DEF Entry
    <2>4. f = IF Travels(e) THEN [b EXCEPT !.value = ch[b.group][b.place]] ELSE b
      BY <1>1, <1>2, <2>1, <2>3 DEF Waited
    <2>5. CASE ~Travels(e)
      BY <2>1, <2>2, <2>4, <2>5 DEF Entry
    <2>6. CASE Travels(e)
      <3>1. b.place = Before(Messages(c, b.group), <<k, i>>) + 1
        BY <1>2, <2>1, <2>2, <2>6 DEF Entry
      <3>2. b.place <= Len(ch[b.group])
        BY <1>2, <2>1, <2>3, <2>6 DEF AllArrived
      <3>3. PICK g, l : g = b.group /\ l = b.place
        OBVIOUS
      <3>4. ch[g][l] = Piece(c, e, s, k)
        <4>1. IsPlaceOf(c, k, i, e, g, l)
          BY <1>2, <2>1, <2>3, <3>1, <3>3 DEF IsPlaceOf
        <4>2. l <= Len(ch[g])
          BY <3>2, <3>3
        <4> QED BY <2>6, <4>1, <4>2, PieceHasCome
      <3>5. {"entry", "group", "place", "value"} \subseteq DOMAIN b
        BY <2>2 DEF Entry
      <3>6. /\ DOMAIN f = DOMAIN b /\ f.value = Piece(c, e, s, k)
            /\ f.entry = b.entry /\ f.group = b.group /\ f.place = b.place
        BY <2>4, <2>6, <3>3, <3>4, <3>5
      <3>7. i >= 1 /\ (~Cut(c, e) => Piece(c, e, s, k) = TensorOf(e, s, k))
        <4>1. i \in 1..Len(c.plan[k]) /\ Len(c.plan[k]) \in Nat
          BY ConfigFacts
        <4>2. i >= 1
          BY <4>1
        <4>3. ~Cut(c, e) => Piece(c, e, s, k) = TensorOf(e, s, k)
          BY DEF Piece
        <4> QED BY <4>2, <4>3
      <3>8. e.tensor /\ e.numel # 0
        <4>1. IsEntry(c, e)
          BY <2>1, ConfigFacts
        <4> QED BY <2>6, <4>1 DEF IsEntry, Travels
      <3> QED BY <2>1, <2>2, <2>6, <3>5, <3>6, <3>7, <3>8 DEF Entry
    <2> QED BY <2>1, <2>5, <2>6
  <1>5. Begun(c, s, k, new)
    BY <1>2, <1>3, <1>4 DEF Begun
  <1> QED BY <1>1, <1>5

\* The handles of the oldest dictionary have been waited for: nothing is gathered yet.
LEMMA HandlesAreWaitedFor ==
    ASSUME NEW c \in Configs, NEW s, NEW n, NEW p, Program(c, n, p),
           NEW ch, Stream(c, s, n, p, ch), NEW d, NEW o, NEW count, NEW a,
           Receiving(c, s, n, p, "idle", d, o, count, a), o # <<>>, o[1].todo = 0,
           AllArrived(o[1], ch), NEW new, new = Waited(o[1], ch)
    PROVE  Receiving(c, s, n, p, "idle", d, FirstIs(o, new), count, a)
  <1>1. PICK k, m, e : m = Len(d) /\ k = m + 1 /\ e = FirstIs(o, new)
    OBVIOUS
  <1>2. /\ k \in 1..Len(c.plan) /\ k \in Nat \ {0} /\ k <= n /\ Begun(c, s, k, o[1])
        /\ \A j \in 1..k : ~Rejects(c, j)
    BY <1>1, OldestFacts
  <1>3. Begun(c, s, k, new)
    <2>1. Accepted(c, k)
      BY <1>2 DEF Accepted
    <2> QED BY <1>2, <2>1, WaitedIsBegun
  <1>4. /\ Follows(c, n, p, "idle", m + Len(o)) /\ Posted(c, "idle", m + Len(o), count)
        /\ Opened(c, s, m, o) /\ Gathered(c, s, "idle", m, o, a) /\ IsSeq(d)
    BY <1>1 DEF Receiving
  <1>5. Opened(c, s, m, e) /\ Len(e) = Len(o) /\ e # <<>> /\ e[1] = new
    BY <1>1, <1>3, <1>4, OldestChanges
  <1>6. Gathered(c, s, "idle", m, e, a)
    <2>1. PICK y, z : y = <<k, 0>> /\ z = <<k, 1>>
      OBVIOUS
    <2>2. Reached(m, o) = y /\ Reached(m, e) = z
      <3>1. new.todo = 1
        BY DEF Waited
      <3> QED BY <1>1, <1>5, <2>1, <3>1 DEF Reached
    <2>3. ASSUME NEW x \in Cuts(c)
          PROVE  Earlier(x, y) <=> Earlier(x, z)
      <3>1. x[1] \in Int /\ x[2] \in Int /\ x[2] >= 1
        BY CutPlaces
      <3> QED BY <1>2, <2>1, <3>1 DEF Earlier
    <2>4. Before(Cuts(c), y) = Before(Cuts(c), z)
      BY <2>3, BeforeSame
    <2> QED BY <1>4, <2>2, <2>4 DEF Gathered
  <1>7. Receiving(c, s, n, p, "idle", d, e, count, a)
    BY <1>1, <1>4, <1>5, <1>6 DEF Receiving
  <1> QED BY <1>1, <1>7

\* The oldest dictionary waits for its tensors.
LEMMA WaitHandlesKeeps ==
    ASSUME IInv, NEW r \in Receiver, WaitHandles(r)
    PROVE  IInv'
  <1>1. PICK c, s, n, p, ch : /\ c = config /\ s = From(r) /\ n = sent[From(r)] /\ p = spc[From(r)]
                              /\ ch = chan[r]
    OBVIOUS
  <1>2. PICK d, o, count, a : /\ d = received[r] /\ o = open[r]
                              /\ count = posted[r] /\ a = gathers[r]
    OBVIOUS
  <1>3. PICK new : new = Waited(o[1], ch)
    OBVIOUS
  <1>4. /\ rpc[r] = "idle" /\ o # <<>> /\ o[1].todo = 0 /\ AllArrived(o[1], ch)
        /\ UNCHANGED <<config, sent, spc, chan>> /\ UNCHANGED <<posted, rpc, gathers, received>>
    BY <1>1, <1>2 DEF WaitHandles, AllArrived, Arrived
  <1>5. open' = [open EXCEPT ![r][1] = new]
    BY <1>1, <1>2, <1>3 DEF WaitHandles, Waited
  <1>6. open' = [open EXCEPT ![r] = FirstIs(o, new)]
    BY <1>2, <1>5 DEF FirstIs
  <1>7. /\ Sets(open, open', r, FirstIs(o, new)) /\ Sets(received, received', r, d)
        /\ Sets(gathers, gathers', r, a) /\ Sets(rpc, rpc', r, "idle")
        /\ Sets(posted, posted', r, count)
    BY <1>2, <1>4, <1>6, ReceiverFacts, SetFacts
  <1>8. /\ c \in Configs /\ Program(c, n, p) /\ Stream(c, s, n, p, ch)
        /\ Receiving(c, s, n, p, "idle", d, o, count, a) /\ DOMAIN count = Group
    BY <1>1, <1>2, <1>4, ReceiverFacts
  <1>9. Receiving(c, s, n, p, "idle", d, FirstIs(o, new), count, a)
    BY <1>3, <1>4, <1>8, HandlesAreWaitedFor
  <1> QED BY <1>1, <1>4, <1>7, <1>8, <1>9, ReceiverStep

\* What is left to put together of the k-th dictionary, at todo.
Left(c, k, todo) == {i \in DOMAIN c.plan[k] : i >= todo /\ Cut(c, c.plan[k][i])}

\* The least of these is there, if there is one.
LEMMA LeastFacts ==
    ASSUME NEW S, S \subseteq Nat, S # {}
    PROVE  Least(S) \in S /\ \A j \in S : Least(S) <= j
  <1>1. \E i \in S : \A j \in S : ~(<<j, i>> \in OpToRel(<, Nat))
    BY NatLessThanWellFounded, WFMin, Zenon
  <1>2. PICK i \in S : \A j \in S : i <= j
    <2>1. PICK i \in S : \A j \in S : ~(<<j, i>> \in OpToRel(<, Nat))
      BY <1>1
    <2>2. \A j \in S : ~(j < i)
      BY <2>1, Zenon DEF OpToRel
    <2>3. \A j \in S : i <= j
      BY <2>2
    <2> QED BY <2>3
  <1> QED BY <1>2 DEF Least

\* The positions of the all-gathers of a dictionary: S is left of it, at todo.
LeftCounts(c, k, todo, S) ==
    LET now == Before(Cuts(c), <<k, todo>>)  i == Least(S)
    IN  /\ now \in Nat /\ S \subseteq Nat
        /\ S # {} => /\ i \in S /\ <<k, i>> \in Cuts(c) /\ \A j \in S : i <= j
                     /\ Before(Cuts(c), <<k, i>>) = now
                     /\ Before(Cuts(c), <<k, i + 1>>) = now + 1
        /\ S = {} => Before(Cuts(c), <<k + 1, 0>>) = now

\* No tensor is gathered between todo and the least of what is left.
LEMMA LeftFacts ==
    ASSUME NEW c \in Configs, NEW k \in 1..Len(c.plan), NEW todo \in Nat
    PROVE  LeftCounts(c, k, todo, Left(c, k, todo))
  <1>1. PICK S : S = Left(c, k, todo)
    OBVIOUS
  <1>2. DOMAIN c.plan[k] = 1..Len(c.plan[k]) /\ Len(c.plan[k]) \in Nat /\ k \in Nat
    BY ConfigFacts
  <1>3. S \subseteq Nat
    BY <1>1, <1>2 DEF Left
  <1>4. IsPlaces(Cuts(c)) /\ Before(Cuts(c), <<k, todo>>) \in Nat
    BY CutFacts, BeforeType
  <1>5. \A x \in Cuts(c) :
            /\ x = <<x[1], x[2]>> /\ x[1] \in Int /\ x[2] \in Int /\ x[2] >= 1
            /\ x[1] = k /\ x[2] >= todo => x[2] \in S
    <2>1. ASSUME NEW x \in Cuts(c), x[1] = k, x[2] >= todo
          PROVE  x[2] \in S
      <3>1. x[2] \in 1..Len(c.plan[k]) /\ Cut(c, c.plan[k][x[2]])
        BY <2>1, CutFacts
      <3> QED BY <1>1, <1>2, <2>1, <3>1 DEF Left
    <2> QED BY <2>1, CutPlaces
  <1>6. ASSUME S # {}
        PROVE  /\ Least(S) \in S /\ <<k, Least(S)>> \in Cuts(c) /\ \A j \in S : Least(S) <= j
               /\ Before(Cuts(c), <<k, Least(S)>>) = Before(Cuts(c), <<k, todo>>)
               /\ Before(Cuts(c), <<k, Least(S) + 1>>) = Before(Cuts(c), <<k, todo>>) + 1
    <2>1. PICK i : i = Least(S)
      OBVIOUS
    <2>2. i \in S /\ \A j \in S : i <= j
      BY <1>3, <1>6, <2>1, LeastFacts
    <2>3. i \in 1..Len(c.plan[k]) /\ i >= todo /\ Cut(c, c.plan[k][i]) /\ i \in Nat
      BY <1>1, <1>2, <1>3, <2>2 DEF Left
    <2>4. PICK x, y, z : x = <<k, i>> /\ y = <<k, todo>> /\ z = <<k, i + 1>>
      OBVIOUS
    <2>5. x \in Cuts(c)
      BY <2>3, <2>4, CutFacts
    <2>6. ASSUME NEW w \in Cuts(c)
          PROVE  /\ Earlier(w, x) <=> Earlier(w, y)
                 /\ Earlier(w, z) <=> (Earlier(w, x) \/ w = x)
      <3>1. w[1] = k /\ w[2] >= todo => i <= w[2]
        BY <1>5, <2>2
      <3> QED BY <1>2, <1>5, <2>3, <2>4, <3>1 DEF Earlier
    <2>7. Before(Cuts(c), x) = Before(Cuts(c), y)
      BY <2>6, BeforeSame
    <2>8. Before(Cuts(c), z) = Before(Cuts(c), x) + 1
      BY <1>4, <2>5, <2>6, BeforeNext
    <2> QED BY <2>1, <2>2, <2>4, <2>5, <2>7, <2>8
  <1>7. ASSUME S = {}
        PROVE  Before(Cuts(c), <<k, todo>>) = Before(Cuts(c), <<k + 1, 0>>)
    <2>1. PICK y, z : y = <<k, todo>> /\ z = <<k + 1, 0>>
      OBVIOUS
    <2>2. ASSUME NEW w \in Cuts(c)
          PROVE  Earlier(w, y) <=> Earlier(w, z)
      BY <1>2, <1>5, <1>7, <2>1 DEF Earlier
    <2>3. Before(Cuts(c), y) = Before(Cuts(c), z)
      BY <2>2, BeforeSame
    <2> QED BY <2>1, <2>3
  <1> QED BY <1>1, <1>3, <1>4, <1>6, <1>7 DEF LeftCounts

\* In the model that is ToGather.
LEMMA ToGatherFacts ==
    ASSUME NEW r, config \in Configs, NEW s, NEW k \in 1..Len(config.plan),
           ~Rejects(config, k), Begun(config, s, k, open[r][1])
    PROVE  ToGather(r) = Left(config, k, open[r][1].todo)
  <1>1. PICK c, d : c = config /\ d = open[r][1]
    OBVIOUS
  <1>2. DOMAIN d.buffers = DOMAIN c.plan[k] /\ \A i \in DOMAIN c.plan[k] : d.buffers[i].entry = c.plan[k][i]
    BY <1>1 DEF Begun, Entry
  <1>3. ASSUME NEW i \in DOMAIN c.plan[k]
        PROVE  Travels(c.plan[k][i]) /\ UseAllGather(c.plan[k][i]) <=> Cut(c, c.plan[k][i])
    <2>1. Travels(c.plan[k][i]) => ~Stops(c, c.plan[k][i])
      BY <1>1, <1>3 DEF Rejects
    <2> QED BY <1>1, <2>1, WhatStops DEF Cut
  <1> QED BY <1>1, <1>2, <1>3 DEF ToGather, Left

\* The slice of the next tensor is handed to its all-gather.
LEMMA SliceIsHandedOver ==
    ASSUME NEW c \in Configs, NEW s, NEW n, NEW p, Program(c, n, p), NEW d, NEW o, NEW count,
           NEW a, Receiving(c, s, n, p, "idle", d, o, count, a), o # <<>>, o[1].todo # 0,
           NEW k, k = Len(d) + 1, NEW S, S = Left(c, k, o[1].todo), S # {},
           NEW v, v = o[1].buffers[Least(S)].value
    PROVE  Receiving(c, s, n, p, "gathering", d, o, count, Append(a, v))
  <1>1. PICK m, l, todo, i : /\ m = Len(d) /\ l = Len(d) + Len(o) /\ todo = o[1].todo
                             /\ i = Least(S)
    OBVIOUS
  <1>2. k \in 1..Len(c.plan) /\ k \in Nat /\ Begun(c, s, k, o[1])
    BY OldestFacts
  <1>3. todo \in Nat /\ todo > 0
    BY <1>1, <1>2 DEF Begun
  <1>4. PICK y, x : y = <<k, todo>> /\ x = <<k, i>>
    OBVIOUS
  <1>5. /\ i \in S /\ x \in Cuts(c) /\ Before(Cuts(c), y) \in Nat
        /\ Before(Cuts(c), x) = Before(Cuts(c), y)
    <2>1. LeftCounts(c, k, todo, S)
      BY <1>1, <1>2, <1>3, LeftFacts
    <2> QED BY <1>1, <1>4, <2>1 DEF LeftCounts
  <1>6. i \in DOMAIN c.plan[k] /\ i >= todo /\ Cut(c, c.plan[k][i])
    BY <1>1, <1>5 DEF Left
  <1>7. v = Piece(c, c.plan[k][i], s, k)
    <2>1. Entry(c, s, k, i, todo, o[1].buffers[i])
      BY <1>1, <1>2, <1>6 DEF Begun
    <2>2. Travels(c.plan[k][i])
      BY <1>6 DEF Cut
    <2> QED BY <1>1, <1>3, <1>6, <2>1, <2>2 DEF Entry
  <1>8. /\ Follows(c, n, p, "idle", l) /\ Posted(c, "idle", l, count)
        /\ Opened(c, s, m, o) /\ Gathered(c, s, "idle", m, o, a) /\ IsSeq(d)
    BY <1>1 DEF Receiving
  <1>9. IsSeq(a) /\ Len(a) = Before(Cuts(c), y)
    <2>1. Reached(m, o) = y
      BY <1>1, <1>4 DEF Reached
    <2> QED BY <1>8, <2>1 DEF Gathered
  <1>10. PICK e : e = Append(a, v)
    OBVIOUS
  <1>11. /\ IsSeq(e) /\ Len(e) = Len(a) + 1 /\ \A j \in 1..Len(a) : e[j] = a[j]
         /\ e[Len(a) + 1] = v
    BY <1>9, <1>10, Appending
  <1>12. ASSUME NEW j \in 1..Len(e)
         PROVE  \E w \in Cuts(c) :
                    /\ j = Before(Cuts(c), w) + 1
                    /\ e[j] = Piece(c, c.plan[w[1]][w[2]], s, w[1])
    <2>1. CASE j \in 1..Len(a)
      BY <1>8, <1>11, <2>1 DEF Gathered
    <2>2. CASE j = Len(a) + 1
      <3>1. e[j] = Piece(c, c.plan[x[1]][x[2]], s, x[1])
        BY <1>4, <1>7, <1>11, <2>2
      <3>2. j = Before(Cuts(c), x) + 1
        BY <1>5, <1>9, <2>2
      <3> QED BY <1>5, <3>1, <3>2
    <2>3. j \in 1..Len(a) \/ j = Len(a) + 1
      BY <1>5, <1>9, <1>11
    <2> QED BY <2>1, <2>2, <2>3
  <1>13. Gathered(c, s, "gathering", m, o, e)
    <2>1. \E w \in Cuts(c) : w[1] = m + 1 /\ w[2] >= o[1].todo
      <3>1. x[1] = m + 1 /\ x[2] >= o[1].todo
        BY <1>1, <1>4, <1>6
      <3> QED BY <1>5, <3>1
    <2>2. Reached(m, o) = y
      BY <1>1, <1>4 DEF Reached
    <2> QED BY <1>1, <1>3, <1>9, <1>11, <1>12, <2>1, <2>2 DEF Gathered
  <1>14. Follows(c, n, p, "gathering", l) /\ Posted(c, "gathering", l, count)
    BY <1>8 DEF Follows, Posted
  <1> QED BY <1>1, <1>8, <1>10, <1>13, <1>14 DEF Receiving

\* A slice goes to the next all-gather.
LEMMA EnterGatherKeeps ==
    ASSUME IInv, NEW r \in Receiver, EnterGather(r)
    PROVE  IInv'
  <1>1. PICK c, s, n, p : c = config /\ s = From(r) /\ n = sent[From(r)] /\ p = spc[From(r)]
    OBVIOUS
  <1>2. PICK d, o, count, a, k : /\ d = received[r] /\ o = open[r] /\ k = Len(d) + 1
                                 /\ count = posted[r] /\ a = gathers[r]
    OBVIOUS
  <1>3. /\ rpc[r] = "idle" /\ o # <<>> /\ o[1].todo # 0
        /\ UNCHANGED <<config, sent, spc, chan>> /\ UNCHANGED <<posted, open, received>>
    BY <1>2 DEF EnterGather
  <1>4. /\ c \in Configs /\ Program(c, n, p)
        /\ Receiving(c, s, n, p, "idle", d, o, count, a) /\ DOMAIN count = Group
    BY <1>1, <1>2, <1>3, ReceiverFacts
  <1>5. k \in 1..Len(c.plan) /\ ~Rejects(c, k) /\ Begun(c, s, k, o[1])
    BY <1>2, <1>3, <1>4, OldestFacts
  <1>6. PICK S, v : S = Left(c, k, o[1].todo) /\ v = o[1].buffers[Least(S)].value
    OBVIOUS
  <1>7. ToGather(r) = S
    BY <1>1, <1>2, <1>4, <1>5, <1>6, ToGatherFacts
  <1>8. S # {}
    BY <1>7 DEF EnterGather
  <1>9. CASE rpc' = [rpc EXCEPT ![r] = "raised"] /\ gathers' = gathers
    <2>1. /\ Sets(open, open', r, o) /\ Sets(received, received', r, d)
          /\ Sets(gathers, gathers', r, a) /\ Sets(rpc, rpc', r, "raised")
          /\ Sets(posted, posted', r, count)
      BY <1>2, <1>3, <1>9, ReceiverFacts, SetFacts
    <2>2. Receiving(c, s, n, p, "raised", d, o, count, a)
      BY <1>4 DEF Receiving, Follows, Posted, Gathered
    <2> QED BY <1>1, <1>3, <1>4, <2>1, <2>2, ReceiverStep
  <1>10. CASE /\ gathers' = [gathers EXCEPT ![r] = Append(a, v)]
              /\ rpc' = [rpc EXCEPT ![r] = "gathering"]
    <2>1. /\ Sets(open, open', r, o) /\ Sets(received, received', r, d)
          /\ Sets(gathers, gathers', r, Append(a, v)) /\ Sets(rpc, rpc', r, "gathering")
          /\ Sets(posted, posted', r, count)
      BY <1>2, <1>3, <1>10, ReceiverFacts, SetFacts
    <2>2. Receiving(c, s, n, p, "gathering", d, o, count, Append(a, v))
      BY <1>2, <1>3, <1>4, <1>6, <1>8, SliceIsHandedOver
    <2> QED BY <1>1, <1>3, <1>4, <2>1, <2>2, ReceiverStep
  <1> QED BY <1>2, <1>6, <1>7, <1>9, <1>10 DEF EnterGather, Bound

\* A receiver is in the all-gather of entry i of the k-th dictionary.
Gathering(c, k, o, a, i) ==
    /\ o # <<>> /\ i \in DOMAIN c.plan[k] /\ Cut(c, c.plan[k][i]) /\ <<k, i>> \in Cuts(c)
    /\ Len(a) = Before(Cuts(c), <<k, i>>) + 1

\* It is the least that is left.
LEMMA GatheringFacts ==
    ASSUME NEW c \in Configs, NEW s, NEW n, NEW p, Program(c, n, p), NEW d, NEW o, NEW count,
           NEW a, Receiving(c, s, n, p, "gathering", d, o, count, a),
           NEW k, k = Len(d) + 1, NEW S, S = Left(c, k, o[1].todo), NEW i, i = Least(S)
    PROVE  k \in 1..Len(c.plan) /\ Begun(c, s, k, o[1]) /\ S # {} /\ Gathering(c, k, o, a, i)
  <1>1. PICK m, todo : m = Len(d) /\ todo = o[1].todo
    OBVIOUS
  <1>2. Gathered(c, s, "gathering", m, o, a)
    BY <1>1 DEF Receiving
  <1>3. o # <<>> /\ todo > 0
    BY <1>1, <1>2 DEF Gathered
  <1>4. k \in 1..Len(c.plan) /\ k \in Nat /\ Begun(c, s, k, o[1])
    BY <1>3, OldestFacts
  <1>5. todo \in Nat
    BY <1>1, <1>4 DEF Begun
  <1>6. PICK y, z : y = <<k, todo>> /\ z = <<k, i>>
    OBVIOUS
  <1>7. S # {}
    <2>1. PICK x \in Cuts(c) : x[1] = k /\ x[2] >= todo
      BY <1>1, <1>2 DEF Gathered
    <2>2. x[2] \in 1..Len(c.plan[k]) /\ Cut(c, c.plan[k][x[2]])
      BY <2>1, CutFacts
    <2>3. x[2] \in S
      BY <1>1, <1>4, <2>1, <2>2, ConfigFacts DEF Left
    <2> QED BY <2>3
  <1>8. i \in S /\ z \in Cuts(c) /\ Before(Cuts(c), z) = Before(Cuts(c), y)
    <2>1. LeftCounts(c, k, todo, S)
      BY <1>1, <1>4, <1>5, LeftFacts
    <2> QED BY <1>6, <1>7, <2>1 DEF LeftCounts
  <1>9. i \in DOMAIN c.plan[k] /\ Cut(c, c.plan[k][i])
    BY <1>8 DEF Left
  <1>10. Len(a) = Before(Cuts(c), y) + 1
    <2>1. Reached(m, o) = y
      BY <1>1, <1>3, <1>6 DEF Reached
    <2> QED BY <1>2, <2>1 DEF Gathered
  <1> QED BY <1>3, <1>4, <1>6, <1>7, <1>8, <1>9, <1>10 DEF Gathering

\* The next tensor is put together.
LEMMA TensorIsWhole ==
    ASSUME NEW c \in Configs, NEW s, NEW n, NEW p, Program(c, n, p), NEW d, NEW o, NEW count,
           NEW a, Receiving(c, s, n, p, "gathering", d, o, count, a),
           NEW k, k = Len(d) + 1, NEW S, S = Left(c, k, o[1].todo), NEW i, i = Least(S),
           NEW whole, whole = TensorOf(c.plan[k][i], s, k),
           NEW new, new = [buffers |-> [o[1].buffers EXCEPT ![i].value = whole], todo |-> i + 1]
    PROVE  Receiving(c, s, n, p, "idle", d, FirstIs(o, new), count, a)
  <1>1. PICK m, l, todo, e : /\ m = Len(d) /\ l = Len(d) + Len(o) /\ todo = o[1].todo
                             /\ e = FirstIs(o, new)
    OBVIOUS
  <1>2. /\ Follows(c, n, p, "gathering", l) /\ Posted(c, "gathering", l, count)
        /\ Opened(c, s, m, o) /\ Gathered(c, s, "gathering", m, o, a) /\ IsSeq(d)
    BY <1>1 DEF Receiving
  <1>3. o # <<>> /\ todo > 0
    BY <1>1, <1>2 DEF Gathered
  <1>4. k \in 1..Len(c.plan) /\ k \in Nat /\ Begun(c, s, k, o[1])
    BY <1>3, OldestFacts
  <1>5. todo \in Nat
    BY <1>1, <1>4 DEF Begun
  <1>6. PICK y, z : y = <<k, todo>> /\ z = <<k, i + 1>>
    OBVIOUS
  <1>7. S # {}
    BY GatheringFacts
  <1>8. /\ i \in S /\ \A j \in S : i <= j
        /\ Before(Cuts(c), y) \in Nat /\ Before(Cuts(c), z) = Before(Cuts(c), y) + 1
        /\ S \subseteq Nat
    <2>1. LeftCounts(c, k, todo, S)
      BY <1>1, <1>4, <1>5, LeftFacts
    <2> QED BY <1>6, <1>7, <2>1 DEF LeftCounts
  <1>9. i \in DOMAIN c.plan[k] /\ i >= todo /\ Cut(c, c.plan[k][i]) /\ i \in Nat
    BY <1>1, <1>8 DEF Left
  <1>10. new.todo = i + 1 /\ new.buffers = [o[1].buffers EXCEPT ![i].value = whole]
    OBVIOUS
  <1>11. k \notin c.bare /\ DOMAIN o[1].buffers = DOMAIN c.plan[k]
    <2>1. ~(k \in c.bare)
      <3>1. <<k, i>> \in Cuts(c)
        BY <1>4, <1>9, CutFacts, ConfigFacts
      <3>2. PICK x : x = <<k, i>>
        OBVIOUS
      <3>3. x[1] \notin c.bare
        BY <3>1, <3>2, BareIsNotCut
      <3> QED BY <3>2, <3>3
    <2> QED BY <1>4, <2>1 DEF Begun
  <1>12. ASSUME NEW j \in DOMAIN c.plan[k]
         PROVE  Entry(c, s, k, j, i + 1, new.buffers[j])
    <2>1. PICK h, b, f : h = c.plan[k][j] /\ b = o[1].buffers[j] /\ f = new.buffers[j]
      OBVIOUS
    <2>2. Entry(c, s, k, j, todo, b) /\ j \in Nat /\ IsEntry(c, h)
      <3>1. j \in 1..Len(c.plan[k]) /\ Len(c.plan[k]) \in Nat
        BY <1>4, ConfigFacts
      <3>2. IsEntry(c, h)
        BY <1>4, <2>1, <3>1, ConfigFacts
      <3> QED BY <1>1, <1>4, <2>1, <3>1, <3>2 DEF Begun
    <2>3. CASE j = i
      <3>1. f = [b EXCEPT !.value = whole]
        BY <1>10, <1>11, <2>1, <2>3
      <3>2. {"entry", "group", "place", "value"} \subseteq DOMAIN b
        BY <2>2 DEF Entry
      <3>3. /\ DOMAIN f = DOMAIN b /\ f.value = TensorOf(h, s, k)
            /\ f.entry = b.entry /\ f.group = b.group /\ f.place = b.place
        BY <2>1, <2>3, <3>1, <3>2
      <3>4. h.tensor /\ h.numel # 0 /\ ~(j >= i + 1)
        <4>1. Travels(h)
          BY <1>9, <2>1, <2>3, Zenon DEF Cut
        <4>2. ~(j >= i + 1)
          BY <1>9, <2>3
        <4> QED BY <2>2, <4>1, <4>2 DEF IsEntry, Travels
      <3> QED BY <2>1, <2>2, <3>2, <3>3, <3>4 DEF Entry
    <2>4. CASE j # i
      <3>1. f = b
        BY <1>10, <1>11, <2>1, <2>4
      <3>2. Cut(c, h) => (j >= i + 1 <=> j >= todo)
        <4>1. Cut(c, h) /\ j >= todo => j \in S
          BY <1>1, <2>1 DEF Left
        <4>2. Cut(c, h) /\ j >= todo => j >= i + 1
          BY <1>8, <1>9, <2>2, <2>4, <4>1
        <4>3. j >= i + 1 => j >= todo
          BY <1>5, <1>9, <2>2
        <4> QED BY <4>2, <4>3
      <3>3. i + 1 > 0
        BY <1>9
      <3> QED BY <1>3, <2>1, <2>2, <3>1, <3>2, <3>3 DEF Entry
    <2> QED BY <2>1, <2>3, <2>4
  <1>13. Begun(c, s, k, new)
    <2>1. DOMAIN new.buffers = DOMAIN c.plan[k] /\ new.todo \in Nat
      BY <1>9, <1>10, <1>11
    <2> QED BY <1>10, <1>11, <1>12, <2>1 DEF Begun
  <1>14. Opened(c, s, m, e) /\ Len(e) = Len(o) /\ e # <<>> /\ e[1] = new
    BY <1>1, <1>2, <1>3, <1>13, OldestChanges
  <1>15. Gathered(c, s, "idle", m, e, a)
    <2>1. Reached(m, o) = y /\ Reached(m, e) = z
      BY <1>1, <1>3, <1>6, <1>10, <1>14 DEF Reached
    <2>2. Len(a) = Before(Cuts(c), z)
      BY <1>2, <1>8, <2>1 DEF Gathered
    <2> QED BY <1>2, <2>1, <2>2 DEF Gathered
  <1>16. Follows(c, n, p, "idle", l) /\ Posted(c, "idle", l, count)
    BY <1>2 DEF Follows, Posted
  <1> QED BY <1>1, <1>2, <1>14, <1>15, <1>16 DEF Receiving

\* Quotient and remainder.
LEMMA Division ==
    ASSUME NEW v \in Nat, NEW len \in Nat, len > 0
    PROVE  v = len * (v \div len) + (v % len)
  OBVIOUS

\* Element i of the slice of rank p is the element of number j of the whole.
SliceHas(size, len, p, i, j) == p \in 0..size - 1 /\ i \in 1..len /\ p * len + i = j

\* The rank that has the element of number j of a whole tensor of `size` slices of length
\* len, and its number in the slice.
LEMMA SliceOf ==
    ASSUME NEW size \in Nat, NEW len \in Nat, len > 0, NEW j \in 1..size * len,
           NEW p, p = (j - 1) \div len, NEW i, i = ((j - 1) % len) + 1
    PROVE  SliceHas(size, len, p, i, j)
  <1>1. size * len \in Nat
    BY PieceFits
  <1>2. j \in Nat /\ j - 1 \in Nat /\ j <= size * len
    BY <1>1
  <1>3. (j - 1) % len \in 0..len - 1 /\ (j - 1) \div len \in Nat
    BY <1>2
  <1>4. j - 1 = len * ((j - 1) \div len) + ((j - 1) % len)
    BY <1>2, Division
  <1>5. p \in Nat /\ i \in 1..len /\ j = p * len + i
    BY <1>2, <1>3, <1>4
  <1>6. p < size
    <2>1. SUFFICES ASSUME p >= size PROVE FALSE
      BY <1>5
    <2>2. PICK h \in Nat : p = size + h
      <3>1. p - size \in Nat /\ p = size + (p - size)
        BY <1>5, <2>1
      <3> QED BY <3>1
    <2>3. p * len = size * len + h * len /\ h * len \in Nat
      BY <2>2
    <2> QED BY <1>1, <1>2, <1>5, <2>3
  <1> QED BY <1>5, <1>6 DEF SliceHas

\* The pieces of a tensor that is gathered, one after the other, are the tensor.
LEMMA JoinedIsWhole ==
    ASSUME NEW c \in Configs, c = config, NEW e, IsEntry(c, e), Cut(c, e), NEW k, NEW r \in Rank,
           NEW slices, \A p \in Rank : slices[p] = Piece(c, e, p, k), NEW s
    PROVE  Joined(slices, r) = TensorOf(e, s, k)
  <1>1. PICK size, l, len : size = c.size /\ l = e.numel /\ len = l \div size
    OBVIOUS
  <1>2. size \in Nat \ {0} /\ l \in Nat /\ l > 0 /\ l % size = 0 /\ Rank = 0..size - 1
    BY <1>1, ConfigFacts DEF Rank, Cut, IsEntry, Travels
  <1>3. len \in Nat /\ l = size * len
    BY <1>1, <1>2, Divided
  <1>4. len > 0
    <2>1. len = 0 => size * len = 0
      BY <1>2, <1>3
    <2> QED BY <1>2, <1>3, <2>1
  <1>5. ASSUME NEW p \in Rank
        PROVE  slices[p] = [i \in 1..len |-> Element(e, p, k, p * len + i)]
    BY <1>1 DEF Piece
  <1>6. Len(slices[r]) = len
    <2>1. PICK f, T : f = slices[r] /\ T = {Element(e, r, k, r * len + i) : i \in 1..len}
      OBVIOUS
    <2>2. f \in [1..len -> T]
      BY <1>5, <2>1
    <2> QED BY <1>3, <2>1, <2>2, SequenceFrom
  <1>7. ASSUME NEW p, NEW j PROVE Element(e, p, k, j) = Element(e, s, k, j)
    BY DEF Cut, IsEntry, Element, Travels
  <1>8. ASSUME NEW j \in 1..size * len
        PROVE  slices[(j - 1) \div len][((j - 1) % len) + 1] = Element(e, s, k, j)
    <2>1. PICK p, i : p = (j - 1) \div len /\ i = ((j - 1) % len) + 1
      OBVIOUS
    <2>2. p \in 0..size - 1 /\ i \in 1..len /\ p * len + i = j
      <3>1. SliceHas(size, len, p, i, j)
        BY <1>2, <1>3, <1>4, <2>1, SliceOf
      <3> QED BY <3>1 DEF SliceHas
    <2>3. slices[p][i] = Element(e, p, k, p * len + i)
      <3>1. p \in Rank
        BY <1>2, <2>2
      <3>2. slices[p] = [h \in 1..len |-> Element(e, p, k, p * len + h)]
        BY <1>5, <3>1
      <3> QED BY <2>2, <3>2
    <2>4. slices[p][i] = Element(e, s, k, j)
      BY <1>7, <2>2, <2>3
    <2> QED BY <2>1, <2>4
  <1>9. Joined(slices, r) =
            [j \in 1..size * len |-> slices[(j - 1) \div len][((j - 1) % len) + 1]]
    BY <1>1, <1>6 DEF Joined
  <1>10. TensorOf(e, s, k) = [j \in 1..size * len |-> Element(e, s, k, j)]
    BY <1>1, <1>3 DEF TensorOf
  <1> QED BY <1>8, <1>9, <1>10

\* What a receiver has handed to the all-gather of place x.
LEMMA SliceAt ==
    ASSUME NEW c \in Configs, NEW s, NEW q, NEW m, NEW o, NEW a, Gathered(c, s, q, m, o, a),
           NEW x \in Cuts(c), NEW l, l = Before(Cuts(c), x) + 1, l <= Len(a)
    PROVE  a[l] = Piece(c, c.plan[x[1]][x[2]], s, x[1])
  <1>1. IsPlaces(Cuts(c)) /\ Before(Cuts(c), x) \in Nat /\ Len(a) \in Nat
    BY CutFacts, BeforeType, SequenceFacts DEF Gathered
  <1>2. l \in 1..Len(a)
    BY <1>1
  <1>3. PICK y \in Cuts(c) : l = Before(Cuts(c), y) + 1 /\ a[l] = Piece(c, c.plan[y[1]][y[2]], s, y[1])
    BY <1>2 DEF Gathered
  <1>4. Before(Cuts(c), y) \in Nat
    BY <1>1, BeforeType
  <1>5. Before(Cuts(c), y) = Before(Cuts(c), x)
    BY <1>1, <1>3, <1>4
  <1>6. x = y
    BY <1>1, <1>5, BeforeUnique
  <1> QED BY <1>3, <1>6

\* All members of the stage have come with their slices of the same tensor.
LEMMA LeaveGatherKeeps ==
    ASSUME IInv, NEW r \in Receiver, LeaveGather(r)
    PROVE  IInv'
  <1>1. PICK c, s, n, p : c = config /\ s = From(r) /\ n = sent[From(r)] /\ p = spc[From(r)]
    OBVIOUS
  <1>2. PICK d, o, count, a, k : /\ d = received[r] /\ o = open[r] /\ k = Len(d) + 1
                                 /\ count = posted[r] /\ a = gathers[r]
    OBVIOUS
  <1>3. /\ rpc[r] = "gathering" /\ rpc' = [rpc EXCEPT ![r] = "idle"]
        /\ \A t \in Receiver : Len(gathers[t]) >= Len(a)
        /\ UNCHANGED <<config, sent, spc, chan>> /\ UNCHANGED <<posted, gathers, received>>
    BY <1>2 DEF LeaveGather
  <1>4. /\ c \in Configs /\ Program(c, n, p) /\ r \in Rank
        /\ Receiving(c, s, n, p, "gathering", d, o, count, a) /\ DOMAIN count = Group
    BY <1>1, <1>2, <1>3, ReceiverFacts
  <1>5. PICK S, i : S = Left(c, k, o[1].todo) /\ i = Least(S)
    OBVIOUS
  <1>6. /\ k \in 1..Len(c.plan) /\ ~Rejects(c, k) /\ Begun(c, s, k, o[1])
        /\ Gathering(c, k, o, a, i)
    <2>1. Gathering(c, k, o, a, i)
      BY <1>2, <1>4, <1>5, GatheringFacts
    <2>2. o # <<>>
      BY <2>1 DEF Gathering
    <2> QED BY <1>2, <1>4, <2>1, <2>2, OldestFacts
  <1>7. ToGather(r) = S
    BY <1>1, <1>2, <1>4, <1>5, <1>6, ToGatherFacts
  <1>8. PICK e, l, x : e = c.plan[k][i] /\ l = Len(a) /\ x = <<k, i>>
    OBVIOUS
  <1>9. /\ Cut(c, e) /\ IsEntry(c, e) /\ x \in Cuts(c) /\ l = Before(Cuts(c), x) + 1
    <2>1. i \in DOMAIN c.plan[k] /\ Cut(c, e) /\ x \in Cuts(c) /\ l = Before(Cuts(c), x) + 1
      BY <1>6, <1>8 DEF Gathering
    <2>2. i \in 1..Len(c.plan[k])
      BY <1>4, <1>6, <2>1, ConfigFacts
    <2>3. IsEntry(c, e)
      BY <1>4, <1>6, <1>8, <2>2, ConfigFacts
    <2> QED BY <2>1, <2>3
  <1>10. ASSUME NEW t \in Rank
         PROVE  gathers[t][l] = Piece(c, e, t, k)
    <2>1. t \in Receiver /\ From(t) = t
      BY <1>1, <1>9 DEF Cut, Receiver, From
    <2>2. Gathered(c, t, rpc[t], Len(received[t]), open[t], gathers[t])
      BY <1>1, <2>1, ReceiverFacts DEF Receiving
    <2>3. l <= Len(gathers[t])
      <3>1. IsSeq(a) /\ IsSeq(gathers[t])
        BY <1>4, <2>2 DEF Receiving, Gathered
      <3>2. Len(a) \in Nat /\ Len(gathers[t]) \in Nat
        BY <3>1, SequenceFacts
      <3>3. Len(gathers[t]) >= Len(a)
        BY <1>3, <2>1
      <3> QED BY <1>8, <3>2, <3>3
    <2>4. gathers[t][l] = Piece(c, c.plan[x[1]][x[2]], t, x[1])
      BY <1>4, <1>9, <2>2, <2>3, SliceAt
    <2> QED BY <1>8, <2>4
  <1>11. PICK slices, whole : /\ slices = [t \in Rank |-> gathers[t][l]]
                              /\ whole = Joined(slices, r)
    OBVIOUS
  <1>12. whole = TensorOf(e, s, k)
    <2>1. \A t \in Rank : slices[t] = Piece(c, e, t, k)
      BY <1>10, <1>11
    <2> QED BY <1>1, <1>4, <1>9, <1>11, <2>1, JoinedIsWhole
  <1>13. PICK new : new = [buffers |-> [o[1].buffers EXCEPT ![i].value = whole], todo |-> i + 1]
    OBVIOUS
  <1>14. open' = [open EXCEPT ![r] = FirstIs(o, new)]
    <2>1. open' = [open EXCEPT ![r][1] = new]
      BY <1>2, <1>5, <1>7, <1>8, <1>11, <1>13 DEF LeaveGather, Bound
    <2> QED BY <1>2, <2>1 DEF FirstIs
  <1>15. /\ Sets(open, open', r, FirstIs(o, new)) /\ Sets(received, received', r, d)
         /\ Sets(gathers, gathers', r, a) /\ Sets(rpc, rpc', r, "idle")
         /\ Sets(posted, posted', r, count)
    BY <1>2, <1>3, <1>14, ReceiverFacts, SetFacts
  <1>16. Receiving(c, s, n, p, "idle", d, FirstIs(o, new), count, a)
    BY <1>2, <1>4, <1>5, <1>8, <1>12, <1>13, TensorIsWhole
  <1> QED BY <1>1, <1>3, <1>4, <1>15, <1>16, ReceiverStep

\* What the caller gets of a dictionary that is open.
Delivered(d) ==
    [i \in DOMAIN d.buffers |-> [key |-> d.buffers[i].entry.key, value |-> d.buffers[i].value]]

\* When nothing is left to put together, that is the dictionary of its source.
LEMMA DictionaryIsComplete ==
    ASSUME NEW c \in Configs, NEW s, NEW k \in 1..Len(c.plan), NEW d, Begun(c, s, k, d),
           d.todo # 0, Left(c, k, d.todo) = {}
    PROVE  Delivered(d) = DictOf(c, s, k)
  <1>1. DOMAIN d.buffers = DOMAIN c.plan[k] /\ d.todo \in Nat
    BY DEF Begun
  <1>2. ASSUME NEW i \in DOMAIN c.plan[k]
        PROVE  [key |-> d.buffers[i].entry.key, value |-> d.buffers[i].value] = DictOf(c, s, k)[i]
    <2>1. PICK e, b : e = c.plan[k][i] /\ b = d.buffers[i]
      OBVIOUS
    <2>2. Entry(c, s, k, i, d.todo, b)
      BY <2>1 DEF Begun
    <2>3. IsEntry(c, e)
      <3>1. i \in 1..Len(c.plan[k])
        BY ConfigFacts
      <3> QED BY <2>1, <3>1, ConfigFacts
    <2>4. b.value = IF e.tensor THEN TensorOf(e, s, k) ELSE e.value
      <3>1. CASE ~e.tensor
        BY <2>1, <2>2, <3>1 DEF Entry
      <3>2. CASE e.tensor /\ e.numel = 0
        <4>1. b.value = <<>>
          BY <2>1, <2>2, <3>2 DEF Entry
        <4>2. TensorOf(e, s, k) = <<>>
          BY <3>2 DEF TensorOf
        <4> QED BY <3>2, <4>1, <4>2
      <3>3. CASE e.tensor /\ e.numel # 0
        <4>1. Travels(e) /\ d.todo > 0
          BY <1>1, <2>3, <3>3 DEF IsEntry, Travels
        <4>2. ~(Cut(c, e) /\ i >= d.todo)
          BY <2>1 DEF Left
        <4>3. b.value = TensorOf(e, s, k)
          BY <2>1, <2>2, <4>1, <4>2 DEF Entry
        <4> QED BY <3>3, <4>3
      <3> QED BY <3>1, <3>2, <3>3
    <2>5. b.entry = e
      BY <2>1, <2>2 DEF Entry
    <2>6. DictOf(c, s, k)[i] =
            [key |-> e.key, value |-> IF e.tensor THEN TensorOf(e, s, k) ELSE e.value]
      BY <2>1 DEF DictOf
    <2> QED BY <2>1, <2>4, <2>5, <2>6
  <1>3. DOMAIN DictOf(c, s, k) = DOMAIN c.plan[k] /\ DOMAIN Delivered(d) = DOMAIN c.plan[k]
    BY <1>1 DEF DictOf, Delivered
  <1>4. \A i \in DOMAIN c.plan[k] : Delivered(d)[i] = DictOf(c, s, k)[i]
    BY <1>1, <1>2 DEF Delivered
  <1>5. /\ Delivered(d) = [i \in DOMAIN c.plan[k] |-> Delivered(d)[i]]
        /\ DictOf(c, s, k) = [i \in DOMAIN c.plan[k] |-> DictOf(c, s, k)[i]]
    BY <1>1 DEF Delivered, DictOf
  <1> QED BY <1>4, <1>5

\* The oldest dictionary goes to the caller.
LEMMA DictionaryIsDelivered ==
    ASSUME NEW c \in Configs, NEW s, NEW n, NEW p, Program(c, n, p), NEW d, NEW o, NEW count,
           NEW a, Receiving(c, s, n, p, "idle", d, o, count, a), o # <<>>,
           NEW k, k = Len(d) + 1, Left(c, k, o[1].todo) = {}, NEW v
    PROVE  Receiving(c, s, n, p, "idle", Append(d, v), Tail(o), count, a)
  <1>1. PICK m, l, todo, e, b : /\ m = Len(d) /\ l = Len(d) + Len(o) /\ todo = o[1].todo
                                /\ e = Tail(o) /\ b = Append(d, v)
    OBVIOUS
  <1>2. /\ k \in 1..Len(c.plan) /\ k \in Nat /\ Begun(c, s, k, o[1])
        /\ m \in Nat /\ Len(o) \in Nat /\ Len(o) >= 1
    BY <1>1, OldestFacts
  <1>3. /\ Follows(c, n, p, "idle", l) /\ Posted(c, "idle", l, count)
        /\ Opened(c, s, m, o) /\ Gathered(c, s, "idle", m, o, a) /\ IsSeq(d)
    BY <1>1 DEF Receiving
  <1>4. IsSeq(b) /\ Len(b) = m + 1 /\ Len(b) = k
    BY <1>1, <1>3, Appending
  <1>5. /\ IsSeq(e) /\ Len(e) = Len(o) - 1 /\ (e = <<>> <=> Len(e) = 0)
        /\ \A i \in 1..Len(o) - 1 : e[i] = o[i + 1]
    BY <1>1, <1>3, Shortening, SequenceFacts DEF Opened
  <1>6. Len(b) + Len(e) = l
    BY <1>1, <1>2, <1>4, <1>5
  <1>7. Opened(c, s, k, e)
    <2>1. Len(e) <= c.window
      <3>1. Len(o) <= c.window /\ c.window \in Nat
        BY <1>3, ConfigFacts DEF Opened
      <3> QED BY <1>2, <1>5, <3>1
    <2>2. ASSUME NEW j \in 1..Len(e)
          PROVE  Begun(c, s, k + j, e[j]) /\ (j >= 2 => (k + j \notin c.bare => e[j].todo = 0))
      <3>1. PICK i : i = j + 1
        OBVIOUS
      <3>2. i \in 1..Len(o) /\ i \in 2..Len(o) /\ e[j] = o[i] /\ k + j = m + i
        BY <1>1, <1>2, <1>5, <3>1
      <3> QED BY <1>3, <3>2 DEF Opened
    <2>3. \A j \in 2..Len(e) : j \in 1..Len(e) /\ j >= 2
      BY <1>2, <1>5
    <2> QED BY <1>5, <2>1, <2>2, <2>3 DEF Opened
  <1>8. Before(Cuts(c), Reached(k, e)) = Before(Cuts(c), Reached(m, o))
    <2>1. PICK t, y, w, z : /\ t = (IF e = <<>> THEN 0 ELSE e[1].todo)
                            /\ y = <<k, todo>> /\ w = <<k + 1, 0>> /\ z = <<k + 1, t>>
      OBVIOUS
    <2>2. Reached(m, o) = y /\ Reached(k, e) = z
      BY <1>1, <2>1 DEF Reached
    <2>3. Before(Cuts(c), w) = Before(Cuts(c), y)
      <3>1. todo \in Nat
        BY <1>1, <1>2 DEF Begun
      <3>2. LeftCounts(c, k, todo, Left(c, k, todo))
        BY <1>2, <3>1, LeftFacts
      <3> QED BY <1>1, <2>1, <3>2 DEF LeftCounts
    <2>4. Before(Cuts(c), w) = Before(Cuts(c), z)
      <3>1. k + 1 \notin c.bare => t = 0
        <4>1. CASE e = <<>>
          BY <2>1, <4>1
        <4>2. CASE e # <<>>
          <5>1. 1 \in 1..Len(o) - 1 /\ 2 \in 2..Len(o)
            BY <1>2, <1>5, <4>2
          <5>2. e[1] = o[2] /\ k + 1 = m + 2
            BY <1>1, <1>2, <1>5, <5>1
          <5>3. m + 2 \notin c.bare => o[2].todo = 0
            BY <1>3, <5>1 DEF Opened
          <5> QED BY <2>1, <4>2, <5>2, <5>3
        <4> QED BY <4>1, <4>2
      <3>2. ASSUME NEW x \in Cuts(c)
            PROVE  Earlier(x, w) <=> Earlier(x, z)
        <4>1. x = <<x[1], x[2]>> /\ x[1] \in Int /\ x[2] \in Int /\ x[2] >= 1 /\ x[1] \notin c.bare
          BY CutPlaces, BareIsNotCut
        <4>2. x[1] = k + 1 => t = 0
          BY <3>1, <4>1
        <4> QED BY <2>1, <4>1, <4>2 DEF Earlier
      <3> QED BY <3>2, BeforeSame
    <2> QED BY <2>2, <2>3, <2>4
  <1>9. Gathered(c, s, "idle", k, e, a)
    BY <1>3, <1>8 DEF Gathered
  <1> QED BY <1>1, <1>3, <1>4, <1>6, <1>7, <1>9 DEF Receiving

\* What a receiver gets.
LEMMA DeliverFacts ==
    ASSUME IInv, NEW r \in Receiver, Deliver(r)
    PROVE  /\ Len(received[r]) + 1 \in 1..Len(Plan)
           /\ received' = [received EXCEPT ![r] =
                    Append(received[r], DictOf(config, From(r), Len(received[r]) + 1))]
           /\ Left(config, Len(received[r]) + 1, open[r][1].todo) = {}
  <1>1. PICK c, s, n, p : c = config /\ s = From(r) /\ n = sent[From(r)] /\ p = spc[From(r)]
    OBVIOUS
  <1>2. PICK d, o, k : d = received[r] /\ o = open[r] /\ k = Len(d) + 1
    OBVIOUS
  <1>3. rpc[r] = "idle" /\ o # <<>> /\ o[1].todo # 0 /\ ToGather(r) = {}
    BY <1>2 DEF Deliver
  <1>4. /\ c \in Configs /\ Program(c, n, p)
        /\ Receiving(c, s, n, p, "idle", d, o, posted[r], gathers[r])
    BY <1>1, <1>2, <1>3, ReceiverFacts
  <1>5. k \in 1..Len(c.plan) /\ ~Rejects(c, k) /\ Begun(c, s, k, o[1])
    BY <1>2, <1>3, <1>4, OldestFacts
  <1>6. Left(c, k, o[1].todo) = {}
    BY <1>1, <1>2, <1>3, <1>4, <1>5, ToGatherFacts
  <1>7. Delivered(o[1]) = DictOf(c, s, k)
    BY <1>3, <1>4, <1>5, <1>6, DictionaryIsComplete
  <1>8. received' = [received EXCEPT ![r] = Append(d, Delivered(o[1]))]
    BY <1>2 DEF Deliver, Delivered
  <1> QED BY <1>1, <1>2, <1>5, <1>6, <1>7, <1>8 DEF Plan

\* The oldest dictionary is complete.
LEMMA DeliverKeeps ==
    ASSUME IInv, NEW r \in Receiver, Deliver(r)
    PROVE  IInv'
  <1>1. PICK c, s, n, p : c = config /\ s = From(r) /\ n = sent[From(r)] /\ p = spc[From(r)]
    OBVIOUS
  <1>2. PICK d, o, count, a, k : /\ d = received[r] /\ o = open[r] /\ k = Len(d) + 1
                                 /\ count = posted[r] /\ a = gathers[r]
    OBVIOUS
  <1>3. /\ rpc[r] = "idle" /\ o # <<>> /\ open' = [open EXCEPT ![r] = Tail(o)]
        /\ UNCHANGED <<config, sent, spc, chan>> /\ UNCHANGED <<posted, rpc, gathers>>
    BY <1>2 DEF Deliver
  <1>4. /\ c \in Configs /\ Program(c, n, p)
        /\ Receiving(c, s, n, p, "idle", d, o, count, a) /\ DOMAIN count = Group
    BY <1>1, <1>2, <1>3, ReceiverFacts
  <1>5. PICK v : v = DictOf(c, s, k)
    OBVIOUS
  <1>6. received' = [received EXCEPT ![r] = Append(d, v)] /\ Left(c, k, o[1].todo) = {}
    BY <1>1, <1>2, <1>5, DeliverFacts
  <1>7. /\ Sets(open, open', r, Tail(o)) /\ Sets(received, received', r, Append(d, v))
        /\ Sets(gathers, gathers', r, a) /\ Sets(rpc, rpc', r, "idle")
        /\ Sets(posted, posted', r, count)
    BY <1>2, <1>3, <1>6, ReceiverFacts, SetFacts
  <1>8. Receiving(c, s, n, p, "idle", Append(d, v), Tail(o), count, a)
    BY <1>2, <1>3, <1>4, <1>6, DictionaryIsDelivered
  <1> QED BY <1>1, <1>3, <1>4, <1>7, <1>8, ReceiverStep

---------------------------------------------------------------------------
(* The invariant.                                                          *)

\* Nothing is before the first dictionary.
LEMMA NothingBefore ==
    ASSUME NEW S, NEW y, \A x \in S : ~Earlier(x, y)
    PROVE  Before(S, y) = 0
  <1>1. {x \in S : Earlier(x, y)} = {}
    OBVIOUS
  <1> QED BY <1>1, FS_EmptySet DEF Before

\* At the start nothing has been sent or received.
LEMMA InitInvariance == Init => IInv
  <1>1. SUFFICES ASSUME Init PROVE IInv
    OBVIOUS
  <1>2. PICK c : c = config
    OBVIOUS
  <1>3. c \in Configs /\ c.size \in Nat /\ c.size >= 2 /\ Len(c.plan) \in Nat /\ c.window \in Nat
    BY <1>1, <1>2, ConfigFacts DEF Init
  <1>4. Receiver \subseteq Rank /\ Sender \subseteq Rank /\ \A r \in Receiver : From(r) \in Rank
    BY <1>2, <1>3 DEF Receiver, Sender, From, Rank
  <1>5. Domains
    BY <1>1 DEF Init, Domains
  <1>6. Program(c, 0, "idle")
    BY <1>3 DEF Program
  <1>7. PICK q, count : q = [g \in Group |-> <<>>] /\ count = [g \in Group |-> 0]
    OBVIOUS
  <1>8. IsSeq(<<>>) /\ Len(<<>>) = 0
    BY EmptySeq, SequenceOver
  <1>9. PICK y, z : y = <<1, -1>> /\ z = <<1, 0>>
    OBVIOUS
  <1>10. ASSUME NEW g \in Group
         PROVE  /\ \A x \in Messages(c, g) : ~Earlier(x, y)
                /\ Before(Messages(c, g), y) = 0
    <2>1. ASSUME NEW x \in Messages(c, g)
          PROVE  ~Earlier(x, y)
      <3>1. /\ x[1] \in 1..Len(c.plan) /\ x[2] \in Slots(c, g, x[1])
            /\ x[1] \in Int /\ x[2] \in Int
        BY <1>3, MessageFacts, PlaceFacts
      <3>2. x[2] \in -1..Len(c.plan[x[1]])
        BY <1>3, <3>1, SlotFacts
      <3> QED BY <1>3, <1>9, <3>1, <3>2 DEF Earlier
    <2> QED BY <2>1, NothingBefore
  <1>11. Before(Cuts(c), z) = 0
    <2>1. ASSUME NEW x \in Cuts(c)
          PROVE  ~Earlier(x, z)
      <3>1. x[1] \in 1..Len(c.plan)
        BY <1>3, CutFacts
      <3>2. x[2] \in Int /\ x[2] >= 1
        BY <1>3, CutPlaces
      <3> QED BY <1>3, <1>9, <3>1, <3>2 DEF Earlier
    <2> QED BY <2>1, NothingBefore
  <1>12. ASSUME NEW s
         PROVE  Stream(c, s, 0, "idle", q)
    <2>1. Limit(0, "idle") = y
      BY <1>9 DEF Limit
    <2>2. ASSUME NEW g \in Group
          PROVE  /\ IsSeq(q[g]) /\ Len(q[g]) = Before(Messages(c, g), y)
                 /\ Holds(c, s, g, y, q[g])
      <3>1. q[g] = <<>>
        BY <1>7
      <3>2. Holds(c, s, g, y, q[g])
        BY <1>10 DEF Holds
      <3> QED BY <1>8, <1>10, <3>1, <3>2
    <2> QED BY <2>1, <2>2 DEF Stream
  <1>13. ASSUME NEW s
         PROVE  Receiving(c, s, 0, "idle", "idle", <<>>, <<>>, count, <<>>)
    <2>1. Follows(c, 0, "idle", "idle", Len(<<>>) + Len(<<>>))
      BY <1>8 DEF Follows
    <2>2. Posted(c, "idle", Len(<<>>) + Len(<<>>), count)
      BY <1>7, <1>8, <1>9, <1>10 DEF Posted
    <2>3. Opened(c, s, Len(<<>>), <<>>)
      BY <1>3, <1>8 DEF Opened
    <2>4. Gathered(c, s, "idle", Len(<<>>), <<>>, <<>>)
      <3>1. Reached(Len(<<>>), <<>>) = z
        BY <1>8, <1>9 DEF Reached
      <3> QED BY <1>8, <1>11, <3>1 DEF Gathered
    <2> QED BY <1>8, <2>1, <2>2, <2>3, <2>4 DEF Receiving
  <1>14. ASSUME NEW s \in Rank PROVE SenderInv(s) /\ IdleSender(s)
    BY <1>1, <1>2, <1>6 DEF Init, SenderInv, IdleSender
  <1>15. ASSUME NEW r \in Rank
         PROVE  /\ From(r) \in Rank => ReceiverInv(r)
                /\ IdleReceiver(r)
    <2>1. /\ chan[r] = q /\ posted[r] = count /\ open[r] = <<>> /\ rpc[r] = "idle"
          /\ gathers[r] = <<>> /\ received[r] = <<>>
      BY <1>1, <1>7 DEF Init
    <2>2. From(r) \in Rank => sent[From(r)] = 0 /\ spc[From(r)] = "idle"
      BY <1>1 DEF Init
    <2> QED BY <1>2, <1>12, <1>13, <2>1, <2>2 DEF ReceiverInv, IdleReceiver
  <1> QED BY <1>2, <1>3, <1>4, <1>5, <1>14, <1>15 DEF IInv

\* Every step keeps the invariant.
LEMMA StepInvariance == IInv /\ [Next]_vars => IInv'
  <1>1. SUFFICES ASSUME IInv, [Next]_vars
                 PROVE  IInv'
    OBVIOUS
  <1>2. ASSUME NEW s \in Rank, Send(s)
        PROVE  IInv'
    <2>1. s \in Sender
      BY <1>2 DEF Send
    <2>2. CASE SendMetadata(s)
      BY <1>1, <2>1, <2>2, SendMetadataKeeps
    <2>3. CASE SendObject(s)
      BY <1>1, <2>1, <2>3, SendObjectKeeps
    <2>4. CASE SendTensors(s)
      BY <1>1, <2>1, <2>4, SendTensorsKeeps
    <2>5. CASE SendBare(s)
      BY <1>1, <2>1, <2>5, SendBareKeeps
    <2> QED BY <1>2, <2>2, <2>3, <2>4, <2>5 DEF Send
  <1>3. ASSUME NEW r \in Rank, Receive(r)
        PROVE  IInv'
    <2>1. r \in Receiver
      BY <1>3 DEF Receive
    <2>2. CASE ReceiveSize(r)
      BY <1>1, <2>1, <2>2, ReceiveSizeKeeps
    <2>3. CASE ReceiveMetadata(r)
      BY <1>1, <2>1, <2>3, ReceiveMetadataKeeps
    <2>4. CASE ReceiveBare(r)
      BY <1>1, <2>1, <2>4, ReceiveBareKeeps
    <2>5. CASE WaitHandles(r)
      BY <1>1, <2>1, <2>5, WaitHandlesKeeps
    <2>6. CASE EnterGather(r)
      BY <1>1, <2>1, <2>6, EnterGatherKeeps
    <2>7. CASE LeaveGather(r)
      BY <1>1, <2>1, <2>7, LeaveGatherKeeps
    <2>8. CASE Deliver(r)
      BY <1>1, <2>1, <2>8, DeliverKeeps
    <2> QED BY <1>3, <2>2, <2>3, <2>4, <2>5, <2>6, <2>7, <2>8 DEF Receive
  <1>4. CASE UNCHANGED vars
    <2>1. /\ config' = config /\ sent' = sent /\ spc' = spc /\ chan' = chan /\ posted' = posted
          /\ open' = open /\ rpc' = rpc /\ gathers' = gathers /\ received' = received
      BY <1>4 DEF vars
    <2>2. /\ Rank' = Rank /\ Receiver' = Receiver /\ Sender' = Sender
          /\ \A t : From(t)' = From(t)
      BY <2>1 DEF Rank, Receiver, Sender, From
    <2> QED BY <1>1, <2>1, <2>2
        DEF IInv, Domains, SenderInv, ReceiverInv, IdleSender, IdleReceiver
  <1> QED BY <1>1, <1>2, <1>3, <1>4 DEF Next, Done

\* For every set of deployments and programs: channels hold what was sent, in the order of
\* the program, and receivers have opened, gathered and received accordingly.
THEOREM Invariance == Spec => []IInv
  BY InitInvariance, StepInvariance, PTL DEF Spec

---------------------------------------------------------------------------
(* What follows.                                                           *)

\* Receivers never run ahead of what the metadata announced.
LEMMA InvariantHasType == IInv => TypeOK
  <1>1. SUFFICES ASSUME IInv, NEW r \in Rank
                 PROVE  /\ sent[r] \in 0..Len(Plan)
                        /\ spc[r] \in {"idle", "object", "tensors", "raised"}
                        /\ rpc[r] \in {"idle", "object", "gathering", "raised"}
                        /\ Len(open[r]) <= config.window
                        /\ Len(received[r]) + Len(open[r]) <= sent[From(r)]
    BY DEF IInv, TypeOK
  <1>2. config \in Configs /\ config.size \in Nat /\ config.size >= 2 /\ config.window \in Nat
    BY <1>1, ConfigFacts DEF IInv
  <1>3. ASSUME NEW t \in Rank
        PROVE  /\ sent[t] \in 0..Len(Plan) /\ sent[t] \in Int /\ sent[t] >= 0
               /\ spc[t] \in {"idle", "object", "tensors", "raised"}
    BY <1>1 DEF IInv, SenderInv, Program, Plan
  <1>4. CASE r \in Receiver
    <2>1. Receiving(config, From(r), sent[From(r)], spc[From(r)],
                    rpc[r], received[r], open[r], posted[r], gathers[r])
      BY <1>1, <1>4, ReceiverFacts
    <2>2. /\ rpc[r] \in {"idle", "object", "gathering", "raised"}
          /\ Len(received[r]) + Len(open[r]) \in 0..sent[From(r)]
          /\ Len(open[r]) <= config.window
      BY <2>1 DEF Receiving, Follows, Opened
    <2>3. sent[From(r)] \in Int
      BY <1>1, <1>3, <1>4, ReceiverFacts
    <2>4. PICK l, n : l = Len(received[r]) + Len(open[r]) /\ n = sent[From(r)]
      OBVIOUS
    <2>5. l <= n
      <3>1. l \in 0..n /\ n \in Int
        BY <2>2, <2>3, <2>4, Zenon
      <3> QED BY <3>1
    <2>6. sent[r] \in 0..Len(Plan) /\ spc[r] \in {"idle", "object", "tensors", "raised"}
      BY <1>1, <1>3
    <2> QED BY <2>2, <2>4, <2>5, <2>6, Zenon
  <1>5. CASE r \notin Receiver
    <2>1. rpc[r] = "idle" /\ open[r] = <<>> /\ received[r] = <<>>
      BY <1>1, <1>5 DEF IInv, IdleReceiver
    <2>2. From(r) \in Rank
      BY <1>2 DEF From, Rank
    <2>3. sent[From(r)] >= 0 /\ sent[From(r)] \in Int
      BY <1>3, <2>2
    <2>4. Len(<<>>) = 0
      BY EmptySeq
    <2> QED BY <1>2, <1>3, <2>1, <2>3, <2>4
  <1> QED BY <1>4, <1>5

\* TypeOK holds in every state, for every set of deployments and programs.
THEOREM TypesHold == Spec => []TypeOK
  BY Invariance, InvariantHasType, PTL

\* Slices of the ranks r and p that were cut from one place of the program.
SamePlace(x, y, r, p) ==
    /\ Len(x) = Len(y)
    /\ \A i \in DOMAIN x :
        /\ x[i].dict = y[i].dict /\ x[i].key = y[i].key
        /\ x[i].at - y[i].at = (r - p) * Len(x)

\* How far two slices are apart.
LEMMA Apart ==
    ASSUME NEW r \in Int, NEW p \in Int, NEW m \in Int, NEW i \in Int
    PROVE  (r * m + i) - (p * m + i) = (r - p) * m
  <1>1. (r - p) * m = r * m - p * m /\ r * m \in Int /\ p * m \in Int
    OBVIOUS
  <1> QED BY <1>1

\* The pieces of two ranks are slices of one tensor.
LEMMA PiecesMatch ==
    ASSUME NEW c \in Configs, NEW e, IsEntry(c, e), Cut(c, e), NEW k, NEW r \in Int, NEW p \in Int
    PROVE  SamePlace(Piece(c, e, r, k), Piece(c, e, p, k), r, p)
  <1>1. PICK m : m = e.numel \div c.size
    OBVIOUS
  <1>2. m \in Nat
    BY <1>1, Divided, ConfigFacts DEF Cut, IsEntry, Travels
  <1>3. ASSUME NEW t \in Int
        PROVE  /\ Piece(c, e, t, k) = [i \in 1..m |-> Element(e, t, k, t * m + i)]
               /\ Len(Piece(c, e, t, k)) = m
    <2>1. PICK f : f = Piece(c, e, t, k)
      OBVIOUS
    <2>2. f = [i \in 1..m |-> Element(e, t, k, t * m + i)]
      BY <1>1, <2>1 DEF Piece
    <2>3. PICK T : T = {Element(e, t, k, t * m + i) : i \in 1..m}
      OBVIOUS
    <2>4. f \in [1..m -> T]
      BY <2>2, <2>3
    <2>5. Len(f) = m
      BY <1>2, <2>4, SequenceFrom
    <2> QED BY <2>1, <2>2, <2>5
  <1>4. PICK x, y : x = Piece(c, e, r, k) /\ y = Piece(c, e, p, k)
    OBVIOUS
  <1>5. /\ x = [i \in 1..m |-> Element(e, r, k, r * m + i)] /\ Len(x) = m
        /\ y = [i \in 1..m |-> Element(e, p, k, p * m + i)] /\ Len(y) = m
    BY <1>3, <1>4
  <1>6. ASSUME NEW i \in 1..m
        PROVE  /\ x[i].dict = y[i].dict /\ x[i].key = y[i].key
               /\ x[i].at - y[i].at = (r - p) * Len(x)
    <2>1. x[i] = Element(e, r, k, r * m + i) /\ y[i] = Element(e, p, k, p * m + i)
      BY <1>5
    <2>2. x[i].at = r * m + i /\ y[i].at = p * m + i
      BY <2>1 DEF Element
    <2>3. (r * m + i) - (p * m + i) = (r - p) * m
      BY <1>2, <1>6, Apart
    <2>4. x[i].dict = y[i].dict /\ x[i].key = y[i].key
      BY <2>1 DEF Element
    <2> QED BY <1>5, <2>2, <2>3, <2>4
  <1>7. DOMAIN x = 1..m
    BY <1>5
  <1> QED BY <1>4, <1>5, <1>6, <1>7 DEF SamePlace

\* What two receivers have handed to their n-th all-gather is of one tensor.
LEMMA GathersAgree ==
    ASSUME IInv, NEW r \in Receiver, NEW p \in Receiver,
           NEW n \in DOMAIN gathers[r] \cap DOMAIN gathers[p]
    PROVE  SamePlace(gathers[r][n], gathers[p][n], r, p)
  <1>1. PICK c, a, b : c = config /\ a = gathers[r] /\ b = gathers[p]
    OBVIOUS
  <1>2. /\ c \in Configs /\ r \in Rank /\ p \in Rank
        /\ Gathered(c, From(r), rpc[r], Len(received[r]), open[r], a)
        /\ Gathered(c, From(p), rpc[p], Len(received[p]), open[p], b)
    BY <1>1, ReceiverFacts DEF Receiving
  <1>3. n \in 1..Len(a) /\ n \in 1..Len(b) /\ n \in Int /\ Len(b) \in Int
    BY <1>1, <1>2, SequenceFacts DEF Gathered
  <1>4. PICK x \in Cuts(c) :
              /\ n = Before(Cuts(c), x) + 1
              /\ a[n] = Piece(c, c.plan[x[1]][x[2]], From(r), x[1])
    BY <1>2, <1>3 DEF Gathered
  <1>5. b[n] = Piece(c, c.plan[x[1]][x[2]], From(p), x[1])
    <2>1. n <= Len(b)
      BY <1>3
    <2> QED BY <1>2, <1>4, <2>1, SliceAt
  <1>6. PICK k, e : k = x[1] /\ e = c.plan[x[1]][x[2]]
    OBVIOUS
  <1>7. Cut(c, e) /\ IsEntry(c, e)
    <2>1. k \in 1..Len(c.plan) /\ x[2] \in 1..Len(c.plan[k]) /\ Cut(c, e)
      BY <1>2, <1>6, CutFacts
    <2> QED BY <1>2, <1>6, <2>1, ConfigFacts
  <1>8. From(r) = r /\ From(p) = p
    BY <1>1, <1>7 DEF Cut, From
  <1>9. r \in Int /\ p \in Int
    BY <1>1, <1>2, ConfigFacts DEF Rank
  <1>10. SamePlace(Piece(c, e, r, k), Piece(c, e, p, k), r, p)
    BY <1>2, <1>7, <1>9, PiecesMatch
  <1> QED BY <1>1, <1>4, <1>5, <1>6, <1>8, <1>10

\* The receivers of a stage are in the same all-gather, for every set of deployments and
\* programs: their n-th contributions are slices of one tensor of one dictionary.
THEOREM GathersBelongTogether == Spec => []GathersMatch
  <1>1. IInv => GathersMatch
    BY GathersAgree DEF GathersMatch, SamePlace
  <1> QED BY <1>1, Invariance, PTL

---------------------------------------------------------------------------
(* The dictionaries come through as DictPipe promises.                     *)

Offered == [s \in Rank |-> [k \in DOMAIN Plan |-> Dict(s, k)]]
Sources == [r \in Rank |-> From(r)]

\* The variables of DictPipe.
LEMMA PipeState ==
    ASSUME config \in Configs
    PROVE  /\ DOMAIN Offered = Rank /\ DOMAIN Sources = Rank
           /\ \A s \in Rank : Len(Offered[s]) = Len(Plan)
           /\ \A s \in Rank : \A k \in 1..Len(Plan) : Offered[s][k] = DictOf(config, s, k)
           /\ \A r \in Rank : Sources[r] = From(r)
  <1>1. Len(Plan) \in Nat /\ DOMAIN Plan = 1..Len(Plan)
    BY ConfigFacts DEF Plan
  <1>2. PICK c, l : c = config /\ l = Len(Plan)
    OBVIOUS
  <1>3. ASSUME NEW s \in Rank
        PROVE  /\ Len(Offered[s]) = l
               /\ \A k \in 1..l : Offered[s][k] = DictOf(c, s, k)
    <2>1. \A k : Dict(s, k) = DictOf(c, s, k)
      BY <1>2 DEF Dict, DictOf, Plan
    <2>2. PICK f : f = [k \in 1..l |-> DictOf(c, s, k)]
      OBVIOUS
    <2>3. Offered[s] = f
      BY <1>1, <1>2, <2>1, <2>2 DEF Offered
    <2>4. PICK T : T = {DictOf(c, s, k) : k \in 1..l}
      OBVIOUS
    <2>5. f \in [1..l -> T]
      BY <2>2, <2>4
    <2>6. Len(f) = l
      BY <1>1, <1>2, <2>5, SequenceFrom
    <2> QED BY <2>2, <2>3, <2>6
  <1>4. DOMAIN Offered = Rank /\ DOMAIN Sources = Rank /\ \A r \in Rank : Sources[r] = From(r)
    BY DEF Offered, Sources
  <1> QED BY <1>2, <1>3, <1>4

\* Nobody changes what is offered to whom.
LEMMA PipeStays ==
    ASSUME config' = config
    PROVE  Offered' = Offered /\ Sources' = Sources
  BY DEF Offered, Sources, Rank, Plan, Dict, TensorOf, Element, From

\* At the start nothing is sent.
LEMMA InitImplements == Init => Pipe!Init
  <1>1. SUFFICES ASSUME Init PROVE Pipe!Init
    OBVIOUS
  <1>2. DOMAIN Offered = Rank /\ DOMAIN Sources = Rank
    BY DEF Offered, Sources
  <1>3. sent = [s \in Rank |-> 0] /\ received = [r \in Rank |-> <<>>]
    BY <1>1 DEF Init
  <1> QED BY <1>2, <1>3 DEF Pipe!Init, Offered, Sources

\* To send the metadata of a dictionary, or a bare tensor, is to send it.
LEMMA SendImplements ==
    ASSUME IInv, NEW s \in Sender, SendMetadata(s) \/ SendBare(s)
    PROVE  Pipe!Next
  <1>1. PICK n, l : n = sent[s] /\ l = Len(Plan)
    OBVIOUS
  <1>2. s \in Rank /\ config \in Configs /\ n \in Nat /\ l \in Nat
    BY <1>1, SenderFacts
  <1>3. n < l
    <2>1. CASE SendMetadata(s)
      BY <1>1, <2>1 DEF SendMetadata
    <2>2. CASE SendBare(s)
      <3>1. n + 1 \in config.bare
        BY <1>1, <2>2 DEF SendBare
      <3>2. n + 1 \in 1..l
        BY <1>1, <1>2, <3>1, ConfigFacts DEF Plan
      <3> QED BY <1>2, <3>2
    <2> QED BY <2>1, <2>2
  <1>4. sent' = [sent EXCEPT ![s] = n + 1] /\ config' = config /\ received' = received
    <2>1. CASE SendMetadata(s)
      BY <1>1, <2>1 DEF SendMetadata
    <2>2. CASE SendBare(s)
      BY <1>1, <2>2 DEF SendBare
    <2> QED BY <2>1, <2>2
  <1>5. Offered' = Offered /\ Sources' = Sources
    BY <1>4, PipeStays
  <1>6. s \in DOMAIN Offered /\ sent[s] < Len(Offered[s])
    BY <1>1, <1>2, <1>3, PipeState
  <1>7. sent' = [sent EXCEPT ![s] = @ + 1]
    BY <1>1, <1>4
  <1>8. Pipe!Send(s)
    BY <1>4, <1>5, <1>6, <1>7 DEF Pipe!Send, Offered, Sources
  <1> QED BY <1>6, <1>8 DEF Pipe!Next, Offered

\* To deliver a dictionary is to receive it.
LEMMA DeliverImplements ==
    ASSUME IInv, NEW r \in Receiver, Deliver(r)
    PROVE  Pipe!Next
  <1>1. PICK c, s, n, k : c = config /\ s = From(r) /\ n = sent[From(r)] /\ k = Len(received[r]) + 1
    OBVIOUS
  <1>2. rpc[r] = "idle" /\ open[r] # <<>> /\ UNCHANGED <<config, sent>>
    BY DEF Deliver
  <1>3. /\ c \in Configs /\ r \in Rank /\ s \in Rank /\ Program(c, n, spc[s])
        /\ Receiving(c, s, n, spc[s], "idle", received[r], open[r], posted[r], gathers[r])
    BY <1>1, <1>2, ReceiverFacts
  <1>4. k <= n
    BY <1>1, <1>2, <1>3, OldestFacts
  <1>5. /\ k \in 1..Len(Plan)
        /\ received' = [received EXCEPT ![r] = Append(received[r], DictOf(c, s, k))]
    BY <1>1, DeliverFacts
  <1>6. Offered' = Offered /\ Sources' = Sources
    BY <1>2, PipeStays
  <1>7. Sources[r] = s /\ Offered[s][k] = DictOf(c, s, k) /\ r \in DOMAIN Sources
    BY <1>1, <1>3, <1>5, PipeState
  <1>8. /\ Len(received[r]) + 1 <= sent[Sources[r]]
        /\ received' = [received EXCEPT ![r] = Append(@, Offered[Sources[r]][Len(received[r]) + 1])]
    BY <1>1, <1>4, <1>5, <1>7
  <1>9. Pipe!Receive(r)
    BY <1>2, <1>6, <1>8 DEF Pipe!Receive, Offered, Sources
  <1> QED BY <1>7, <1>9 DEF Pipe!Next, Sources

\* Whoever neither begins a dictionary nor delivers one does not show.
LEMMA OthersStutter ==
    ASSUME UNCHANGED <<config, sent, received>>
    PROVE  UNCHANGED (Pipe!vars)
  <1>1. Offered' = Offered /\ Sources' = Sources
    BY PipeStays
  <1> QED BY <1>1 DEF Pipe!vars, Offered, Sources

\* Every step is a step of DictPipe, or leaves its variables alone.
LEMMA StepImplements ==
    ASSUME IInv, [Next]_vars
    PROVE  [Pipe!Next]_(Pipe!vars)
  <1>1. ASSUME NEW s \in Rank, Send(s)
        PROVE  [Pipe!Next]_(Pipe!vars)
    <2>1. s \in Sender
      BY <1>1 DEF Send
    <2>2. CASE SendMetadata(s) \/ SendBare(s)
      BY <2>1, <2>2, SendImplements
    <2>3. CASE SendObject(s)
      BY <2>3, OthersStutter DEF SendObject
    <2>4. CASE SendTensors(s)
      BY <2>4, OthersStutter DEF SendTensors
    <2> QED BY <1>1, <2>2, <2>3, <2>4 DEF Send
  <1>2. ASSUME NEW r \in Rank, Receive(r)
        PROVE  [Pipe!Next]_(Pipe!vars)
    <2>1. r \in Receiver
      BY <1>2 DEF Receive
    <2>2. CASE Deliver(r)
      BY <2>1, <2>2, DeliverImplements
    <2>3. CASE ReceiveSize(r)
      BY <2>3, OthersStutter DEF ReceiveSize
    <2>4. CASE ReceiveMetadata(r)
      BY <2>4, OthersStutter DEF ReceiveMetadata
    <2>5. CASE ReceiveBare(r)
      BY <2>5, OthersStutter DEF ReceiveBare
    <2>6. CASE WaitHandles(r)
      BY <2>6, OthersStutter DEF WaitHandles
    <2>7. CASE EnterGather(r)
      BY <2>7, OthersStutter DEF EnterGather
    <2>8. CASE LeaveGather(r)
      BY <2>8, OthersStutter DEF LeaveGather
    <2> QED BY <1>2, <2>2, <2>3, <2>4, <2>5, <2>6, <2>7, <2>8 DEF Receive
  <1>3. CASE UNCHANGED vars
    BY <1>3, OthersStutter DEF vars
  <1> QED BY <1>1, <1>2, <1>3 DEF Next, Done

\* For every set of deployments and programs, receivers get the dictionaries of their
\* source whole, unchanged and in the order in which they were sent.
THEOREM Implementation == Spec => ImplementsPipe
  <1>1. IInv /\ [Next]_vars => [Pipe!Next]_(Pipe!vars)
    BY StepImplements
  <1> QED
    BY <1>1, InitImplements, Invariance, PTL DEF Spec, ImplementsPipe, Pipe!Spec
============================================================================
