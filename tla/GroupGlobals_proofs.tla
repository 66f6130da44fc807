------------------------ MODULE GroupGlobals_proofs ------------------------
(***************************************************************************)
(* Theorems about GroupGlobals, for every set of deployments and every     *)
(* bound on groups, failures and drafts: the globals of parallel_state in  *)
(* a process name usable groups of the right kind, whatever was built,     *)
(* failed, patched and torn down before.                                   *)
(***************************************************************************)
EXTENDS GroupGlobals, FiniteSetTheorems, SequenceTheorems, TLAPS

---------------------------------------------------------------------------
(* The inductive invariant.                                                *)

\* The names of groups: one for each global, and that of a draft model's.
Name == Kind \cup {"draft"}

\* A coordinator as the model keeps it.
Group == [name : Name, number : Nat, state : {"live", "destroyed", "gone", "failed"}]

\* The variables' types, with that of the groups.
Typed ==
    /\ groups \in Seq(Group)
    /\ active \in [Kind -> Id \cup {None}]
    /\ {initialized, nodeCount, patched} \subseteq BOOLEAN
    /\ patch \in [open : BOOLEAN, old : Id \cup {None}]
    /\ last \in [op : {"none", "ensure", "cleanup"}, ok : BOOLEAN]
    /\ deployment \in Deployments /\ failures \in 0..MaxFailures

\* A group's number is smaller than that of the next group of its name.
Numbered == \A i \in Id : groups[i].number < Number(groups[i].name)

\* Every global names a usable group of its kind, but for the tensor-parallel one while a
\* draft model's group takes its place; the group that was there before is kept aside.
Named ==
    /\ \A kind \in Kind \ {"inner"} :
        active[kind] # None =>
            /\ Live(active[kind])
            /\ groups[active[kind]].name = IF kind = "tp" /\ patch.open THEN "draft" ELSE kind
    /\ active["inner"] # None => groups[active["inner"]].name \in {"world", "inner"}
    /\ patch.open => /\ patched /\ active["tp"] # None
                     /\ Live(patch.old) /\ groups[patch.old].name = "tp"
    /\ ~patch.open => patch.old = None

\* Every usable group of the model is named by its global, or kept aside.
Held ==
    \A i \in Id :
        Live(i) /\ groups[i].name \in Destroyed =>
            \/ active[groups[i].name] = i
            \/ patch.open /\ patch.old = i

\* The globals are filled in their order, and all together unless a construction raises.
Filled ==
    \A i, j \in DOMAIN Order :
        active[Order[j]] # None /\ (i < j \/ failures = 0) => active[Order[i]] # None

\* Without the library there are no usable groups.
Down == ~initialized => \A i \in Id : ~Live(i)

\* The inductive invariant.
IInv ==
    /\ Typed /\ NamesAreUnique /\ Numbered /\ Named /\ Held /\ Filled /\ Down
    /\ EnsuredIsWhole /\ CleanupIsComplete

---------------------------------------------------------------------------
(* Facts about the operators.                                              *)

\* The kinds of groups that destroy_model_parallel takes down.
LEMMA DestroyFacts ==
    /\ Destroyed = {"tp", "dcp", "pcp", "pp", "dp", "ep", "eplb"}
    /\ Len(DestroyOrder) = 7 /\ DOMAIN DestroyOrder = 1..7
    /\ Kind = Destroyed \cup {"world", "inner"}
    /\ "world" \notin Destroyed /\ "inner" \notin Destroyed /\ "draft" \notin Kind
  <1>1. /\ DestroyOrder[1] = "tp" /\ DestroyOrder[2] = "dcp" /\ DestroyOrder[3] = "pcp"
        /\ DestroyOrder[4] = "pp" /\ DestroyOrder[5] = "dp" /\ DestroyOrder[6] = "ep"
        /\ DestroyOrder[7] = "eplb"
        /\ Len(DestroyOrder) = 7 /\ DOMAIN DestroyOrder = 1..7
    BY DEF DestroyOrder
  <1>2. Destroyed = {DestroyOrder[i] : i \in 1..7}
    BY <1>1 DEF Destroyed, Range
  <1>3. 1..7 = {1, 2, 3, 4, 5, 6, 7}
    OBVIOUS
  <1>4. Destroyed = {"tp", "dcp", "pcp", "pp", "dp", "ep", "eplb"}
    BY <1>1, <1>2, <1>3
  <1> QED BY <1>1, <1>4 DEF Kind

\* initialize_model_parallel names each kind once; the first five are always there.
LEMMA OrderFacts ==
    /\ Len(Order) \in 5..7 /\ DOMAIN Order = 1..Len(Order)
    /\ Order[1] = "tp" /\ Order[2] = "dcp" /\ Order[3] = "pcp" /\ Order[4] = "pp"
    /\ Order \in Seq(Destroyed)
    /\ \A i \in DOMAIN Order : Order[i] \in Destroyed
    /\ \A i, j \in DOMAIN Order : Order[i] = Order[j] => i = j
  <1>1. \/ Order = <<"tp", "dcp", "pcp", "pp", "dp">>
        \/ Order = <<"tp", "dcp", "pcp", "pp", "dp", "ep">>
        \/ Order = <<"tp", "dcp", "pcp", "pp", "dp", "ep", "eplb">>
    BY DEF Order
  <1>2. CASE Order = <<"tp", "dcp", "pcp", "pp", "dp">>
    BY <1>2, DestroyFacts
  <1>3. CASE Order = <<"tp", "dcp", "pcp", "pp", "dp", "ep">>
    BY <1>3, DestroyFacts
  <1>4. CASE Order = <<"tp", "dcp", "pcp", "pp", "dp", "ep", "eplb">>
    BY <1>4, DestroyFacts
  <1> QED BY <1>1, <1>2, <1>3, <1>4

\* The number of a new group is a natural number.
LEMMA NumberType ==
    ASSUME groups \in Seq(Group), NEW name
    PROVE  /\ Number(name) \in Nat
           /\ IsFiniteSet({i \in Id : groups[i].name = name})
  <1>1. IsFiniteSet(Id)
    BY FS_Interval DEF Id
  <1>2. IsFiniteSet({i \in Id : groups[i].name = name})
    BY <1>1, FS_Subset
  <1> QED BY <1>2, FS_CardinalityType DEF Number

\* Construction appends the new groups, all usable but perhaps the last, under the next
\* numbers of their names.
LEMMA ConstructedFacts ==
    ASSUME groups \in Seq(Group), NEW names \in Seq(Name), NEW ok \in BOOLEAN
    PROVE  /\ Constructed(names, ok) \in Seq(Group)
           /\ Len(Constructed(names, ok)) = Len(groups) + Len(names)
           /\ \A i \in Id : Constructed(names, ok)[i] = groups[i]
           /\ \A i \in 1..Len(names) :
                Constructed(names, ok)[Len(groups) + i] =
                    [name |-> names[i], number |-> Number(names[i]),
                     state |-> IF i < Len(names) \/ ok THEN "live" ELSE "failed"]
           /\ \A j \in 1..Len(groups) + Len(names) :
                j \in Id \/ \E i \in 1..Len(names) : j = Len(groups) + i
  <1> DEFINE new == [i \in DOMAIN names |-> New(names[i], i < Len(names) \/ ok)]
  <1>1. /\ DOMAIN names = 1..Len(names) /\ Len(names) \in Nat /\ Len(groups) \in Nat
        /\ Id = 1..Len(groups)
    BY DEF Id
  <1>2. ASSUME NEW i \in 1..Len(names)
        PROVE  /\ new[i] = [name |-> names[i], number |-> Number(names[i]),
                            state |-> IF i < Len(names) \/ ok THEN "live" ELSE "failed"]
               /\ new[i] \in Group
    <2>1. names[i] \in Name
      BY <1>1
    <2>2. Number(names[i]) \in Nat
      BY NumberType
    <2> QED BY <1>1, <2>1, <2>2 DEF New, Group
  <1>3. new \in Seq(Group) /\ Len(new) = Len(names)
    <2>1. new \in [1..Len(names) -> Group]
      BY <1>1, <1>2
    <2> HIDE DEF new
    <2> QED BY <1>1, <2>1
  <1> HIDE DEF new
  <1>4. Constructed(names, ok) = groups \o new
    BY Zenon DEF Constructed, new
  <1>5. PICK seq \in Seq(Group) :
            /\ Constructed(names, ok) = groups \o seq /\ Len(seq) = Len(names)
            /\ \A i \in 1..Len(names) :
                 seq[i] = [name |-> names[i], number |-> Number(names[i]),
                           state |-> IF i < Len(names) \/ ok THEN "live" ELSE "failed"]
    BY <1>2, <1>3, <1>4, Zenon
  <1>6. /\ groups \o seq \in Seq(Group)
        /\ Len(groups \o seq) = Len(groups) + Len(seq)
        /\ \A i \in 1..Len(groups) : (groups \o seq)[i] = groups[i]
        /\ \A i \in 1..Len(seq) : (groups \o seq)[Len(groups) + i] = seq[i]
    OBVIOUS
  <1>7. ASSUME NEW j \in 1..Len(groups) + Len(names), j \notin Id
        PROVE  \E i \in 1..Len(names) : j = Len(groups) + i
    <2>1. j - Len(groups) \in 1..Len(names) /\ j = Len(groups) + (j - Len(groups))
      BY <1>1, <1>7
    <2> QED BY <2>1
  <1> QED BY <1>1, <1>5, <1>6, <1>7

\* The more groups, the higher the next number of a name; strictly so if one of the new
\* groups has that name.
LEMMA NumberGrows ==
    ASSUME groups \in Seq(Group), NEW g \in Seq(Group), Len(groups) <= Len(g),
           \A i \in Id : g[i].name = groups[i].name, NEW name
    PROVE  /\ Number(name) \in Nat
           /\ Cardinality({i \in 1..Len(g) : g[i].name = name}) \in Nat
           /\ Number(name) <= Cardinality({i \in 1..Len(g) : g[i].name = name})
           /\ \A k \in 1..Len(g) :
                k \notin Id /\ g[k].name = name =>
                    Number(name) < Cardinality({i \in 1..Len(g) : g[i].name = name})
  <1> DEFINE old == {i \in Id : groups[i].name = name}
             new == {i \in 1..Len(g) : g[i].name = name}
  <1>1. IsFiniteSet(1..Len(g))
    BY FS_Interval
  <1>2. IsFiniteSet(new)
    BY <1>1, FS_Subset
  <1>3. old \subseteq new
    BY DEF Id
  <1>4. \A k \in 1..Len(g) : k \notin Id /\ g[k].name = name => k \in new \ old
    OBVIOUS
  <1>5. IsFiniteSet(old)
    BY NumberType
  <1>6. Number(name) = Cardinality(old)
    BY DEF Number
  <1> HIDE DEF old, new
  <1>7. Cardinality(old) \in Nat /\ Cardinality(new) \in Nat /\ Cardinality(old) <= Cardinality(new)
    BY <1>2, <1>3, <1>5, FS_Subset, FS_CardinalityType
  <1>8. Cardinality(old) = Cardinality(new) => old = new
    BY <1>2, <1>3, FS_Subset
  <1>9. ASSUME NEW k \in 1..Len(g), k \notin Id, g[k].name = name
        PROVE  Cardinality(old) < Cardinality(new)
    <2>1. old # new
      BY <1>4, <1>9
    <2> QED BY <1>7, <1>8, <2>1
  <1> QED BY <1>6, <1>7, <1>9 DEF new

\* What a construction leaves: the groups there were, and the new ones, whose names have
\* not been given before.
Grown(names, ok) ==
    /\ groups' \in Seq(Group) /\ Id' = 1..Len(groups) + Len(names)
    /\ Id \subseteq Id' /\ Id = 1..Len(groups)
    /\ \A i \in Id : groups'[i] = groups[i]
    /\ \A i \in 1..Len(names) :
         /\ Len(groups) + i \in Id' \ Id
         /\ groups'[Len(groups) + i].name = names[i]
         /\ groups'[Len(groups) + i].state = IF i < Len(names) \/ ok THEN "live" ELSE "failed"
    /\ \A j \in Id' : j \in Id \/ \E i \in 1..Len(names) : j = Len(groups) + i
    /\ NamesAreUnique' /\ Numbered'

\* That is what a construction of groups of different names does.
LEMMA ConstructStep ==
    ASSUME groups \in Seq(Group), NamesAreUnique, Numbered,
           NEW names \in Seq(Name), NEW ok \in BOOLEAN,
           \A i, j \in 1..Len(names) : names[i] = names[j] => i = j,
           groups' = Constructed(names, ok)
    PROVE  Grown(names, ok)
  <1>1. /\ groups' \in Seq(Group)
        /\ Len(groups') = Len(groups) + Len(names)
        /\ \A i \in Id : groups'[i] = groups[i]
        /\ \A i \in 1..Len(names) :
             groups'[Len(groups) + i] =
                [name |-> names[i], number |-> Number(names[i]),
                 state |-> IF i < Len(names) \/ ok THEN "live" ELSE "failed"]
        /\ \A j \in 1..Len(groups) + Len(names) :
             j \in Id \/ \E i \in 1..Len(names) : j = Len(groups) + i
    BY ConstructedFacts
  <1>2. /\ Len(groups) \in Nat /\ Len(names) \in Nat /\ Id = 1..Len(groups)
        /\ Id' = 1..Len(groups) + Len(names) /\ Len(groups) <= Len(groups')
    BY <1>1 DEF Id
  <1>3. ASSUME NEW i \in 1..Len(names)
        PROVE  /\ Len(groups) + i \in Id' \ Id
               /\ groups'[Len(groups) + i].name = names[i]
               /\ groups'[Len(groups) + i].number = Number(names[i])
               /\ groups'[Len(groups) + i].state = IF i < Len(names) \/ ok THEN "live" ELSE "failed"
    <2>1. Len(groups) + i \in Id' \ Id
      BY <1>2
    <2>2. groups'[Len(groups) + i] = [name |-> names[i], number |-> Number(names[i]),
                                      state |-> IF i < Len(names) \/ ok THEN "live" ELSE "failed"]
      BY <1>1
    <2> QED BY <2>1, <2>2
  <1>4. \A j \in Id' : j \in Id \/ \E i \in 1..Len(names) : j = Len(groups) + i
    BY <1>1, <1>2
  <1>5. ASSUME NEW i \in Id, NEW k \in 1..Len(names), groups[i].name = names[k]
        PROVE  groups[i].number < Number(names[k])
    BY <1>5 DEF Numbered
  <1>6. \A i \in Id : groups[i].number \in Nat
    <2>1. \A i \in Id : groups[i] \in Group
      BY <1>2
    <2> QED BY <2>1 DEF Group
  <1>7. NamesAreUnique'
    <2>1. SUFFICES ASSUME NEW i \in Id', NEW j \in Id', groups'[i].name = groups'[j].name,
                          groups'[i].number = groups'[j].number
                   PROVE  i = j
      BY DEF NamesAreUnique
    <2>2. CASE i \in Id /\ j \in Id
      BY <1>1, <2>1, <2>2 DEF NamesAreUnique
    <2>3. ASSUME NEW m \in Id, NEW k \in 1..Len(names),
                 groups'[m].name = groups'[Len(groups) + k].name,
                 groups'[m].number = groups'[Len(groups) + k].number
          PROVE  FALSE
      <3>1. groups[m].name = names[k] /\ groups[m].number = Number(names[k])
        BY <1>1, <1>3, <2>3
      <3>2. groups[m].number < groups[m].number /\ groups[m].number \in Nat
        BY <1>5, <1>6, <3>1
      <3> QED BY <3>2
    <2>4. CASE i \in Id /\ j \notin Id
      BY <1>4, <2>1, <2>3, <2>4
    <2>5. CASE i \notin Id /\ j \in Id
      BY <1>4, <2>1, <2>3, <2>5
    <2>6. CASE i \notin Id /\ j \notin Id
      <3>1. PICK k \in 1..Len(names) : i = Len(groups) + k
        BY <1>4, <2>6
      <3>2. PICK m \in 1..Len(names) : j = Len(groups) + m
        BY <1>4, <2>6
      <3>3. names[k] = names[m]
        BY <1>3, <2>1, <3>1, <3>2
      <3> QED BY <3>1, <3>2, <3>3
    <2> QED BY <2>2, <2>4, <2>5, <2>6
  <1>8. Numbered'
    <2>1. SUFFICES ASSUME NEW i \in Id'
                   PROVE  groups'[i].number < Cardinality({k \in Id' : groups'[k].name = groups'[i].name})
      BY DEF Numbered, Number
    <2>2. /\ Number(groups'[i].name) \in Nat
          /\ Cardinality({k \in Id' : groups'[k].name = groups'[i].name}) \in Nat
          /\ Number(groups'[i].name) <= Cardinality({k \in Id' : groups'[k].name = groups'[i].name})
          /\ \A m \in Id' : m \notin Id /\ groups'[m].name = groups'[i].name =>
                Number(groups'[i].name) < Cardinality({k \in Id' : groups'[k].name = groups'[i].name})
      <3>1. PICK g : g = groups'
        OBVIOUS
      <3>2. PICK name : name = groups'[i].name
        OBVIOUS
      <3>3. {k \in Id' : groups'[k].name = groups'[i].name} = {k \in 1..Len(g) : g[k].name = name}
        BY <1>1, <1>2, <3>1, <3>2
      <3>4. g \in Seq(Group) /\ Len(groups) <= Len(g) /\ \A k \in Id : g[k].name = groups[k].name
        BY <1>1, <1>2, <3>1
      <3>5. /\ Number(name) \in Nat
            /\ Cardinality({k \in 1..Len(g) : g[k].name = name}) \in Nat
            /\ Number(name) <= Cardinality({k \in 1..Len(g) : g[k].name = name})
            /\ \A m \in 1..Len(g) : m \notin Id /\ g[m].name = name =>
                Number(name) < Cardinality({k \in 1..Len(g) : g[k].name = name})
        BY <3>4, NumberGrows
      <3>6. \A m \in Id' : m \in 1..Len(g) /\ g[m] = groups'[m]
        BY <1>1, <1>2, <3>1
      <3> QED BY <3>2, <3>3, <3>5, <3>6
    <2>3. CASE i \in Id
      <3>1. groups'[i] = groups[i] /\ groups[i].number < Number(groups[i].name)
        BY <1>1, <2>3 DEF Numbered
      <3> QED BY <1>6, <2>2, <2>3, <3>1
    <2>4. CASE i \notin Id
      <3>1. groups'[i].number = Number(groups'[i].name)
        BY <1>3, <1>4, <2>4
      <3> QED BY <2>2, <2>4, <3>1
    <2> QED BY <2>3, <2>4
  <1> QED BY <1>1, <1>2, <1>3, <1>4, <1>7, <1>8 DEF Grown

\* No global that destroy_model_parallel looks at names a group that went down with the
\* library.
LEMMA NothingGone ==
    ASSUME Typed, Named
    PROVE  FirstGone = 8
  <1>1. ASSUME NEW i \in DOMAIN DestroyOrder, active[DestroyOrder[i]] # None
        PROVE  State(active[DestroyOrder[i]]) # "gone"
    <2>1. DestroyOrder[i] \in Kind \ {"inner"}
      BY DestroyFacts DEF Destroyed, Range
    <2> QED BY <1>1, <2>1 DEF Named, Live
  <1>2. {i \in DOMAIN DestroyOrder :
            active[DestroyOrder[i]] # None /\ State(active[DestroyOrder[i]]) = "gone"} = {}
    BY <1>1
  <1> QED BY <1>2, DestroyFacts DEF FirstGone

\* What a teardown leaves: the same groups, of which those that it destroyed and, without
\* the library, all the others are not usable; and the globals that it did not reset.
TornDown(op, model, environment) ==
    /\ ~patch.open /\ UNCHANGED <<patched, patch, failures>>
    /\ groups' \in Seq(Group) /\ Id' = Id
    /\ \A i \in Id :
         /\ groups'[i].name = groups[i].name
         /\ groups'[i].state = "live" <=>
              /\ groups[i].state = "live" /\ ~(environment /\ initialized)
              /\ \A kind \in Kind :
                   (model /\ kind \in Destroyed) \/ (environment /\ kind = "world") =>
                     active[kind] # i
    /\ active' = [kind \in Kind |->
                    IF (model /\ kind \in Destroyed) \/ (environment /\ kind = "world")
                    THEN None ELSE active[kind]]
    /\ nodeCount' = (nodeCount /\ ~environment)
    /\ initialized' = (initialized /\ ~environment)
    /\ Outcome(op, TRUE)
    /\ NamesAreUnique' /\ Numbered'

\* That is what a teardown does: no group stops it half-way.
LEMMA TearDownStep ==
    ASSUME Typed, Named, NamesAreUnique, Numbered,
           NEW op, NEW model \in BOOLEAN, NEW environment \in BOOLEAN,
           TearDown(op, model, environment)
    PROVE  TornDown(op, model, environment)
  <1> DEFINE down == {DestroyOrder[i] : i \in 1..(IF model THEN FirstGone - 1 ELSE 0)}
             ok == model => FirstGone > Len(DestroyOrder)
             env == environment /\ ok
             kinds == down \cup (IF env THEN {"world"} ELSE {})
             destroyed == {active[kind] : kind \in kinds}
  <1>1. FirstGone = 8 /\ ok = TRUE /\ env = environment
    BY NothingGone, DestroyFacts
  <1>2. down = IF model THEN Destroyed ELSE {}
    <2>1. CASE model
      <3>1. down = {DestroyOrder[i] : i \in 1..7}
        BY <1>1, <2>1
      <3> QED BY <2>1, <3>1, DestroyFacts DEF Destroyed, Range
    <2>2. CASE ~model
      <3>1. 1..0 = {}
        OBVIOUS
      <3> QED BY <2>2, <3>1
    <2> QED BY <2>1, <2>2
  <1>3. \A kind \in Kind :
            kind \in kinds <=> (model /\ kind \in Destroyed) \/ (environment /\ kind = "world")
    BY <1>1, <1>2
  <1>4. kinds \subseteq Kind
    BY <1>1, <1>2, DestroyFacts
  <1>5. /\ ~patch.open
        /\ groups' = [i \in Id |->
                        IF ~Live(i) THEN groups[i]
                        ELSE IF i \in destroyed THEN [groups[i] EXCEPT !.state = "destroyed"]
                        ELSE IF env /\ initialized THEN [groups[i] EXCEPT !.state = "gone"]
                        ELSE groups[i]]
        /\ active' = [kind \in Kind |-> IF kind \in kinds THEN None ELSE active[kind]]
        /\ nodeCount' = (nodeCount /\ ~env)
        /\ initialized' = (initialized /\ ~env)
        /\ Outcome(op, ok)
        /\ UNCHANGED <<patched, patch, failures>>
    BY Zenon DEF TearDown
  <1>6. \A i \in Id : i \in destroyed <=>
                        \E kind \in Kind : /\ (model /\ kind \in Destroyed) \/ (environment /\ kind = "world")
                                           /\ active[kind] = i
    BY <1>3, <1>4
  <1>7. Len(groups) \in Nat /\ Id = 1..Len(groups) /\ \A i \in Id : groups[i] \in Group
    BY DEF Typed, Id
  <1>8. ASSUME NEW i \in Id
        PROVE  /\ groups'[i] \in Group
               /\ groups'[i].name = groups[i].name /\ groups'[i].number = groups[i].number
               /\ groups'[i].state = "live" <=>
                    groups[i].state = "live" /\ i \notin destroyed /\ ~(env /\ initialized)
    <2> HIDE DEF destroyed, env
    <2>1. groups[i] \in Group
      BY <1>7
    <2>2. \/ groups'[i] = groups[i] /\ (~Live(i) \/ (i \notin destroyed /\ ~(env /\ initialized)))
          \/ groups'[i] = [groups[i] EXCEPT !.state = "destroyed"] /\ i \in destroyed
          \/ groups'[i] = [groups[i] EXCEPT !.state = "gone"] /\ env /\ initialized
      BY <1>5
    <2> QED BY <2>1, <2>2 DEF Group, Live, State
  <1>9. groups' \in Seq(Group) /\ Len(groups') = Len(groups) /\ Id' = Id
    <2>1. groups' \in [1..Len(groups) -> Group]
      BY <1>5, <1>7, <1>8
    <2> QED BY <1>7, <2>1 DEF Id
  <1>10. NamesAreUnique'
    BY <1>8, <1>9 DEF NamesAreUnique
  <1>11. Numbered'
    <2>1. SUFFICES ASSUME NEW i \in Id
                   PROVE  groups'[i].number < Cardinality({k \in Id : groups'[k].name = groups'[i].name})
      BY <1>9 DEF Numbered, Number
    <2>2. {k \in Id : groups'[k].name = groups'[i].name} = {k \in Id : groups[k].name = groups[i].name}
      BY <1>8
    <2> QED BY <1>8, <2>2 DEF Numbered, Number
  <1>12. active' = [kind \in Kind |->
                      IF (model /\ kind \in Destroyed) \/ (environment /\ kind = "world")
                      THEN None ELSE active[kind]]
    <2> HIDE DEF kinds
    <2> QED BY <1>3, <1>5
  <1>13. Outcome(op, TRUE)
    <2> HIDE DEF ok
    <2> QED BY <1>1, <1>5
  <1>14. nodeCount' = (nodeCount /\ ~environment) /\ initialized' = (initialized /\ ~environment)
    <2> HIDE DEF env
    <2> QED BY <1>1, <1>5
  <1>15. ASSUME NEW i \in Id
         PROVE  groups'[i].state = "live" <=>
                    /\ groups[i].state = "live" /\ ~(environment /\ initialized)
                    /\ \A kind \in Kind :
                         (model /\ kind \in Destroyed) \/ (environment /\ kind = "world") =>
                            active[kind] # i
    <2> HIDE DEF env, destroyed
    <2> QED BY <1>1, <1>6, <1>8
  <1> HIDE DEF env, destroyed, kinds, down, ok
  <1> QED BY <1>5, <1>8, <1>9, <1>10, <1>11, <1>12, <1>13, <1>14, <1>15 DEF TornDown

\* destroy_model_parallel, destroy_distributed_environment and the cleanup of both keep
\* the invariant: whatever the global of a kind was, none of the model is left.
LEMMA TearDownKeeps ==
    ASSUME IInv, UNCHANGED deployment,
           NEW op, NEW model \in BOOLEAN, NEW environment \in BOOLEAN,
           TearDown(op, model, environment),
           model \/ \A kind \in Destroyed : active[kind] = None,
           op # "ensure", op = "cleanup" => model /\ environment
    PROVE  IInv'
  <1>0. /\ Typed /\ NamesAreUnique /\ Numbered /\ Named /\ Held /\ Filled /\ Down
        /\ None = 0 /\ 0 \notin Id
    BY DEF IInv, None, Id
  <1>1. /\ ~patch.open /\ UNCHANGED <<patched, patch, failures>>
        /\ groups' \in Seq(Group) /\ Id' = Id
        /\ \A i \in Id :
             /\ groups'[i].name = groups[i].name
             /\ groups'[i].state = "live" <=>
                  /\ groups[i].state = "live" /\ ~(environment /\ initialized)
                  /\ \A kind \in Kind :
                       (model /\ kind \in Destroyed) \/ (environment /\ kind = "world") =>
                         active[kind] # i
        /\ active' = [kind \in Kind |->
                        IF (model /\ kind \in Destroyed) \/ (environment /\ kind = "world")
                        THEN None ELSE active[kind]]
        /\ nodeCount' = (nodeCount /\ ~environment)
        /\ initialized' = (initialized /\ ~environment)
        /\ Outcome(op, TRUE)
        /\ NamesAreUnique' /\ Numbered'
    <2>1. TornDown(op, model, environment)
      BY <1>0, TearDownStep, Zenon
    <2> QED BY <2>1 DEF TornDown
  <1>2. \A kind \in Destroyed : kind \in Kind /\ kind # "world" /\ active'[kind] = None
    BY <1>1, DestroyFacts
  <1>3. ASSUME NEW i \in Id, groups[i].state = "live", groups[i].name \in Destroyed
        PROVE  active[groups[i].name] = i
    BY <1>0, <1>1, <1>3 DEF Held, Live, State
  <1>4. ASSUME NEW i \in Id, groups'[i].state = "live" PROVE groups[i].name \notin Destroyed
    <2>1. SUFFICES ASSUME groups[i].name \in Destroyed PROVE FALSE
      OBVIOUS
    <2>2. groups[i].state = "live" /\ active[groups[i].name] = i
      BY <1>1, <1>3, <1>4, <2>1
    <2>3. CASE model
      BY <1>1, <1>2, <1>4, <2>1, <2>2, <2>3
    <2>4. CASE ~model
      BY <1>0, <2>1, <2>2, <2>4
    <2> QED BY <2>3, <2>4
  <1>5. Typed'
    <2>1. active' \in [Kind -> Id \cup {None}]
      BY <1>0, <1>1 DEF Typed
    <2>2. last' \in [op : {"none", "ensure", "cleanup"}, ok : BOOLEAN]
      BY <1>1 DEF Outcome, Observed, Nothing
    <2>3. initialized' \in BOOLEAN /\ nodeCount' \in BOOLEAN /\ patched' \in BOOLEAN
      BY <1>0, <1>1 DEF Typed
    <2> QED BY <1>0, <1>1, <2>1, <2>2, <2>3 DEF Typed
  <1>6. Named'
    <2>1. ASSUME NEW kind \in Kind \ {"inner"}, active'[kind] # None
          PROVE  /\ active[kind] # None /\ kind = "world" /\ ~environment
                 /\ active'[kind] = active[kind] /\ active[kind] \in Id
      BY <1>0, <1>1, <1>2, <2>1, DestroyFacts DEF Typed
    <2>2. ASSUME NEW kind \in Kind \ {"inner"}, active'[kind] # None
          PROVE  /\ active'[kind] \in Id' /\ groups'[active'[kind]].state = "live"
                 /\ groups'[active'[kind]].name = kind
      <3>1. /\ active[kind] \in Id /\ groups[active[kind]].state = "live"
            /\ groups[active[kind]].name = "world" /\ kind = "world"
        BY <1>0, <1>1, <2>1, <2>2 DEF Named, Live, State
      <3>2. ASSUME NEW other \in Destroyed, active[other] = active[kind] PROVE FALSE
        <4>1. other \in Kind \ {"inner"} /\ other # "world" /\ active[other] # None
          BY <2>1, <2>2, <3>2, DestroyFacts
        <4>2. groups[active[other]].name = other
          BY <1>0, <1>1, <4>1 DEF Named
        <4> QED BY <3>1, <3>2, <4>1, <4>2
      <3>3. groups'[active[kind]].state = "live"
        BY <1>1, <2>1, <2>2, <3>1, <3>2
      <3> QED BY <1>1, <2>1, <2>2, <3>1, <3>3
    <2>3. active'["inner"] # None => groups'[active'["inner"]].name \in {"world", "inner"}
      <3>1. "inner" \in Kind /\ "inner" \notin Destroyed
        BY DestroyFacts
      <3>2. active'["inner"] = active["inner"] /\ active["inner"] \in Id \cup {None}
        BY <1>0, <1>1, <3>1 DEF Typed
      <3> QED BY <1>0, <1>1, <3>2 DEF Named
    <2>4. ~patch'.open /\ patch'.old = None
      BY <1>0, <1>1 DEF Named
    <2> QED BY <2>2, <2>3, <2>4 DEF Named, Live, State
  <1>7. Held'
    BY <1>1, <1>4 DEF Held, Live, State
  <1>8. Filled'
    <2>1. Order' = Order
      BY DEF Order
    <2> QED BY <1>2, <2>1, OrderFacts DEF Filled
  <1>9. Down'
    BY <1>0, <1>1 DEF Down, Live, State
  <1>10. EnsuredIsWhole'
    <2>1. last' # [op |-> "ensure", ok |-> TRUE]
      BY <1>1 DEF Outcome, Observed, Nothing
    <2> QED BY <2>1 DEF EnsuredIsWhole
  <1>11. CleanupIsComplete'
    <2>1. SUFFICES ASSUME last'.op = "cleanup"
                   PROVE  /\ last'.ok /\ ~nodeCount'
                          /\ \A id \in Id' : groups'[id].state # "live"
                          /\ \A kind \in Kind \ {"inner"} : active'[kind] = None
      BY DEF CleanupIsComplete, Live, State
    <2>2. op = "cleanup" /\ model /\ environment /\ last'.ok
      BY <1>1, <2>1 DEF Outcome, Observed, Nothing
    <2>3. \A id \in Id' : groups'[id].state # "live"
      BY <1>0, <1>1, <2>2 DEF Down, Live, State
    <2>4. \A kind \in Kind \ {"inner"} : active'[kind] = None
      BY <1>1, <2>2, DestroyFacts
    <2> QED BY <1>1, <2>2, <2>3, <2>4
  <1> QED BY <1>1, <1>5, <1>6, <1>7, <1>8, <1>9, <1>10, <1>11 DEF IInv

\* The world groups that init_distributed_environment constructs, in their order.
LEMMA NewWorlds ==
    ASSUME NEW from \in {1, 2}, NEW to \in {1, 2}, NEW names,
           names = SubSeq(<<"world", "inner">>, from, to)
    PROVE  /\ names \in Seq({"world", "inner"}) /\ Len(names) = to - from + 1
           /\ from = 1 => Len(names) > 0 /\ names[1] = "world"
           /\ to = 2 => Len(names) > 0 /\ names[Len(names)] = "inner"
           /\ \A i, j \in 1..Len(names) : names[i] = names[j] => i = j
  <1> DEFINE s == <<"world", "inner">>
             S == {"world", "inner"}
  <1>1. s[1] = "world" /\ s[2] = "inner" /\ s[1] \in S /\ s[2] \in S
    OBVIOUS
  <1>2. names = SubSeq(s, from, to)
    OBVIOUS
  <1> HIDE DEF s, S
  <1>3. /\ names \in Seq(S) /\ Len(names) = to - from + 1
        /\ \A i \in 1..to - from + 1 : names[i] = s[from + i - 1]
    <2>1. from \in Int /\ to \in Int /\ \A i \in from..to : s[i] \in S
      BY <1>1
    <2>2. /\ names \in Seq(S)
          /\ Len(names) = IF from <= to THEN to - from + 1 ELSE 0
          /\ \A i \in 1..to - from + 1 : names[i] = s[from + i - 1]
      BY <1>2, <2>1, SubSeqProperties
    <2>3. (IF from <= to THEN to - from + 1 ELSE 0) = to - from + 1
      OBVIOUS
    <2> QED BY <2>2, <2>3
  <1> QED BY <1>1, <1>3 DEF S

\* init_distributed_environment keeps the invariant: it sets no global of the model, and
\* the world that it names is usable even where a later step raises.
LEMMA InitEnvironmentKeeps ==
    ASSUME IInv, UNCHANGED deployment, NEW fails, InitEnvironment(fails)
    PROVE  IInv'
  <1>0. /\ Typed /\ NamesAreUnique /\ Numbered /\ Named /\ Held /\ Filled /\ Down
        /\ None = 0 /\ 0 \notin Id
    BY DEF IInv, None, Id
  <1> DEFINE inner == deployment.inner = "own" /\ fails # "world"
             world == IF active["world"] = None THEN Len(groups) + 1 ELSE active["world"]
  <1>1. PICK names :
            /\ names = SubSeq(<<"world", "inner">>, IF active["world"] = None THEN 1 ELSE 2,
                              IF inner THEN 2 ELSE 1)
            /\ groups' = Constructed(names, fails \notin {"world", "inner"})
            /\ active' = [active EXCEPT
                    !["world"] = IF fails = "world" THEN @ ELSE world,
                    !["inner"] = IF fails = "none" /\ deployment.inner = "shared" THEN world
                                 ELSE IF fails = "none" /\ deployment.inner = "own"
                                      THEN Len(groups) + Len(names)
                                 ELSE @]
            /\ failures' = IF fails = "none" THEN failures ELSE failures + 1
            /\ failures' <= MaxFailures
    BY DEF InitEnvironment, MayConstruct
  <1>2. /\ fails \in Steps \cup {"none"} /\ initialized' = TRUE
        /\ nodeCount' = (nodeCount \/ (active["world"] = None /\ fails \notin {"world", "count"}))
        /\ Outcome("init_environment", fails = "none")
        /\ UNCHANGED <<patched, patch>>
    BY DEF InitEnvironment
  <1>3. /\ fails = "world" => active["world"] = None /\ ~inner
        /\ fails = "inner" => inner
    BY <1>2 DEF Steps
  <1>4. /\ names \in Seq({"world", "inner"})
        /\ Len(names) = (IF active["world"] = None THEN 1 ELSE 0) + (IF inner THEN 1 ELSE 0)
        /\ active["world"] = None => names[1] = "world"
        /\ inner => names[Len(names)] = "inner"
        /\ \A i, j \in 1..Len(names) : names[i] = names[j] => i = j
    <2>1. PICK from \in {1, 2}, to \in {1, 2} :
                /\ from = (IF active["world"] = None THEN 1 ELSE 2)
                /\ to = (IF inner THEN 2 ELSE 1)
      OBVIOUS
    <2>2. names = SubSeq(<<"world", "inner">>, from, to)
      BY <1>1, <2>1
    <2>3. /\ names \in Seq({"world", "inner"}) /\ Len(names) = to - from + 1
          /\ from = 1 => Len(names) > 0 /\ names[1] = "world"
          /\ to = 2 => Len(names) > 0 /\ names[Len(names)] = "inner"
          /\ \A i, j \in 1..Len(names) : names[i] = names[j] => i = j
      BY <2>2, NewWorlds
    <2> HIDE DEF inner
    <2> QED BY <2>1, <2>3
  <1>5. PICK ok \in BOOLEAN : ok = (fails \notin {"world", "inner"})
    OBVIOUS
  <1>6. Grown(names, ok)
    <2>1. names \in Seq(Name)
      BY <1>4 DEF Name, Kind
    <2>2. groups' = Constructed(names, ok)
      BY <1>1, <1>5, Zenon
    <2>3. groups \in Seq(Group)
      BY <1>0 DEF Typed
    <2> QED BY <1>0, <1>4, <2>1, <2>2, <2>3, ConstructStep, Zenon
  <1> HIDE DEF inner, world
  <1>7. /\ Len(names) \in 0..2 /\ Len(groups) \in Nat
        /\ \A i \in 1..Len(names) : names[i] \in {"world", "inner"}
    BY <1>0, <1>4 DEF Typed
  <1>8. \A i \in Id : groups'[i] = groups[i] /\ i \in Id'
    BY <1>6 DEF Grown
  <1>9. \A kind \in Kind \ {"world", "inner"} : active'[kind] = active[kind]
    BY <1>0, <1>1 DEF Typed
  <1>10. \A i \in Id' : i \in Id \/ groups'[i].name \in {"world", "inner"}
    BY <1>6, <1>7 DEF Grown
  <1>11. ASSUME active["world"] = None, fails # "world"
         PROVE  /\ Len(groups) + 1 \in Id' /\ groups'[Len(groups) + 1].name = "world"
                /\ groups'[Len(groups) + 1].state = "live"
    <2>1. 1 \in 1..Len(names)
      BY <1>4, <1>7, <1>11
    <2>2. 1 < Len(names) \/ ok
      <3>1. CASE fails = "inner"
        BY <1>3, <1>4, <1>11, <3>1
      <3>2. CASE fails # "inner"
        <4>1. fails \notin {"world", "inner"}
          BY <1>11, <3>2
        <4> QED BY <1>5, <4>1, Zenon
      <3> QED BY <3>1, <3>2
    <2> QED BY <1>4, <1>6, <1>11, <2>1, <2>2 DEF Grown
  <1>12. ASSUME fails = "none", deployment.inner = "own"
         PROVE  /\ Len(groups) + Len(names) \in Id'
                /\ groups'[Len(groups) + Len(names)].name = "inner"
    <2>1. inner /\ Len(names) \in 1..Len(names)
      BY <1>4, <1>7, <1>12 DEF inner
    <2> QED BY <1>4, <1>6, <2>1 DEF Grown
  <1>13. /\ "world" \in Kind /\ "inner" \in Kind /\ active \in [Kind -> Id \cup {None}]
    BY <1>0 DEF Typed, Kind
  <1>14. /\ active'["world"] = IF fails = "world" THEN active["world"] ELSE world
         /\ active'["inner"] = IF fails = "none" /\ deployment.inner = "shared" THEN world
                               ELSE IF fails = "none" /\ deployment.inner = "own"
                                    THEN Len(groups) + Len(names) ELSE active["inner"]
    BY <1>1, <1>13
  <1>15. ASSUME active'["world"] # None
         PROVE  /\ active'["world"] \in Id' /\ groups'[active'["world"]].name = "world"
                /\ groups'[active'["world"]].state = "live"
    <2>1. CASE active["world"] = None
      BY <1>11, <1>14, <1>15, <2>1 DEF world
    <2>2. CASE active["world"] # None
      <3>1. active'["world"] = active["world"]
        BY <1>14, <2>2 DEF world
      <3>2. /\ active["world"] \in Id /\ groups[active["world"]].name = "world"
            /\ groups[active["world"]].state = "live"
        BY <1>0, <1>13, <2>2 DEF Named, Live, State
      <3> QED BY <1>8, <3>1, <3>2
    <2> QED BY <2>1, <2>2
  <1>16. ASSUME active'["inner"] # None
         PROVE  active'["inner"] \in Id' /\ groups'[active'["inner"]].name \in {"world", "inner"}
    <2>1. CASE fails = "none" /\ deployment.inner = "shared"
      BY <1>14, <1>15, <1>16, <2>1
    <2>2. CASE fails = "none" /\ deployment.inner = "own"
      BY <1>12, <1>14, <2>2
    <2>3. CASE ~(fails = "none" /\ deployment.inner \in {"shared", "own"})
      <3>1. active'["inner"] = active["inner"] /\ active["inner"] \in Id
        BY <1>13, <1>14, <1>16, <2>3
      <3> QED BY <1>0, <1>8, <1>16, <3>1 DEF Named
    <2> QED BY <2>1, <2>2, <2>3
  <1>17. Typed'
    <2>1. active' \in [Kind -> Id' \cup {None}]
      <3>1. \A kind \in Kind : active'[kind] \in Id' \cup {None}
        BY <1>8, <1>9, <1>13, <1>15, <1>16
      <3>2. active' = [kind \in Kind |-> active'[kind]]
        BY <1>1, <1>13
      <3> QED BY <3>1, <3>2
    <2>2. last' \in [op : {"none", "ensure", "cleanup"}, ok : BOOLEAN]
      BY <1>2 DEF Outcome, Observed, Nothing
    <2>3. initialized' \in BOOLEAN /\ nodeCount' \in BOOLEAN /\ patched' \in BOOLEAN
      BY <1>0, <1>2 DEF Typed
    <2>4. failures' \in 0..MaxFailures
      BY <1>0, <1>1, DeploymentsAssumption DEF Typed
    <2>5. patch' \in [open : BOOLEAN, old : Id' \cup {None}]
      BY <1>0, <1>2, <1>8 DEF Typed
    <2>6. groups' \in Seq(Group) /\ deployment' \in Deployments
      BY <1>0, <1>6 DEF Grown, Typed
    <2> QED BY <2>1, <2>2, <2>3, <2>4, <2>5, <2>6 DEF Typed
  <1>18. Named'
    <2>1. ASSUME NEW kind \in Kind \ {"inner"}, active'[kind] # None
          PROVE  /\ active'[kind] \in Id' /\ groups'[active'[kind]].state = "live"
                 /\ groups'[active'[kind]].name = IF kind = "tp" /\ patch'.open THEN "draft" ELSE kind
      <3>1. CASE kind = "world"
        BY <1>15, <2>1, <3>1
      <3>2. CASE kind # "world"
        <4>1. active'[kind] = active[kind] /\ active[kind] # None
          BY <1>9, <2>1, <3>2
        <4>2. /\ active[kind] \in Id /\ groups[active[kind]].state = "live"
              /\ groups[active[kind]].name = IF kind = "tp" /\ patch.open THEN "draft" ELSE kind
          BY <1>0, <4>1 DEF Named, Live, State
        <4> QED BY <1>2, <1>8, <4>1, <4>2
      <3> QED BY <3>1, <3>2
    <2>2. patch'.open => /\ patched' /\ active'["tp"] # None
                         /\ patch'.old \in Id' /\ groups'[patch'.old].state = "live"
                         /\ groups'[patch'.old].name = "tp"
      <3>1. "tp" \in Kind \ {"world", "inner"}
        BY DEF Kind
      <3> QED BY <1>0, <1>2, <1>8, <1>9, <3>1 DEF Named, Live, State
    <2>3. ~patch'.open => patch'.old = None
      BY <1>0, <1>2 DEF Named
    <2> QED BY <1>16, <2>1, <2>2, <2>3 DEF Named, Live, State
  <1>19. Held'
    <2>1. SUFFICES ASSUME NEW i \in Id', groups'[i].state = "live", groups'[i].name \in Destroyed
                   PROVE  active'[groups'[i].name] = i \/ (patch'.open /\ patch'.old = i)
      BY DEF Held, Live, State
    <2>2. i \in Id /\ groups'[i] = groups[i]
      BY <1>8, <1>10, <2>1, DestroyFacts
    <2>3. groups[i].name \in Kind \ {"world", "inner"}
      BY <2>1, <2>2, DestroyFacts
    <2> QED BY <1>0, <1>2, <1>9, <2>1, <2>2, <2>3 DEF Held, Live, State
  <1>20. Filled'
    <2>1. Order' = Order
      BY DEF Order
    <2>2. \A i \in DOMAIN Order : active'[Order[i]] = active[Order[i]]
      BY <1>9, OrderFacts, DestroyFacts
    <2>3. failures \in Nat /\ (failures' = 0 => failures = 0)
      BY <1>0, <1>1, DeploymentsAssumption DEF Typed
    <2> QED BY <1>0, <2>1, <2>2, <2>3 DEF Filled
  <1>21. Down'
    BY <1>2 DEF Down
  <1>22. EnsuredIsWhole' /\ CleanupIsComplete'
    <2>1. last'.op = "none"
      BY <1>2 DEF Outcome, Observed, Nothing
    <2> QED BY <2>1 DEF EnsuredIsWhole, CleanupIsComplete
  <1> QED BY <1>6, <1>17, <1>18, <1>19, <1>20, <1>21, <1>22 DEF IInv, Grown

\* The group for a draft model has a name of its own, and no global names it.
LEMMA MakeDraftKeeps ==
    ASSUME IInv, UNCHANGED deployment, NEW ok \in BOOLEAN, MakeDraft(ok)
    PROVE  IInv'
  <1>0. /\ Typed /\ NamesAreUnique /\ Numbered /\ Named /\ Held /\ Filled /\ Down
        /\ None = 0 /\ 0 \notin Id
    BY DEF IInv, None, Id
  <1>1. /\ initialized /\ groups' = Constructed(<<"draft">>, ok)
        /\ failures' = (IF ok THEN failures ELSE failures + 1) /\ failures' <= MaxFailures
        /\ Outcome("draft", ok)
        /\ UNCHANGED <<initialized, active, nodeCount, patched, patch>>
    BY DEF MakeDraft, MayConstruct
  <1>2. PICK names \in Seq(Name) : names = <<"draft">> /\ Len(names) = 1 /\ names[1] = "draft"
    <2>1. <<"draft">> \in Seq(Name)
      BY DEF Name
    <2> QED BY <2>1
  <1>3. Grown(names, ok)
    <2>1. groups' = Constructed(names, ok)
      BY <1>1, <1>2, Zenon
    <2>2. \A i, j \in 1..Len(names) : names[i] = names[j] => i = j
      BY <1>2
    <2>3. groups \in Seq(Group)
      BY <1>0 DEF Typed
    <2> QED BY <1>0, <2>1, <2>2, <2>3, ConstructStep, Zenon
  <1>4. \A i \in Id : groups'[i] = groups[i] /\ i \in Id'
    BY <1>3 DEF Grown
  <1>5. \A i \in Id' : i \in Id \/ groups'[i].name = "draft"
    BY <1>2, <1>3 DEF Grown
  <1>6. Typed'
    <2>1. last' \in [op : {"none", "ensure", "cleanup"}, ok : BOOLEAN]
      BY <1>1 DEF Outcome, Observed, Nothing
    <2>2. failures' \in 0..MaxFailures
      BY <1>0, <1>1, DeploymentsAssumption DEF Typed
    <2>3. groups' \in Seq(Group)
      BY <1>3 DEF Grown
    <2> QED BY <1>0, <1>1, <1>4, <2>1, <2>2, <2>3 DEF Typed
  <1>7. Named'
    <2>1. active \in [Kind -> Id \cup {None}] /\ "inner" \in Kind
      BY <1>0 DEF Typed, Kind
    <2> QED BY <1>0, <1>1, <1>4, <2>1 DEF Named, Live, State
  <1>8. Held'
    BY <1>0, <1>1, <1>4, <1>5, DestroyFacts DEF Held, Live, State
  <1>9. Filled'
    <2>1. failures \in Nat /\ (failures' = 0 => failures = 0)
      BY <1>0, <1>1, DeploymentsAssumption DEF Typed
    <2> QED BY <1>0, <1>1, <2>1 DEF Filled, Order
  <1>10. Down'
    BY <1>1 DEF Down
  <1>11. EnsuredIsWhole' /\ CleanupIsComplete'
    <2>1. last'.op = "none"
      BY <1>1 DEF Outcome, Observed, Nothing
    <2> QED BY <2>1 DEF EnsuredIsWhole, CleanupIsComplete
  <1> QED BY <1>3, <1>6, <1>7, <1>8, <1>9, <1>10, <1>11 DEF IInv, Grown

\* What keeps the invariant where no group is constructed or torn down.
LEMMA SameGroups ==
    ASSUME IInv, UNCHANGED <<deployment, initialized, groups, nodeCount, failures>>,
           last' = Nothing, patched' \in BOOLEAN,
           Named', Held',
           active' \in [Kind -> Id \cup {None}], patch' \in [open : BOOLEAN, old : Id \cup {None}],
           \A kind \in Kind : active'[kind] = None <=> active[kind] = None
    PROVE  IInv'
  <1>1. Id' = Id /\ Order' = Order
    BY DEF Id, Order
  <1>2. Typed'
    BY <1>1 DEF IInv, Typed, Nothing
  <1>3. NamesAreUnique' /\ Numbered' /\ Down'
    BY DEF IInv, NamesAreUnique, Numbered, Number, Down, Live, State, Id
  <1>4. Filled'
    <2>1. \A i \in DOMAIN Order : Order[i] \in Kind
      BY OrderFacts, DestroyFacts
    <2> QED BY <1>1, <2>1 DEF IInv, Filled
  <1>5. EnsuredIsWhole' /\ CleanupIsComplete'
    BY DEF Nothing, EnsuredIsWhole, CleanupIsComplete
  <1> QED BY <1>2, <1>3, <1>4, <1>5 DEF IInv

\* Within a patch the tensor-parallel global names the draft model's group, and the
\* target model's is kept aside; the flag alone does not matter.
LEMMA EnterPatchKeeps ==
    ASSUME IInv, UNCHANGED deployment, NEW draft \in Id, EnterPatch(draft)
    PROVE  IInv'
  <1>0. /\ Typed /\ Named /\ Held /\ None = 0 /\ 0 \notin Id /\ Id' = Id
    BY DEF IInv, None, Id, EnterPatch
  <1>1. /\ Live(draft) /\ groups[draft].name = "draft" /\ patched' = TRUE /\ last' = Nothing
        /\ UNCHANGED <<initialized, groups, nodeCount, failures>>
        /\ \/ UNCHANGED <<patch, active>>
           \/ /\ ~patched /\ active["tp"] # None
              /\ patch' = [open |-> TRUE, old |-> active["tp"]]
              /\ active' = [active EXCEPT !["tp"] = draft]
    BY DEF EnterPatch, Got, Outcome, Observed
  <1>2. active \in [Kind -> Id \cup {None}] /\ "tp" \in Kind \ {"inner"} /\ "inner" \in Kind
    BY <1>0 DEF Typed, Kind
  <1>3. CASE UNCHANGED <<patch, active>>
    <2>1. Named' /\ Held'
      BY <1>0, <1>1, <1>3 DEF Named, Held, Live, State
    <2>2. patch' \in [open : BOOLEAN, old : Id \cup {None}]
      BY <1>0, <1>3 DEF Typed
    <2> QED BY <1>1, <1>2, <1>3, <2>1, <2>2, SameGroups
  <1>4. CASE /\ ~patched /\ active["tp"] # None
             /\ patch' = [open |-> TRUE, old |-> active["tp"]]
             /\ active' = [active EXCEPT !["tp"] = draft]
    <2>1. ~patch.open
      BY <1>0, <1>4 DEF Named
    <2>2. /\ active["tp"] \in Id /\ groups[active["tp"]].name = "tp"
          /\ groups[active["tp"]].state = "live"
      BY <1>0, <1>2, <1>4, <2>1 DEF Named, Live, State
    <2>3. active'["tp"] = draft /\ \A kind \in Kind \ {"tp"} : active'[kind] = active[kind]
      BY <1>2, <1>4
    <2>4. Named'
      <3>1. ASSUME NEW kind \in Kind \ {"inner"}, active'[kind] # None
            PROVE  /\ active'[kind] \in Id /\ groups[active'[kind]].state = "live"
                   /\ groups[active'[kind]].name = IF kind = "tp" THEN "draft" ELSE kind
        <4>1. CASE kind = "tp"
          BY <1>1, <2>3, <4>1 DEF Live, State
        <4>2. CASE kind # "tp"
          BY <1>0, <2>3, <3>1, <4>2 DEF Named, Live, State
        <4> QED BY <4>1, <4>2
      <3>2. active'["inner"] = active["inner"]
        BY <1>2, <2>3
      <3>3. patch'.open /\ patch'.old = active["tp"]
        BY <1>4
      <3> QED BY <1>0, <1>1, <2>2, <2>3, <3>1, <3>2, <3>3 DEF Named, Live, State
    <2>5. Held'
      <3>1. SUFFICES ASSUME NEW i \in Id, groups[i].state = "live", groups[i].name \in Destroyed
                     PROVE  active'[groups[i].name] = i \/ (patch'.open /\ patch'.old = i)
        BY <1>0, <1>1 DEF Held, Live, State
      <3>2. active[groups[i].name] = i
        BY <1>0, <2>1, <3>1 DEF Held, Live, State
      <3>3. groups[i].name \in Kind
        BY <3>1, DestroyFacts
      <3> QED BY <1>4, <2>3, <3>2, <3>3
    <2>6. active' \in [Kind -> Id \cup {None}] /\ patch' \in [open : BOOLEAN, old : Id \cup {None}]
      BY <1>2, <1>4
    <2>7. \A kind \in Kind : active'[kind] = None <=> active[kind] = None
      BY <1>0, <1>4, <2>3
    <2> QED BY <1>1, <2>4, <2>5, <2>6, <2>7, SameGroups
  <1> QED BY <1>1, <1>3, <1>4

\* Leaving a patch puts the target model's group back.
LEMMA LeavePatchKeeps ==
    ASSUME IInv, UNCHANGED deployment, LeavePatch
    PROVE  IInv'
  <1>0. /\ Typed /\ Named /\ Held /\ None = 0 /\ 0 \notin Id /\ Id' = Id
    BY DEF IInv, None, Id, LeavePatch
  <1>1. /\ patch.open /\ patched' = FALSE /\ last' = Nothing
        /\ active' = [active EXCEPT !["tp"] = patch.old]
        /\ patch' = [open |-> FALSE, old |-> None]
        /\ UNCHANGED <<initialized, groups, nodeCount, failures>>
    BY DEF LeavePatch, Outcome, Observed
  <1>2. active \in [Kind -> Id \cup {None}] /\ "tp" \in Kind \ {"inner"} /\ "inner" \in Kind
    BY <1>0 DEF Typed, Kind
  <1>3. /\ active["tp"] \in Id /\ groups[active["tp"]].name = "draft"
        /\ patch.old \in Id /\ groups[patch.old].name = "tp" /\ groups[patch.old].state = "live"
    BY <1>0, <1>1, <1>2 DEF Named, Live, State
  <1>4. active'["tp"] = patch.old /\ \A kind \in Kind \ {"tp"} : active'[kind] = active[kind]
    BY <1>1, <1>2
  <1>5. Named'
    <2>1. ASSUME NEW kind \in Kind \ {"inner"}, active'[kind] # None
          PROVE  /\ active'[kind] \in Id /\ groups[active'[kind]].state = "live"
                 /\ groups[active'[kind]].name = kind
      <3>1. CASE kind = "tp"
        BY <1>3, <1>4, <3>1
      <3>2. CASE kind # "tp"
        BY <1>0, <1>4, <2>1, <3>2 DEF Named, Live, State
      <3> QED BY <3>1, <3>2
    <2>2. active'["inner"] = active["inner"]
      BY <1>2, <1>4
    <2>3. ~patch'.open /\ patch'.old = None
      BY <1>1
    <2> QED BY <1>0, <1>1, <2>1, <2>2, <2>3 DEF Named, Live, State
  <1>6. Held'
    <2>1. SUFFICES ASSUME NEW i \in Id, groups[i].state = "live", groups[i].name \in Destroyed
                   PROVE  active'[groups[i].name] = i
      BY <1>0, <1>1 DEF Held, Live, State
    <2>2. active[groups[i].name] = i \/ patch.old = i
      BY <1>0, <2>1 DEF Held, Live, State
    <2>3. groups[i].name \in Kind
      BY <2>1, DestroyFacts
    <2> QED BY <1>3, <1>4, <2>2, <2>3
  <1>7. active' \in [Kind -> Id \cup {None}] /\ patch' \in [open : BOOLEAN, old : Id \cup {None}]
    BY <1>1, <1>2, <1>3
  <1>8. \A kind \in Kind : active'[kind] = None <=> active[kind] = None
    BY <1>0, <1>3, <1>4
  <1> QED BY <1>1, <1>5, <1>6, <1>7, <1>8, SameGroups

\* Where a global is in the way of initialize_model_parallel, it is the first one.
LEMMA BlockedFacts ==
    ASSUME Filled
    PROVE  \/ Blocked = 1 /\ active["tp"] # None
           \/ Blocked = Len(Order) + 1 /\ \A i \in DOMAIN Order : active[Order[i]] = None
  <1> DEFINE taken == {i \in DOMAIN Order : active[Order[i]] # None}
  <1>1. CASE taken = {}
    BY <1>1 DEF Blocked
  <1>2. CASE taken # {}
    <2>1. PICK j \in DOMAIN Order : active[Order[j]] # None
      BY <1>2
    <2>2. 1 \in DOMAIN Order /\ DOMAIN Order \subseteq Nat \ {0}
      BY OrderFacts
    <2>3. 1 = j \/ 1 < j
      BY <2>1, <2>2
    <2>4. 1 \in taken
      BY <2>1, <2>2, <2>3 DEF Filled
    <2>5. \A i \in taken : 1 <= i
      BY <2>2
    <2>6. \A i \in taken : (\A j_1 \in taken : i <= j_1) => i = 1
      BY <2>2, <2>4, <2>5
    <2>7. Blocked = CHOOSE i \in taken : \A j_1 \in taken : i <= j_1
      BY <1>2 DEF Blocked
    <2> HIDE DEF taken
    <2>8. Blocked = 1
      BY <2>4, <2>5, <2>6, <2>7
    <2> QED BY <2>4, <2>8, OrderFacts DEF taken
  <1> QED BY <1>1, <1>2

\* What building the groups of the model comes to: it stops at once, before the first
\* global; or none is there, and those up to `stop` are built, that one in vain unless stop
\* is past the last.
LEMMA BuildCases ==
    ASSUME Typed, NamesAreUnique, Numbered, Filled, NEW op, NEW stop \in 1..Len(Order) + 1, Build(op, stop)
    PROVE  \/ /\ active["tp"] # None /\ UNCHANGED <<groups, active, failures>>
              /\ Outcome(op, FALSE)
           \/ /\ \A i \in DOMAIN Order : active[Order[i]] = None
              /\ \A i \in 1..stop - 1 : active'[Order[i]] = Len(groups) + i
              /\ \A kind \in Kind :
                    (\A i \in 1..stop - 1 : Order[i] # kind) => active'[kind] = active[kind]
              /\ active' = [kind \in Kind |-> active'[kind]]
              /\ failures' <= MaxFailures
              /\ \/ /\ stop = Len(Order) + 1 /\ failures' = failures /\ Outcome(op, TRUE)
                    /\ groups' = Constructed(SubSeq(Order, 1, Len(Order)), TRUE)
                 \/ /\ stop <= Len(Order) /\ failures' = failures + 1 /\ Outcome(op, FALSE)
                    /\ groups' = Constructed(SubSeq(Order, 1, stop), FALSE)
  <1>0. /\ Len(Order) \in 5..7 /\ DOMAIN Order = 1..Len(Order) /\ Order \in Seq(Destroyed)
        /\ \A i \in DOMAIN Order : Order[i] \in Kind
        /\ \A i, j \in DOMAIN Order : Order[i] = Order[j] => i = j
    BY OrderFacts, DestroyFacts
  <1>1. /\ stop \in 1..Blocked
        /\ groups' = Constructed(SubSeq(Order, 1, IF stop < Blocked THEN stop ELSE stop - 1), stop = Blocked)
        /\ failures' = (IF stop = Blocked THEN failures ELSE failures + 1)
        /\ failures' <= MaxFailures
        /\ active' = [kind \in Kind |->
                        IF \E i \in 1..stop - 1 : Order[i] = kind
                        THEN Len(groups) + (CHOOSE i \in 1..stop - 1 : Order[i] = kind)
                        ELSE active[kind]]
        /\ Outcome(op, stop = Len(Order) + 1)
    BY Zenon DEF Build, MayConstruct
  <1>2. CASE Blocked = 1 /\ active["tp"] # None
    <2>1. stop = 1 /\ stop # Len(Order) + 1 /\ stop = Blocked
      BY <1>0, <1>1, <1>2
    <2>2. /\ (stop = Blocked) = TRUE /\ (stop = Len(Order) + 1) = FALSE
          /\ (IF stop < Blocked THEN stop ELSE stop - 1) = 0
      BY <2>1
    <2>3. failures' = failures /\ Outcome(op, FALSE) /\ groups' = Constructed(SubSeq(Order, 1, 0), TRUE)
      BY <1>1, <2>1, <2>2, Zenon
    <2>4. active' = active
      <3>1. 1..stop - 1 = {}
        BY <2>1
      <3>2. active' = [kind \in Kind |-> active[kind]]
        BY <1>1, <3>1
      <3> QED BY <3>2 DEF Typed
    <2>5. groups' = groups
      <3>1. PICK names : names = SubSeq(Order, 1, 0) /\ names \in Seq(Name) /\ Len(names) = 0
        <4>1. \A i \in 1..0 : Order[i] \in Name
          OBVIOUS
        <4>2. SubSeq(Order, 1, 0) \in Seq(Name) /\ Len(SubSeq(Order, 1, 0)) = 0
          BY <4>1, SubSeqProperties
        <4> QED BY <4>2
      <3>2. groups \in Seq(Group)
        BY DEF Typed
      <3>3. \A i, j \in 1..Len(names) : names[i] = names[j] => i = j
        BY <3>1
      <3>4. Grown(names, TRUE)
        BY <2>3, <3>1, <3>2, <3>3, ConstructStep, Zenon
      <3>5. groups' \in Seq(Group) /\ Len(groups') = Len(groups) /\ \A i \in Id : groups'[i] = groups[i]
        BY <3>1, <3>2, <3>4 DEF Grown, Id
      <3> QED BY <3>2, <3>5 DEF Id
    <2> QED BY <1>2, <2>3, <2>4, <2>5
  <1>3. CASE Blocked = Len(Order) + 1 /\ \A i \in DOMAIN Order : active[Order[i]] = None
    <2>1. \A i \in 1..stop - 1 : i \in DOMAIN Order
      BY <1>0
    <2>2. ASSUME NEW i \in 1..stop - 1
          PROVE  active'[Order[i]] = Len(groups) + i
      <3>1. Order[i] \in Kind /\ \A j \in 1..stop - 1 : Order[j] = Order[i] <=> j = i
        BY <1>0, <2>1
      <3>2. (CHOOSE j \in 1..stop - 1 : Order[j] = Order[i]) = i
        BY <3>1
      <3> QED BY <1>1, <3>1, <3>2
    <2>3. ASSUME NEW kind \in Kind, \A i \in 1..stop - 1 : Order[i] # kind
          PROVE  active'[kind] = active[kind]
      BY <1>1, <2>3
    <2>4. active' = [kind \in Kind |-> active'[kind]]
      BY <1>1
    <2>5. CASE stop = Len(Order) + 1
      <3>1. stop = Blocked /\ ~(stop < Blocked) /\ stop - 1 = Len(Order)
        BY <1>0, <1>3, <2>5
      <3>2. /\ (stop = Blocked) = TRUE /\ (stop = Len(Order) + 1) = TRUE
            /\ (IF stop < Blocked THEN stop ELSE stop - 1) = Len(Order)
        BY <2>5, <3>1
      <3>3. /\ failures' = failures /\ Outcome(op, TRUE)
            /\ groups' = Constructed(SubSeq(Order, 1, Len(Order)), TRUE)
        BY <1>1, <3>1, <3>2, Zenon
      <3> QED BY <1>1, <1>3, <2>2, <2>3, <2>4, <2>5, <3>3
    <2>6. CASE stop <= Len(Order)
      <3>1. stop < Blocked /\ stop # Blocked /\ stop # Len(Order) + 1
        BY <1>0, <1>3, <2>6
      <3>2. /\ (stop = Blocked) = FALSE /\ (stop = Len(Order) + 1) = FALSE
            /\ (IF stop < Blocked THEN stop ELSE stop - 1) = stop
        BY <3>1
      <3>3. /\ failures' = failures + 1 /\ Outcome(op, FALSE)
            /\ groups' = Constructed(SubSeq(Order, 1, stop), FALSE)
        BY <1>1, <3>1, <3>2, Zenon
      <3> QED BY <1>1, <1>3, <2>2, <2>3, <2>4, <2>6, <3>3
    <2>7. stop = Len(Order) + 1 \/ stop <= Len(Order)
      BY <1>0
    <2> QED BY <2>5, <2>6, <2>7
  <1> QED BY <1>2, <1>3, BlockedFacts

\* What keeps the invariant where only the outcome of a call is noted.
LEMMA SameState ==
    ASSUME IInv,
           UNCHANGED <<deployment, initialized, active, groups, nodeCount, patched, patch, failures>>,
           last' \in [op : {"none", "ensure", "cleanup"}, ok : BOOLEAN],
           EnsuredIsWhole', CleanupIsComplete'
    PROVE  IInv'
  <1>1. Typed' /\ NamesAreUnique' /\ Numbered' /\ Named' /\ Down'
    BY DEF IInv, Typed, NamesAreUnique, Numbered, Number, Named, Down, Live, State, Id
  <1>2. Held' /\ Filled'
    BY DEF IInv, Held, Filled, Order, Live, State, Id
  <1> QED BY <1>1, <1>2 DEF IInv

\* Building the groups of the model keeps the invariant, wherever a construction raises.
LEMMA BuildKeeps ==
    ASSUME IInv, UNCHANGED <<deployment, initialized, nodeCount, patched, patch>>, initialized,
           NEW op \in {"initialize", "ensure"}, NEW stop \in 1..Len(Order) + 1, Build(op, stop)
    PROVE  IInv'
  <1>0. /\ Typed /\ NamesAreUnique /\ Numbered /\ Named /\ Held /\ Filled /\ Down
        /\ None = 0 /\ 0 \notin Id /\ Len(groups) \in Nat /\ Id = 1..Len(groups)
        /\ active \in [Kind -> Id \cup {None}] /\ groups \in Seq(Group)
    BY DEF IInv, None, Id, Typed
  <1>1. Len(Order) \in Nat /\ Len(Order) >= 5
    BY OrderFacts
  <1>2. /\ Len(Order) \in 5..7 /\ DOMAIN Order = 1..Len(Order)
        /\ \A i \in DOMAIN Order : Order[i] \in Destroyed /\ Order[i] \in Kind \ {"world", "inner"}
        /\ \A i, j \in DOMAIN Order : Order[i] = Order[j] => i = j
        /\ Order[1] = "tp" /\ Order[2] = "dcp" /\ Order[3] = "pcp" /\ Order[4] = "pp"
    BY OrderFacts, DestroyFacts
  <1>3. CASE /\ active["tp"] # None /\ UNCHANGED <<groups, active, failures>>
             /\ Outcome(op, FALSE)
    <2>1. last' \in [op : {"none", "ensure", "cleanup"}, ok : BOOLEAN]
      BY <1>3 DEF Outcome, Observed, Nothing
    <2>2. last' # [op |-> "ensure", ok |-> TRUE] /\ last'.op # "cleanup"
      BY <1>3 DEF Outcome, Observed, Nothing
    <2>3. EnsuredIsWhole' /\ CleanupIsComplete'
      BY <2>2 DEF EnsuredIsWhole, CleanupIsComplete
    <2> QED BY <1>3, <2>1, <2>3, SameState
  <1>4. CASE /\ \A i \in DOMAIN Order : active[Order[i]] = None
             /\ \A i \in 1..stop - 1 : active'[Order[i]] = Len(groups) + i
             /\ \A kind \in Kind :
                   (\A i \in 1..stop - 1 : Order[i] # kind) => active'[kind] = active[kind]
             /\ active' = [kind \in Kind |-> active'[kind]]
             /\ failures' <= MaxFailures
             /\ \/ /\ stop = Len(Order) + 1 /\ failures' = failures /\ Outcome(op, TRUE)
                   /\ groups' = Constructed(SubSeq(Order, 1, Len(Order)), TRUE)
                \/ /\ stop <= Len(Order) /\ failures' = failures + 1 /\ Outcome(op, FALSE)
                   /\ groups' = Constructed(SubSeq(Order, 1, stop), FALSE)
    <2>1. PICK n \in 1..Len(Order), ok \in BOOLEAN :
            /\ groups' = Constructed(SubSeq(Order, 1, n), ok)
            /\ Outcome(op, ok)
            /\ \/ stop = Len(Order) + 1 /\ n = Len(Order) /\ ok = TRUE /\ failures' = failures
               \/ stop <= Len(Order) /\ n = stop /\ ok = FALSE /\ failures' = failures + 1
      <3>1. CASE stop = Len(Order) + 1
        <4>1. Len(Order) \in 1..Len(Order) /\ ~(stop <= Len(Order))
          BY <1>1, <3>1
        <4>2. /\ failures' = failures /\ Outcome(op, TRUE)
              /\ groups' = Constructed(SubSeq(Order, 1, Len(Order)), TRUE)
          BY <1>4, <4>1
        <4> QED BY <3>1, <4>1, <4>2
      <3>2. CASE stop <= Len(Order)
        <4>1. stop \in 1..Len(Order) /\ stop # Len(Order) + 1
          BY <1>1, <3>2
        <4>2. /\ failures' = failures + 1 /\ Outcome(op, FALSE)
              /\ groups' = Constructed(SubSeq(Order, 1, stop), FALSE)
          BY <1>4, <4>1
        <4> QED BY <3>2, <4>1, <4>2
      <3>3. stop = Len(Order) + 1 \/ stop <= Len(Order)
        BY <1>1
      <3> QED BY <3>1, <3>2, <3>3
    <2>2. PICK names \in Seq(Name) :
            /\ names = SubSeq(Order, 1, n) /\ Len(names) = n
            /\ \A i \in 1..n : names[i] = Order[i]
      <3>1. \A i \in 1..n : Order[i] \in Name
        BY <1>2 DEF Name
      <3>2. /\ SubSeq(Order, 1, n) \in Seq(Name) /\ Len(SubSeq(Order, 1, n)) = n
            /\ \A i \in 1..n : SubSeq(Order, 1, n)[i] = Order[i]
        BY <3>1, SubSeqProperties
      <3> QED BY <3>2
    <2>3. Grown(names, ok)
      <3>1. \A i, j \in 1..Len(names) : names[i] = names[j] => i = j
        <4>1. \A i \in 1..n : i \in DOMAIN Order
          BY <1>1, <1>2
        <4>2. SUFFICES ASSUME NEW i \in 1..n, NEW j \in 1..n, names[i] = names[j]
                       PROVE  i = j
          BY <2>2
        <4>3. Order[i] = Order[j]
          BY <2>2, <4>2
        <4> QED BY <1>2, <4>1, <4>3
      <3>2. groups' = Constructed(names, ok)
        BY <2>1, <2>2, Zenon
      <3> QED BY <1>0, <3>1, <3>2, ConstructStep, Zenon
    <2>4. \A i \in Id : groups'[i] = groups[i] /\ i \in Id'
      BY <2>3 DEF Grown
    <2>5. ASSUME NEW i \in 1..stop - 1
          PROVE  /\ i \in DOMAIN Order /\ active'[Order[i]] = Len(groups) + i
                 /\ Len(groups) + i \in Id' /\ groups'[Len(groups) + i].name = Order[i]
                 /\ groups'[Len(groups) + i].state = "live"
      <3>1. i \in 1..n /\ i \in 1..Len(Order) /\ (i < n \/ ok = TRUE)
        BY <1>1, <2>1
      <3>2. i \in DOMAIN Order /\ active'[Order[i]] = Len(groups) + i
        BY <1>2, <1>4, <3>1
      <3>3. i \in 1..Len(names) /\ names[i] = Order[i] /\ (i < Len(names) \/ ok = TRUE)
        BY <2>2, <3>1
      <3>4. /\ Len(groups) + i \in Id' /\ groups'[Len(groups) + i].name = names[i]
            /\ groups'[Len(groups) + i].state = IF i < Len(names) \/ ok THEN "live" ELSE "failed"
        BY <2>3, <3>3 DEF Grown
      <3> QED BY <3>2, <3>3, <3>4
    <2>6. ASSUME NEW j \in Id', j \notin Id, groups'[j].state = "live"
          PROVE  active'[groups'[j].name] = j
      <3>1. PICK i \in 1..Len(names) : j = Len(groups) + i
        BY <2>3, <2>6 DEF Grown
      <3>2. i < n \/ ok = TRUE
        BY <2>2, <2>3, <2>6, <3>1 DEF Grown
      <3>3. i \in 1..stop - 1
        BY <1>1, <2>1, <2>2, <3>2
      <3> QED BY <2>5, <3>1, <3>3
    <2>7. ASSUME NEW kind \in Kind, active'[kind] # active[kind]
          PROVE  \E i \in 1..stop - 1 : Order[i] = kind
      BY <1>4, <2>7
    <2>8. ~patch.open /\ ~patch'.open /\ patch.old = None
      <3>1. active["tp"] = None
        BY <1>2, <1>4
      <3> QED BY <1>0, <3>1 DEF Named
    <2>9. \A kind \in {"world", "inner"} : kind \in Kind /\ active'[kind] = active[kind]
      <3>1. SUFFICES ASSUME NEW kind \in {"world", "inner"}
                     PROVE  kind \in Kind /\ active'[kind] = active[kind]
        OBVIOUS
      <3>2. kind \in Kind
        BY DEF Kind
      <3>3. \A i \in 1..stop - 1 : Order[i] # kind
        <4>1. SUFFICES ASSUME NEW i \in 1..stop - 1
                       PROVE  Order[i] # kind
          OBVIOUS
        <4>2. i \in DOMAIN Order
          BY <2>5
        <4>3. Order[i] \in Kind \ {"world", "inner"}
          BY <1>2, <4>2
        <4> QED BY <4>3
      <3> QED BY <2>7, <3>2, <3>3
    <2>10. Typed'
      <3>1. active' \in [Kind -> Id' \cup {None}]
        <4>1. \A kind \in Kind : active'[kind] \in Id' \cup {None}
          BY <1>0, <2>4, <2>5, <2>7
        <4> QED BY <1>4, <4>1
      <3>2. last' \in [op : {"none", "ensure", "cleanup"}, ok : BOOLEAN]
        BY <2>1 DEF Outcome, Observed, Nothing
      <3>3. failures' \in 0..MaxFailures
        BY <1>0, <1>4, <2>1, DeploymentsAssumption DEF Typed
      <3>4. patch' \in [open : BOOLEAN, old : Id' \cup {None}]
        BY <1>0, <2>4 DEF Typed
      <3>5. groups' \in Seq(Group)
        BY <2>3 DEF Grown
      <3> QED BY <1>0, <3>1, <3>2, <3>3, <3>4, <3>5 DEF Typed
    <2>11. Named'
      <3>1. ASSUME NEW kind \in Kind \ {"inner"}, active'[kind] # None
            PROVE  /\ active'[kind] \in Id' /\ groups'[active'[kind]].state = "live"
                   /\ groups'[active'[kind]].name = kind
        <4>1. CASE active'[kind] = active[kind]
          <5>1. /\ active[kind] \in Id /\ groups[active[kind]].state = "live"
                /\ groups[active[kind]].name = kind
            BY <1>0, <2>8, <3>1, <4>1 DEF Named, Live, State
          <5> QED BY <2>4, <4>1, <5>1
        <4>2. CASE active'[kind] # active[kind]
          BY <2>5, <2>7, <4>2
        <4> QED BY <4>1, <4>2
      <3>2. active'["inner"] # None => groups'[active'["inner"]].name \in {"world", "inner"}
        BY <1>0, <2>4, <2>9 DEF Named
      <3>3. patch'.old = None
        BY <2>8
      <3> QED BY <2>8, <3>1, <3>2, <3>3 DEF Named, Live, State
    <2>12. Held'
      <3>1. SUFFICES ASSUME NEW i \in Id', groups'[i].state = "live", groups'[i].name \in Destroyed
                     PROVE  active'[groups'[i].name] = i
        BY DEF Held, Live, State
      <3>2. CASE i \in Id
        <4>1. groups'[i] = groups[i] /\ active[groups[i].name] = i /\ groups[i].name \in Kind
          BY <1>0, <2>4, <2>8, <3>1, <3>2, DestroyFacts DEF Held, Live, State
        <4>2. \A j \in 1..stop - 1 : Order[j] # groups[i].name
          BY <1>0, <1>4, <2>5, <3>2, <4>1
        <4> QED BY <1>4, <4>1, <4>2
      <3>3. CASE i \notin Id
        BY <2>6, <3>1, <3>3
      <3> QED BY <3>2, <3>3
    <2>13. ASSUME NEW i \in DOMAIN Order
           PROVE  active'[Order[i]] # None <=> i < stop
      <3>1. CASE i < stop
        <4>1. i \in 1..stop - 1
          BY <1>2, <3>1
        <4> QED BY <1>0, <2>5, <3>1, <4>1
      <3>2. CASE ~(i < stop)
        <4>1. \A j \in 1..stop - 1 : Order[j] # Order[i]
          BY <1>2, <2>5, <3>2
        <4> QED BY <1>2, <1>4, <3>2, <4>1
      <3> QED BY <3>1, <3>2
    <2>14. Filled'
      <3>1. Order' = Order
        BY DEF Order
      <3>2. failures' = 0 => stop = Len(Order) + 1
        BY <1>0, <2>1, DeploymentsAssumption DEF Typed
      <3>3. SUFFICES ASSUME NEW i \in DOMAIN Order, NEW j \in DOMAIN Order,
                            active'[Order[j]] # None, i < j \/ failures' = 0
                     PROVE  active'[Order[i]] # None
        BY <3>1 DEF Filled
      <3>4. i < stop
        BY <1>2, <2>13, <3>2, <3>3
      <3> QED BY <2>13, <3>4
    <2>15. EnsuredIsWhole'
      <3>1. SUFFICES ASSUME last' = [op |-> "ensure", ok |-> TRUE]
                     PROVE  /\ \A kind \in {"tp", "dcp", "pcp", "pp"} :
                                 /\ active'[kind] \in Id' /\ groups'[active'[kind]].state = "live"
                                 /\ groups'[active'[kind]].name = kind
                            /\ \A i \in DOMAIN Order : active'[Order[i]] # None
        BY DEF EnsuredIsWhole, Live, State, Order
      <3>2. ok = TRUE
        BY <2>1, <3>1 DEF Outcome, Observed, Nothing
      <3>3. stop = Len(Order) + 1
        BY <2>1, <3>2
      <3>4. 1 \in 1..stop - 1 /\ 2 \in 1..stop - 1 /\ 3 \in 1..stop - 1 /\ 4 \in 1..stop - 1
        BY <1>2, <3>3
      <3>5. \A kind \in {"tp", "dcp", "pcp", "pp"} : \E i \in 1..stop - 1 : kind = Order[i]
        BY <1>2, <3>4
      <3>6. \A i \in DOMAIN Order : i < stop
        BY <1>1, <1>2, <3>3
      <3>7. \A kind \in {"tp", "dcp", "pcp", "pp"} :
                 /\ active'[kind] \in Id' /\ groups'[active'[kind]].state = "live"
                 /\ groups'[active'[kind]].name = kind
        <4>1. SUFFICES ASSUME NEW i \in 1..stop - 1
                       PROVE  /\ active'[Order[i]] \in Id'
                              /\ groups'[active'[Order[i]]].state = "live"
                              /\ groups'[active'[Order[i]]].name = Order[i]
          BY <3>5
        <4> QED BY <2>5
      <3> QED BY <2>13, <3>6, <3>7
    <2>16. CleanupIsComplete'
      <3>1. last'.op # "cleanup"
        BY <2>1 DEF Outcome, Observed, Nothing
      <3> QED BY <3>1 DEF CleanupIsComplete
    <2>17. Down'
      BY DEF Down
    <2> QED BY <2>3, <2>10, <2>11, <2>12, <2>14, <2>15, <2>16, <2>17 DEF IInv, Grown
  <1> QED BY <1>0, <1>3, <1>4, BuildCases

\* initialize_model_parallel keeps the invariant, also where its asserts stop it.
LEMMA InitializeKeeps ==
    ASSUME IInv, UNCHANGED deployment, NEW op \in {"initialize", "ensure"},
           InitializeModelParallel(op)
    PROVE  IInv'
  <1>1. UNCHANGED <<initialized, nodeCount, patched, patch>>
    BY DEF InitializeModelParallel
  <1>2. CASE initialized /\ Got("world")
    <2>1. PICK stop \in 1..Len(Order) + 1 : Build(op, stop)
      BY <1>2 DEF InitializeModelParallel
    <2> QED BY <1>1, <1>2, <2>1, BuildKeeps
  <1>3. CASE ~(initialized /\ Got("world"))
    <2>1. Outcome(op, FALSE) /\ UNCHANGED <<active, groups, failures>>
      BY <1>3 DEF InitializeModelParallel
    <2>2. last' \in [op : {"none", "ensure", "cleanup"}, ok : BOOLEAN]
      BY <2>1 DEF Outcome, Observed, Nothing
    <2>3. last' # [op |-> "ensure", ok |-> TRUE] /\ last'.op # "cleanup"
      BY <2>1 DEF Outcome, Observed, Nothing
    <2>4. EnsuredIsWhole' /\ CleanupIsComplete'
      BY <2>3 DEF EnsuredIsWhole, CleanupIsComplete
    <2> QED BY <1>1, <2>1, <2>2, <2>4, SameState
  <1> QED BY <1>2, <1>3

\* Where ensure_model_parallel_initialized finds the tensor- and pipeline-parallel groups
\* and the sizes match, nothing is missing that was not missing at its last failure.
LEMMA EnsureKeeps ==
    ASSUME IInv, UNCHANGED deployment, EnsureModelParallel
    PROVE  IInv'
  <1>1. CASE InitializeModelParallel("ensure")
    BY <1>1, InitializeKeeps
  <1>2. CASE /\ Got("world") => ModelParallelIsInitialized
             /\ Outcome("ensure", Got("world") /\ SizesMatch)
             /\ UNCHANGED <<initialized, active, groups, nodeCount, patched, patch, failures>>
    <2>1. PICK ok \in BOOLEAN : ok <=> (Got("world") /\ SizesMatch)
      OBVIOUS
    <2>2. last' = [op |-> "ensure", ok |-> ok]
      <3>1. last' = [op |-> "ensure", ok |-> Got("world") /\ SizesMatch]
        BY <1>2 DEF Outcome, Observed
      <3>2. (Got("world") /\ SizesMatch) = ok
        BY <2>1 DEF Got, SizesMatch
      <3> QED BY <3>1, <3>2
    <2>3. last' \in [op : {"none", "ensure", "cleanup"}, ok : BOOLEAN] /\ last'.op # "cleanup"
      BY <2>2
    <2>4. CleanupIsComplete'
      BY <2>3 DEF CleanupIsComplete
    <2>5. EnsuredIsWhole'
      <3>1. SUFFICES ASSUME last' = [op |-> "ensure", ok |-> TRUE]
                     PROVE  /\ \A kind \in {"tp", "dcp", "pcp", "pp"} :
                                 Live(active[kind]) /\ groups[active[kind]].name = kind
                            /\ failures = 0 => \A i \in DOMAIN Order : active[Order[i]] # None
        BY <1>2 DEF EnsuredIsWhole, Live, State, Order, Id
      <3>2. Got("world") /\ SizesMatch
        BY <2>1, <2>2, <3>1
      <3>3. /\ active["tp"] # None /\ active["pp"] # None /\ active["pcp"] # None
            /\ groups[active["tp"]].name = "tp"
        BY <1>2, <3>2 DEF Got, SizesMatch, ModelParallelIsInitialized
      <3>4. /\ 1 \in DOMAIN Order /\ 2 \in DOMAIN Order /\ 4 \in DOMAIN Order
            /\ Order[1] = "tp" /\ Order[2] = "dcp" /\ Order[4] = "pp"
        BY OrderFacts
      <3>5. Filled /\ Named
        BY DEF IInv
      <3>6. active["dcp"] # None
        BY <3>3, <3>4, <3>5 DEF Filled
      <3>7. failures = 0 => \A i \in DOMAIN Order : active[Order[i]] # None
        BY <3>3, <3>4, <3>5 DEF Filled
      <3>8. {"tp", "dcp", "pcp", "pp"} \subseteq Kind \ {"inner"}
        BY DEF Kind
      <3> QED BY <3>3, <3>5, <3>6, <3>7, <3>8 DEF Named
    <2> QED BY <1>2, <2>3, <2>4, <2>5, SameState
  <1> QED BY <1>1, <1>2 DEF EnsureModelParallel

\* Every step keeps the invariant.
LEMMA StepKeeps ==
    ASSUME IInv, [Next]_vars
    PROVE  IInv'
  <1>1. CASE UNCHANGED vars
    <2>1. last' \in [op : {"none", "ensure", "cleanup"}, ok : BOOLEAN]
      BY <1>1 DEF IInv, Typed, vars
    <2>2. EnsuredIsWhole' /\ CleanupIsComplete'
      BY <1>1 DEF IInv, EnsuredIsWhole, CleanupIsComplete, Order, Live, State, Id, vars
    <2> QED BY <1>1, <2>1, <2>2, SameState DEF vars
  <1>2. CASE Next
    <2>0. UNCHANGED deployment
      BY <1>2 DEF Next
    <2>1. ASSUME NEW fails \in {"none", "world", "count", "inner"}, InitEnvironment(fails)
          PROVE  IInv'
      BY <2>0, <2>1, InitEnvironmentKeeps
    <2>2. CASE InitializeModelParallel("initialize")
      BY <2>0, <2>2, InitializeKeeps
    <2>3. CASE EnsureModelParallel
      BY <2>0, <2>3, EnsureKeeps
    <2>4. ASSUME NEW ok \in BOOLEAN, MakeDraft(ok)
          PROVE  IInv'
      BY <2>0, <2>4, MakeDraftKeeps, Zenon
    <2>5. ASSUME NEW draft \in Id, EnterPatch(draft)
          PROVE  IInv'
      BY <2>0, <2>5, EnterPatchKeeps
    <2>6. CASE LeavePatch
      BY <2>0, <2>6, LeavePatchKeeps
    <2>7. CASE DestroyModelParallel
      <3>1. TearDown("destroy_model_parallel", TRUE, FALSE)
        BY <2>7 DEF DestroyModelParallel
      <3> QED BY <2>0, <3>1, TearDownKeeps, Zenon
    <2>8. CASE DestroyEnvironment
      <3>1. /\ TearDown("destroy_environment", FALSE, TRUE)
            /\ \A kind \in Destroyed : active[kind] = None
        BY <2>8 DEF DestroyEnvironment
      <3> QED BY <2>0, <3>1, TearDownKeeps, Zenon
    <2>9. CASE Cleanup
      <3>1. TearDown("cleanup", TRUE, TRUE)
        BY <2>9 DEF Cleanup
      <3> QED BY <2>0, <3>1, TearDownKeeps, Zenon
    <2> QED BY <1>2, <2>1, <2>2, <2>3, <2>4, <2>5, <2>6, <2>7, <2>8, <2>9, Zenon DEF Next, Step
  <1> QED BY <1>1, <1>2

\* Before the first call no global is set and no group exists.
LEMMA InitHolds == Init => IInv
  <1> SUFFICES ASSUME Init PROVE IInv
    OBVIOUS
  <1>1. Len(groups) = 0 /\ Id = {} /\ groups \in Seq(Group)
    BY DEF Init, Id
  <1>2. Typed
    <2>1. active \in [Kind -> Id \cup {None}] /\ patch \in [open : BOOLEAN, old : Id \cup {None}]
      BY DEF Init
    <2>2. last \in [op : {"none", "ensure", "cleanup"}, ok : BOOLEAN]
      BY DEF Init, Nothing
    <2>3. failures \in 0..MaxFailures
      BY DeploymentsAssumption DEF Init
    <2> QED BY <1>1, <2>1, <2>2, <2>3 DEF Init, Typed
  <1>3. NamesAreUnique /\ Numbered /\ Held /\ Down
    BY <1>1 DEF NamesAreUnique, Numbered, Held, Down
  <1>4. \A kind \in Kind : active[kind] = None
    BY DEF Init
  <1>5. Named
    BY <1>4 DEF Init, Named, Kind
  <1>6. Filled
    BY <1>4, OrderFacts, DestroyFacts DEF Filled
  <1>7. EnsuredIsWhole /\ CleanupIsComplete
    BY DEF Init, Nothing, EnsuredIsWhole, CleanupIsComplete
  <1> QED BY <1>2, <1>3, <1>5, <1>6, <1>7 DEF IInv

---------------------------------------------------------------------------
(* The theorems.                                                           *)

\* The invariant holds whatever the process calls, in whatever order, and wherever the
\* construction of a group raises.
THEOREM Invariance == Spec => []IInv
  BY InitHolds, StepKeeps, PTL DEF Spec

\* The variables have their types, and a patch restores a group.
THEOREM TypesHold == Spec => []TypeOK
  <1>1. IInv => TypeOK
    <2> SUFFICES ASSUME IInv PROVE TypeOK
      OBVIOUS
    <2>1. /\ initialized \in BOOLEAN /\ nodeCount \in BOOLEAN /\ patched \in BOOLEAN
          /\ patch.open \in BOOLEAN /\ last.ok \in BOOLEAN
      BY DEF IInv, Typed
    <2>2. \A i \in Id : State(i) \in {"live", "destroyed", "gone", "failed"}
      <3>1. \A i \in Id : groups[i] \in Group
        BY DEF IInv, Typed, Id
      <3> QED BY <3>1 DEF State, Group
    <2>3. patch.open <=> patch.old \in Id
      BY <2>1 DEF IInv, Named, Live, None, Id
    <2> QED BY <2>1, <2>2, <2>3 DEF TypeOK, IInv, Typed
  <1> QED BY <1>1, Invariance, PTL

\* No two groups have the same name, dead or alive.
THEOREM NamesStayUnique == Spec => []NamesAreUnique
  <1>1. IInv => NamesAreUnique
    BY DEF IInv
  <1> QED BY <1>1, Invariance, PTL

\* No global but _INNER_DP_WORLD ever names a group that cannot be used.
THEOREM GlobalsStayLive == Spec => []GlobalsAreLive
  <1>1. IInv => GlobalsAreLive
    BY DEF IInv, Named, GlobalsAreLive
  <1> QED BY <1>1, Invariance, PTL

\* A custom operator finds a group of the model by name if and only if it can be used.
THEOREM LookupsFindTheLiving == Spec => []LookupFindsTheLiving
  <1>1. IInv => LookupFindsTheLiving
    <2> SUFFICES ASSUME IInv, NEW id \in Id, groups[id].name \in Destroyed
                 PROVE  Answers(id) <=> Live(id)
      BY DEF LookupFindsTheLiving
    <2>1. /\ Named /\ Held /\ active \in [Kind -> Id \cup {None}] /\ id # None
          /\ groups[id].name \in Kind /\ groups[id].name \notin {"world", "inner"}
      BY DestroyFacts DEF IInv, Typed, Id, None
    <2>2. Answers(id) <=> (\E kind \in Kind : active[kind] = id) \/ patch.old = id
      BY <2>1 DEF Answers, Range
    <2>3. ASSUME Live(id) PROVE Answers(id)
      BY <2>1, <2>2, <2>3 DEF Held
    <2>4. ASSUME NEW kind \in Kind, active[kind] = id PROVE Live(id)
      BY <2>1, <2>4 DEF Named
    <2>5. ASSUME patch.old = id PROVE Live(id)
      BY <2>1, <2>5 DEF Named
    <2> QED BY <2>2, <2>3, <2>4, <2>5
  <1> QED BY <1>1, Invariance, PTL

\* What ensure_model_parallel_initialized promises when it returns.
THEOREM EnsuredStaysWhole == Spec => []EnsuredIsWhole
  <1>1. IInv => EnsuredIsWhole
    BY DEF IInv
  <1> QED BY <1>1, Invariance, PTL

\* After cleanup_dist_env_and_memory no usable group and no global of the model is left.
THEOREM CleanupsAreComplete == Spec => []CleanupIsComplete
  <1>1. IInv => CleanupIsComplete
    BY DEF IInv
  <1> QED BY <1>1, Invariance, PTL
============================================================================
