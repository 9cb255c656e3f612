-------------------------- MODULE MigrationsProofs --------------------------
(***************************************************************************)
(* Proofs about Migrations, for any replicas, batches, kills and indexes.  *)
(* The lemmas about a step of run_migrations are those Startup's proofs    *)
(* rest on as well, where the pods are of several releases.                *)
(***************************************************************************)
EXTENDS Migrations, FiniteSetTheorems, SequenceTheorems, TLAPS

-----------------------------------------------------------------------------
(* Type correctness, and the order of what is recorded *)

StartingPod(p) == p \notin {Down, Serving}

\* Which phases of pod p belong to which migration, and what is left of 0001
\* when A is recorded.
PhaseOrder(p, A) ==
  /\ p.phase \in {"steps", "empty", "fill", "step"} => p.at = 1
  /\ p.phase = "read" => p.at \in {2, 5}
  /\ p.phase \in {"replace", "insert"} => p.at = 2
  /\ p.phase \in {"clear", "refill"} => p.at \in {3, 4}
  /\ p.phase = "upsert" => p.at = 5
  /\ p.phase = "create" => p.at = 6
  /\ p.phase \in {"empty", "fill", "step"} =>
       /\ p.tables \in {<<"materials">>, <<"products">>, <<"materials", "products">>}
       /\ \A t \in Table \ A : \E i \in 1..Len(p.tables) : p.tables[i] = t
  /\ p.phase = "record" /\ p.at = 1 => Table \subseteq A
  /\ p.phase = "read" => p.tables \in {<<"products">>, <<"materials", "products">>}

\* All before the migration in hand is recorded, and that one was not when the
\* pod started.
PodOrder(p, A) ==
  StartingPod(p) =>
    /\ p.known \subseteq A /\ p.at <= p.last
    /\ \A i \in 1..6 : i < p.at => Order[i] \in A
    /\ p.phase # "choose" => Order[p.at] \notin p.known
    /\ PhaseOrder(p, A)

OrderInv ==
  /\ TypeOK
  /\ AppliedInOrder
  /\ \A r \in Replicas : PodOrder(pod[r], applied)

\* What a step of pod p leaves: its pod o, with A recorded.
PodNext(p, o, A) ==
  /\ o \in Starting \cup {Down, Serving}
  /\ PodOrder(o, A)
  /\ StartingPod(o) => o.last = p.last /\ o.known = p.known /\ o.at >= p.at
  /\ o = Serving => FirstOf(p.last) \subseteq A

LEMMA OrderIs ==
  /\ Len(Order) = 6
  /\ Order[1] = "import" /\ Order[2] = "build" /\ Order[3] = "schematics"
  /\ Order[4] = "again" /\ Order[5] = "reactions" /\ Order[6] = "index"
  /\ \A i \in 1..6 : Order[i] \in Migration
  /\ \A m \in Migration : \E i \in 1..6 : Order[i] = m
BY DEF Order, Migration

LEMMA PodsApart ==
  /\ Down.phase = "down" /\ Serving.phase = "serving" /\ Down # Serving
  /\ Down \notin Starting /\ Serving \notin Starting
  /\ \A p \in Starting \cup {Down, Serving} : StartingPod(p) <=> p \in Starting
  /\ \A p \in Starting \cup {Down, Serving} : p.phase \in Phases <=> p \in Starting
<1>1. \A p \in Starting : p.phase \in Phases
  BY DEF Starting
<1>2. Down.phase = "down" /\ Serving.phase = "serving"
  BY DEF Down, Serving
<1>3. "down" \notin Phases /\ "serving" \notin Phases
  BY DEF Phases
<1> QED
  BY <1>1, <1>2, <1>3 DEF StartingPod

LEMMA OneOrTwoTables ==
  /\ <<"materials">> \in Seq(Table) /\ <<"products">> \in Seq(Table)
  /\ <<"materials", "products">> \in Seq(Table) /\ <<>> \in Seq(Table)
  /\ Tail(<<"materials", "products">>) = <<"products">>
  /\ Tail(<<"materials">>) = <<>> /\ Tail(<<"products">>) = <<>>
  /\ Head(<<"materials", "products">>) = "materials"
  /\ Head(<<"materials">>) = "materials" /\ Head(<<"products">>) = "products"
  /\ <<"materials">> # <<>> /\ <<"products">> # <<>> /\ <<"materials", "products">> # <<>>
  /\ <<"materials", "products">> # <<"products">>
<1>1. /\ <<"materials">> # <<>> /\ <<"products">> # <<>> /\ <<"materials", "products">> # <<>>
      /\ <<"materials", "products">> # <<"products">>
  <2>1. Len(<<>>) = 0 /\ Len(<<"materials">>) = 1 /\ Len(<<"products">>) = 1
        /\ Len(<<"materials", "products">>) = 2
    OBVIOUS
  <2> QED
    BY <2>1
<1> QED
  BY <1>1, EmptySeq DEF Table

\* A pod goes on to the next migration once all up to this one are recorded.
LEMMA OnwardNext ==
  ASSUME NEW p \in Starting, NEW A, p.known \subseteq A, p.at <= p.last,
         \A i \in 1..6 : i <= p.at => Order[i] \in A
  PROVE  PodNext(p, Onward(p), A)
<1>1. p.at \in 1..6 /\ p.last \in 1..6
  BY OrderIs DEF Starting
<1>2. CASE p.at = p.last
  <2>1. Onward(p) = Serving
    BY <1>2 DEF Onward
  <2>2. FirstOf(p.last) \subseteq A
    BY <1>1, <1>2 DEF FirstOf
  <2> QED
    BY <2>1, <2>2 DEF PodNext, PodOrder, StartingPod
<1>3. CASE p.at # p.last
  <2> DEFINE o == [p EXCEPT !.phase = "choose", !.at = p.at + 1]
  <2>1. Onward(p) = o
    BY <1>3 DEF Onward
  <2>2. p.at + 1 \in 1..Len(Order)
    BY <1>1, <1>3, OrderIs
  <2>3. /\ o \in Starting /\ o.phase = "choose" /\ o.at = p.at + 1
        /\ o.last = p.last /\ o.known = p.known
    BY <2>2 DEF Starting, Phases
  <2> HIDE DEF o
  <2>4. \A i \in 1..6 : i < o.at => Order[i] \in A
    BY <2>3, <1>1
  <2>5. o.at <= o.last /\ o.at >= p.at
    BY <2>3, <1>1, <1>3
  <2>6. PodOrder(o, A)
    BY <2>3, <2>4, <2>5 DEF PodOrder, PhaseOrder
  <2> QED
    BY <2>1, <2>3, <2>5, <2>6, PodsApart DEF PodNext
<1> QED
  BY <1>2, <1>3

\* A pod that ends.
LEMMA DownNext == ASSUME NEW p, NEW A PROVE PodNext(p, Down, A)
BY PodsApart DEF PodNext, PodOrder, StartingPod

-----------------------------------------------------------------------------
(* Each step of run_migrations keeps the order *)

\* What a step of r that leaves pod o does to the order.
OrderStep(r, o) ==
  /\ pod' = [pod EXCEPT ![r] = o]
  /\ pod[r] \in Starting
  /\ PodNext(pod[r], o, applied')
  /\ applied \subseteq applied' /\ applied' \subseteq Migration \cup Table
  /\ AppliedInOrder'

LEMMA ApplyKept ==
  ASSUME TypeOK, AppliedInOrder, UNCHANGED applied
  PROVE  /\ applied \subseteq applied' /\ applied' \subseteq Migration \cup Table
         /\ AppliedInOrder'
BY DEF TypeOK, AppliedInOrder

LEMMA ChooseOrder ==
  ASSUME OrderInv, NEW r \in Replicas, Choose(r)
  PROVE  \E o : OrderStep(r, o)
<1>1. PICK p : p = pod[r]
  OBVIOUS
<1>2. p \in Starting /\ p.phase = "choose" /\ PodOrder(p, applied) /\ StartingPod(p)
  <2>1. pod[r] \in Starting \cup {Down, Serving} /\ p.phase = "choose" /\ PodOrder(p, applied)
    BY <1>1 DEF OrderInv, TypeOK, Choose
  <2> QED
    BY <2>1, <1>1, PodsApart DEF Phases
<1>3. PICK m : m = Order[p.at]
  OBVIOUS
<1>4. m \in Migration /\ p.at \in 1..6 /\ p.last \in 1..6
  BY <1>2, <1>3, OrderIs DEF Starting
<1>5. /\ applied' = applied
      /\ pod' = [pod EXCEPT ![r] =
                   IF m \in p.known THEN Onward(p)
                   ELSE [p EXCEPT !.phase = FirstPhase[m],
                                  !.tables = IF FirstPhase[m] = "read" THEN Tables ELSE <<>>]]
  BY <1>1, <1>3 DEF Choose
<1>6. AppliedInOrder' /\ applied \subseteq applied' /\ applied' \subseteq Migration \cup Table
  BY ApplyKept, <1>5 DEF OrderInv
<1>7. CASE m \in p.known
  <2>1. \A i \in 1..6 : i <= p.at => Order[i] \in applied
    BY <1>2, <1>3, <1>4, <1>7 DEF PodOrder
  <2>2. p.known \subseteq applied /\ p.at <= p.last
    BY <1>2 DEF PodOrder
  <2>3. PodNext(p, Onward(p), applied)
    BY <1>2, <2>1, <2>2, OnwardNext
  <2> QED
    BY <2>3, <1>1, <1>2, <1>5, <1>6, <1>7 DEF OrderStep
<1>8. CASE m \notin p.known
  <2>1. PICK h, t : h = FirstPhase[m] /\ t = (IF h = "read" THEN Tables ELSE <<>>)
    OBVIOUS
  <2>2. \/ m = "import" /\ p.at = 1 /\ h = "steps"
        \/ m \in {"build", "reactions"} /\ p.at \in {2, 5} /\ h = "read"
        \/ m \in {"schematics", "again"} /\ p.at \in {3, 4} /\ h = "clear"
        \/ m = "index" /\ p.at = 6 /\ h = "create"
    <3>1. \/ m = "import" /\ p.at = 1
          \/ m \in {"build", "reactions"} /\ p.at \in {2, 5}
          \/ m \in {"schematics", "again"} /\ p.at \in {3, 4}
          \/ m = "index" /\ p.at = 6
      <4>1. p.at \in {1, 2, 3, 4, 5, 6}
        BY <1>4
      <4> QED
        BY <4>1, <1>3, OrderIs
    <3> QED
      BY <3>1, <2>1 DEF FirstPhase, Migration
  <2>3. h \in Phases /\ t \in Seq(Table) /\ (h = "read" => t = <<"materials", "products">>)
    BY <2>1, <2>2, OneOrTwoTables DEF Phases, Tables
  <2> DEFINE o == [p EXCEPT !.phase = h, !.tables = t]
  <2>4. o \in Starting /\ o.phase = h /\ o.tables = t /\ o.at = p.at /\ o.known = p.known
        /\ o.last = p.last
    BY <1>2, <2>3 DEF Starting
  <2>5. pod' = [pod EXCEPT ![r] = o]
    BY <1>5, <1>8, <2>1
  <2> HIDE DEF o
  <2>6. PodOrder(o, applied)
    <3>1. o.known \subseteq applied /\ o.at <= o.last
          /\ \A i \in 1..6 : i < o.at => Order[i] \in applied
      BY <1>2, <2>4 DEF PodOrder
    <3>2. Order[o.at] \notin o.known
      BY <1>3, <1>8, <2>4
    <3> QED
      BY <3>1, <3>2, <2>2, <2>3, <2>4 DEF PodOrder, PhaseOrder
  <2>7. PodNext(p, o, applied)
    BY <2>4, <2>6, <1>4, PodsApart DEF PodNext
  <2> QED
    BY <2>5, <2>7, <1>1, <1>2, <1>5, <1>6 DEF OrderStep
<1> QED
  BY <1>7, <1>8

\* A step within a migration.
LEMMA StayOrder ==
  ASSUME OrderInv, NEW r \in Replicas, NEW p, p = pod[r], p \in Starting, p.phase # "choose",
         NEW o \in Starting, o.at = p.at, o.known = p.known, o.last = p.last,
         UNCHANGED applied, pod' = [pod EXCEPT ![r] = o], PhaseOrder(o, applied)
  PROVE  OrderStep(r, o)
<1>1. PodOrder(p, applied) /\ StartingPod(p)
  BY PodsApart DEF OrderInv
<1>2. PodOrder(o, applied)
  BY <1>1 DEF PodOrder
<1>3. p.at \in 1..6
  BY OrderIs DEF Starting
<1>4. PodNext(p, o, applied)
  BY <1>2, <1>3, PodsApart DEF PodNext
<1> QED
  BY <1>4, ApplyKept DEF OrderStep, OrderInv

\* What is known of a pod in one of the phases of a migration.
LEMMA InPhase ==
  ASSUME OrderInv, NEW r \in Replicas, NEW p, p = pod[r], p.phase \in Phases
  PROVE  /\ p \in Starting /\ StartingPod(p) /\ PodOrder(p, applied)
         /\ p.phase # "choose" => PhaseOrder(p, applied)
         /\ p.at \in 1..6 /\ p.last \in 1..6
<1>1. p \in Starting /\ StartingPod(p) /\ PodOrder(p, applied)
  BY PodsApart DEF OrderInv, TypeOK
<1>2. p.at \in 1..6 /\ p.last \in 1..6
  BY <1>1, OrderIs DEF Starting
<1> QED
  BY <1>1, <1>2 DEF PodOrder

LEMMA RecordOrder ==
  ASSUME OrderInv, NEW r \in Replicas, Record(r)
  PROVE  \E o : OrderStep(r, o)
<1>1. PICK p, m : p = pod[r] /\ m = Order[p.at]
  OBVIOUS
<1>2. /\ p.phase = "record" /\ applied' = applied \cup {m}
      /\ pod' = [pod EXCEPT ![r] = IF m \in applied THEN Down ELSE Onward(p)]
  BY <1>1 DEF Record
<1>3. p.phase \in Phases
  BY <1>2 DEF Phases
<1>4. /\ p \in Starting /\ PodOrder(p, applied) /\ PhaseOrder(p, applied) /\ StartingPod(p)
      /\ p.at \in 1..6 /\ p.last \in 1..6
  BY <1>1, <1>2, <1>3, InPhase
<1>5. m \in Migration /\ applied \subseteq Migration \cup Table
  BY <1>1, <1>4, OrderIs DEF OrderInv, TypeOK
<1>6. /\ p.known \subseteq applied' /\ p.at <= p.last
      /\ \A i \in 1..6 : i <= p.at => Order[i] \in applied'
  BY <1>1, <1>2, <1>4 DEF PodOrder
<1>7. AppliedInOrder'
  <2>1. ASSUME NEW i \in 2..6, Order[i] \in applied' PROVE Order[i - 1] \in applied'
    <3>1. CASE Order[i] \in applied
      BY <3>1, <1>2, OrderIs DEF OrderInv, AppliedInOrder
    <3>2. CASE Order[i] = m
      <4>1. i = p.at
        <5>1. i \in {1, 2, 3, 4, 5, 6} /\ p.at \in {1, 2, 3, 4, 5, 6}
          BY <1>4
        <5> QED
          BY <5>1, <3>2, <1>1, OrderIs
      <4> QED
        BY <4>1, <1>6
    <3> QED
      BY <3>1, <3>2, <2>1, <1>2
  <2>2. "import" \in applied' => Table \subseteq applied'
    <3>1. CASE "import" \in applied
      BY <3>1, <1>2 DEF OrderInv, AppliedInOrder
    <3>2. CASE "import" = m
      <4>1. p.at = 1
        <5>1. p.at \in {1, 2, 3, 4, 5, 6}
          BY <1>4
        <5> QED
          BY <5>1, <3>2, <1>1, OrderIs
      <4> QED
        BY <4>1, <1>2, <1>4 DEF PhaseOrder
    <3> QED
      BY <3>1, <3>2, <1>2
  <2> QED
    BY <2>1, <2>2, OrderIs DEF AppliedInOrder
<1>8. PodNext(p, Onward(p), applied') /\ PodNext(p, Down, applied')
  BY <1>4, <1>6, OnwardNext, DownNext
<1> QED
  BY <1>1, <1>2, <1>4, <1>5, <1>7, <1>8 DEF OrderStep

LEMMA StepsLeftIs ==
  /\ StepsLeft \in {<<>>, <<"materials">>, <<"products">>, <<"materials", "products">>}
  /\ \A t \in Table : t \notin applied <=> \E i \in 1..Len(StepsLeft) : StepsLeft[i] = t
<1>1. CASE "materials" \in applied /\ "products" \in applied
  <2>1. StepsLeft = <<>>
    BY <1>1 DEF StepsLeft
  <2> QED
    BY <2>1, <1>1 DEF Table
<1>2. CASE "materials" \in applied /\ "products" \notin applied
  <2>1. StepsLeft = <<"products">>
    BY <1>2 DEF StepsLeft
  <2> QED
    BY <2>1, <1>2 DEF Table
<1>3. CASE "materials" \notin applied /\ "products" \in applied
  <2>1. StepsLeft = <<"materials">>
    BY <1>3 DEF StepsLeft
  <2> QED
    BY <2>1, <1>3 DEF Table
<1>4. CASE "materials" \notin applied /\ "products" \notin applied
  <2>1. StepsLeft = <<"materials", "products">>
    <3>1. StepsLeft = <<"materials">> \o <<"products">>
      BY <1>4 DEF StepsLeft
    <3>2. <<"materials">> \o <<"products">> = <<"materials", "products">>
      <4>1. <<"materials">> \in Seq(Table) /\ <<"products">> \in Seq(Table)
            /\ <<"materials", "products">> \in Seq(Table)
        BY OneOrTwoTables
      <4>2. /\ Len(<<"materials">>) = 1 /\ Len(<<"products">>) = 1
            /\ Len(<<"materials", "products">>) = 2
            /\ <<"materials">>[1] = "materials" /\ <<"products">>[1] = "products"
            /\ <<"materials", "products">>[1] = "materials"
            /\ <<"materials", "products">>[2] = "products"
        OBVIOUS
      <4>3. PICK s, u, v : s = <<"materials">> /\ u = <<"products">> /\ v = <<"materials", "products">>
        OBVIOUS
      <4>4. /\ s \o u \in Seq(Table) /\ Len(s \o u) = 2
            /\ (s \o u)[1] = "materials" /\ (s \o u)[2] = "products"
        BY <4>1, <4>2, <4>3, ConcatProperties
      <4>5. s \o u = v
        <5>1. \A i \in 1..Len(s \o u) : i \in {1, 2}
          BY <4>4
        <5>2. Len(v) = Len(s \o u) /\ v \in Seq(Table) /\ v[1] = "materials" /\ v[2] = "products"
          BY <4>1, <4>2, <4>3, <4>4
        <5>3. \A i \in 1..Len(s \o u) : (s \o u)[i] = v[i]
          BY <5>1, <5>2, <4>4
        <5>4. PICK w : w = s \o u
          OBVIOUS
        <5>5. w \in Seq(Table) /\ Len(w) = Len(v) /\ \A i \in 1..Len(w) : w[i] = v[i]
          BY <5>2, <5>3, <5>4, <4>4
        <5>6. w = v
          BY ONLY <5>2, <5>5, SeqEqual
        <5> QED
          BY <5>4, <5>6
      <4> QED
        BY <4>3, <4>5
    <3> QED
      BY <3>1, <3>2
  <2>2. StepsLeft[1] = "materials" /\ StepsLeft[2] = "products" /\ Len(StepsLeft) = 2
    BY <2>1
  <2>3. \A t \in Table : \E i \in 1..2 : StepsLeft[i] = t
    BY <2>2 DEF Table
  <2> QED
    BY <2>1, <2>2, <2>3, <1>4 DEF Table
<1> QED
  BY <1>1, <1>2, <1>3, <1>4

\* The next table, or the record: what is left covers what has no record.
LEMMA NextTableOrder ==
  ASSUME NEW p \in Starting, p.at = 1, NEW A, NEW ts,
         ts \in {<<>>, <<"materials">>, <<"products">>, <<"materials", "products">>},
         \A t \in Table \ A : \E i \in 1..Len(ts) : ts[i] = t,
         NEW n, n = NextTable(p, ts)
  PROVE  /\ n \in Starting /\ PhaseOrder(n, A)
         /\ n.at = p.at /\ n.known = p.known /\ n.last = p.last
         /\ n.phase \in {"record", "empty"} /\ n.tables = ts /\ n.batch = p.batch
         /\ n.phase = "record" => ts = <<>>
<1>1. PICK h : h = (IF ts = <<>> THEN "record" ELSE "empty")
  OBVIOUS
<1> DEFINE o == [p EXCEPT !.tables = ts, !.phase = h]
<1>2. NextTable(p, ts) = o
  BY <1>1 DEF NextTable
<1>3. ts \in Seq(Table) /\ h \in Phases
  BY <1>1, OneOrTwoTables DEF Phases
<1>4. /\ o \in Starting /\ o.phase = h /\ o.tables = ts
      /\ o.at = p.at /\ o.known = p.known /\ o.last = p.last /\ o.batch = p.batch
  BY <1>3 DEF Starting
<1> HIDE DEF o
<1>5. h = "record" => Table \subseteq A
  <2>1. SUFFICES ASSUME h = "record" PROVE Table \subseteq A
    OBVIOUS
  <2>2. ts = <<>> /\ Len(ts) = 0
    BY <2>1, <1>1
  <2> QED
    BY <2>2
<1>6. h = "empty" => ts \in {<<"materials">>, <<"products">>, <<"materials", "products">>}
  BY <1>1
<1>7. PhaseOrder(o, A)
  BY <1>1, <1>4, <1>5, <1>6 DEF PhaseOrder
<1> QED
  BY <1>1, <1>2, <1>4, <1>7

LEMMA ReadStepsOrder ==
  ASSUME OrderInv, NEW r \in Replicas, ReadSteps(r)
  PROVE  \E o : OrderStep(r, o)
<1>1. PICK p : p = pod[r]
  OBVIOUS
<1>2. p.phase = "steps" /\ UNCHANGED applied
      /\ pod' = [pod EXCEPT ![r] = NextTable(p, StepsLeft)]
  BY <1>1 DEF ReadSteps, At
<1>3. p \in Starting /\ p.at = 1
  BY <1>1, <1>2, InPhase DEF Phases, PhaseOrder
<1>4. PICK ts : ts = StepsLeft
  OBVIOUS
<1>5. PICK o : o = NextTable(p, ts)
  OBVIOUS
<1>6. /\ o \in Starting /\ PhaseOrder(o, applied)
      /\ o.at = p.at /\ o.known = p.known /\ o.last = p.last
  <2>1. /\ ts \in {<<>>, <<"materials">>, <<"products">>, <<"materials", "products">>}
        /\ \A t \in Table \ applied : \E i \in 1..Len(ts) : ts[i] = t
    BY <1>4, StepsLeftIs
  <2> QED
    BY <2>1, <1>3, <1>5, NextTableOrder
<1> QED
  BY <1>1, <1>2, <1>3, <1>4, <1>5, <1>6, StayOrder

\* Head and tail of the tables left.
LEMMA TablesSplit ==
  ASSUME NEW ts \in {<<"materials">>, <<"products">>, <<"materials", "products">>}
  PROVE  /\ Head(ts) \in Table /\ Head(ts) = ts[1] /\ ts \in Seq(Table)
         /\ Tail(ts) \in {<<>>, <<"products">>} /\ Tail(ts) \in Seq(Table)
         /\ \A t \in Table : (\E i \in 1..Len(ts) : ts[i] = t) =>
              t = Head(ts) \/ \E i \in 1..Len(Tail(ts)) : Tail(ts)[i] = t
         /\ \A i \in 1..Len(Tail(ts)) : Tail(ts)[i] # Head(ts)
                                        /\ \E j \in 1..Len(ts) : Tail(ts)[i] = ts[j]
<1>1. CASE ts = <<"materials">>
  <2>1. Head(ts) = "materials" /\ ts[1] = "materials" /\ Tail(ts) = <<>> /\ Len(ts) = 1
        /\ Len(Tail(ts)) = 0
    BY <1>1
  <2> QED
    BY <2>1, <1>1, OneOrTwoTables DEF Table
<1>2. CASE ts = <<"products">>
  <2>1. Head(ts) = "products" /\ ts[1] = "products" /\ Tail(ts) = <<>> /\ Len(ts) = 1
        /\ Len(Tail(ts)) = 0
    BY <1>2
  <2> QED
    BY <2>1, <1>2, OneOrTwoTables DEF Table
<1>3. CASE ts = <<"materials", "products">>
  <2>1. /\ Head(ts) = "materials" /\ ts[1] = "materials" /\ ts[2] = "products" /\ Len(ts) = 2
        /\ Tail(ts) = <<"products">> /\ Tail(ts)[1] = "products" /\ Len(Tail(ts)) = 1
    BY <1>3, OneOrTwoTables
  <2>2. "products" # "materials"
    OBVIOUS
  <2>3. \A i \in 1..Len(Tail(ts)) : i = 1
    BY <2>1
  <2>4. \A i \in 1..Len(Tail(ts)) : Tail(ts)[i] # Head(ts) /\ Tail(ts)[i] = ts[2]
    BY <2>1, <2>2, <2>3
  <2>5. \A t \in Table : t = Head(ts) \/ t = Tail(ts)[1]
    BY <2>1 DEF Table
  <2>6. 2 \in 1..Len(ts) /\ 1 \in 1..Len(Tail(ts))
    BY <2>1
  <2>7. Head(ts) \in Table /\ ts \in Seq(Table) /\ Tail(ts) \in Seq(Table)
    BY <2>1, <1>3, OneOrTwoTables DEF Table
  <2> QED
    BY <2>1, <2>4, <2>5, <2>6, <2>7
<1> QED
  BY <1>1, <1>2, <1>3

LEMMA RecordStepOrder ==
  ASSUME OrderInv, NEW r \in Replicas, RecordStep(r)
  PROVE  \E o : OrderStep(r, o)
<1>1. PICK p, t : p = pod[r] /\ t = Head(p.tables)
  OBVIOUS
<1>2. /\ p.phase = "step" /\ applied' = applied \cup {t}
      /\ pod' = [pod EXCEPT ![r] = IF t \in applied THEN Down ELSE NextTable(p, Tail(p.tables))]
  BY <1>1 DEF RecordStep
<1>3. /\ p \in Starting /\ PodOrder(p, applied) /\ PhaseOrder(p, applied) /\ StartingPod(p)
      /\ p.at \in 1..6 /\ p.last \in 1..6
  BY <1>1, <1>2, InPhase DEF Phases
<1>4. PICK ts : ts = p.tables
  OBVIOUS
<1>5. /\ p.at = 1 /\ ts \in {<<"materials">>, <<"products">>, <<"materials", "products">>}
      /\ \A u \in Table \ applied : \E i \in 1..Len(ts) : ts[i] = u
  BY <1>2, <1>3, <1>4 DEF PhaseOrder
<1>6. /\ t \in Table /\ Tail(ts) \in {<<>>, <<"products">>}
      /\ \A u \in Table \ applied' : \E i \in 1..Len(Tail(ts)) : Tail(ts)[i] = u
  <2>1. /\ t = Head(ts) /\ t \in Table /\ Tail(ts) \in {<<>>, <<"products">>}
        /\ \A u \in Table : (\E i \in 1..Len(ts) : ts[i] = u) =>
             u = t \/ \E i \in 1..Len(Tail(ts)) : Tail(ts)[i] = u
    BY <1>1, <1>4, <1>5, TablesSplit
  <2> QED
    BY <2>1, <1>2, <1>5
<1>7. applied' \subseteq Migration \cup Table
  BY <1>2, <1>6 DEF OrderInv, TypeOK
<1>8. AppliedInOrder'
  <2>1. \A i \in 1..6 : Order[i] \notin Table
    <3>1. \A m \in Migration : m \notin Table
      BY DEF Migration, Table
    <3> QED
      BY <3>1, OrderIs
  <2>2. "import" \notin Table
    BY DEF Table
  <2>3. \A i \in 2..6 : i - 1 \in 1..6 /\ i \in 1..6
    OBVIOUS
  <2>4. \A i \in 2..6 : Order[i] \in applied' => Order[i - 1] \in applied'
    BY <1>2, <1>6, <2>1, <2>3, OrderIs DEF OrderInv, AppliedInOrder
  <2>5. "import" \in applied' => Table \subseteq applied'
    BY <1>2, <1>6, <2>2 DEF OrderInv, AppliedInOrder
  <2> QED
    BY <2>4, <2>5, OrderIs DEF AppliedInOrder
<1>9. PICK o : o = NextTable(p, Tail(ts))
  OBVIOUS
<1>10. PodNext(p, o, applied')
  <2>1. /\ o \in Starting /\ PhaseOrder(o, applied')
        /\ o.at = p.at /\ o.known = p.known /\ o.last = p.last
    <3>1. Tail(ts) \in {<<>>, <<"materials">>, <<"products">>, <<"materials", "products">>}
      BY <1>6
    <3>2. PICK A, us : A = applied' /\ us = Tail(ts)
      OBVIOUS
    <3>3. /\ \A u \in Table \ A : \E i \in 1..Len(us) : us[i] = u
          /\ us \in {<<>>, <<"materials">>, <<"products">>, <<"materials", "products">>}
          /\ o = NextTable(p, us)
      BY <3>1, <3>2, <1>6, <1>9
    <3>4. p \in Starting /\ p.at = 1
      BY <1>3, <1>5
    <3>5. o \in Starting /\ PhaseOrder(o, A)
          /\ o.at = p.at /\ o.known = p.known /\ o.last = p.last
      BY ONLY <3>3, <3>4, NextTableOrder
    <3> QED
      BY <3>2, <3>5
  <2>2. PodOrder(o, applied')
    <3>1. o.known \subseteq applied' /\ o.at <= o.last /\ Order[o.at] \notin o.known
      BY <2>1, <1>2, <1>3 DEF PodOrder
    <3>2. \A i \in 1..6 : i < o.at => Order[i] \in applied'
      BY <2>1, <1>2, <1>3 DEF PodOrder
    <3> QED
      BY <3>1, <3>2, <2>1 DEF PodOrder
  <2> QED
    BY <2>1, <2>2, <1>3, PodsApart DEF PodNext
<1>11. PodNext(p, Down, applied')
  BY DownNext
<1> QED
  BY <1>1, <1>2, <1>3, <1>4, <1>7, <1>8, <1>9, <1>10, <1>11 DEF OrderStep

LEMMA NothingSeenIs == NothingSeen \in [Table -> [Keys -> Nat]]
BY DEF NothingSeen, NoRows

LEMMA NextBatchIs ==
  ASSUME NEW p \in Starting, NEW o, o = NextBatch(p)
  PROVE  /\ o \in Starting
         /\ o.at = p.at /\ o.known = p.known /\ o.last = p.last
         /\ o.tables = p.tables /\ o.left = p.left
         /\ \/ o.phase = p.phase /\ p.batch < NumBatches /\ o.batch = p.batch + 1 /\ o.seen = p.seen
            \/ o.phase = "record" /\ p.batch = NumBatches /\ o.batch = 1
<1>1. p.batch \in 1..NumBatches /\ NumBatches \in Nat \ {0}
  BY BatchesAreNat DEF Starting, Keys
<1>2. CASE p.batch < NumBatches
  <2> DEFINE n == [p EXCEPT !.batch = p.batch + 1]
  <2>1. p.batch + 1 \in Keys
    BY <1>1, <1>2 DEF Keys
  <2>2. n = o
    BY <1>2 DEF NextBatch
  <2>3. n \in Starting /\ n.batch = p.batch + 1 /\ n.phase = p.phase /\ n.seen = p.seen
        /\ n.at = p.at /\ n.known = p.known /\ n.last = p.last
        /\ n.tables = p.tables /\ n.left = p.left
    BY <2>1 DEF Starting
  <2> QED
    BY <2>2, <2>3, <1>2
<1>3. CASE ~(p.batch < NumBatches)
  <2> DEFINE n == [p EXCEPT !.phase = "record", !.batch = 1, !.seen = NothingSeen]
  <2>1. 1 \in Keys /\ "record" \in Phases
    BY <1>1 DEF Keys, Phases
  <2>2. n = o
    BY <1>3 DEF NextBatch
  <2>3. n \in Starting /\ n.batch = 1 /\ n.phase = "record"
        /\ n.at = p.at /\ n.known = p.known /\ n.last = p.last
        /\ n.tables = p.tables /\ n.left = p.left
    BY <2>1, NothingSeenIs DEF Starting
  <2>4. p.batch = NumBatches
    BY <1>1, <1>3
  <2> HIDE DEF n
  <2> QED
    BY <2>2, <2>3, <2>4
<1> QED
  BY <1>2, <1>3

LEMMA EmptyTableOrder ==
  ASSUME OrderInv, NEW r \in Replicas, EmptyTable(r)
  PROVE  \E o : OrderStep(r, o) /\ o.phase = "fill" /\ o.batch = 1 /\ o.tables = pod[r].tables
<1>1. PICK p : p = pod[r]
  OBVIOUS
<1>2. p.phase = "empty" /\ UNCHANGED applied
  BY <1>1 DEF EmptyTable, At
<1>3. p \in Starting /\ PhaseOrder(p, applied)
  BY <1>1, <1>2, InPhase DEF Phases
<1> DEFINE o == [p EXCEPT !.phase = "fill", !.batch = 1]
<1>4. pod' = [pod EXCEPT ![r] = o]
  BY <1>1 DEF EmptyTable, OrderInv, TypeOK
<1>5. o \in Starting /\ o.phase = "fill" /\ o.batch = 1 /\ o.at = p.at /\ o.known = p.known
      /\ o.last = p.last /\ o.tables = p.tables
  <2>1. "fill" \in Phases /\ 1 \in Keys
    BY BatchesAreNat DEF Phases, Keys
  <2> QED
    BY <2>1, <1>3 DEF Starting
<1> HIDE DEF o
<1>6. PhaseOrder(o, applied)
  BY <1>2, <1>3, <1>5 DEF PhaseOrder
<1> QED
  BY <1>1, <1>2, <1>3, <1>4, <1>5, <1>6, StayOrder

LEMMA FillTableOrder ==
  ASSUME OrderInv, NEW r \in Replicas, FillTable(r)
  PROVE  \E o : /\ OrderStep(r, o) /\ o.tables = pod[r].tables
                /\ \/ pod[r].batch < NumBatches /\ o.phase = "fill" /\ o.batch = pod[r].batch + 1
                   \/ pod[r].batch = NumBatches /\ o.phase = "step" /\ o.batch = 1
<1>1. PICK p : p = pod[r]
  OBVIOUS
<1>2. p.phase = "fill" /\ UNCHANGED applied
  BY <1>1 DEF FillTable, At
<1>3. p \in Starting /\ PhaseOrder(p, applied) /\ p.batch \in 1..NumBatches /\ NumBatches \in Nat
  BY <1>1, <1>2, InPhase, BatchesAreNat DEF Phases, Starting, Keys
<1>4. PICK h, k : /\ h = (IF p.batch < NumBatches THEN "fill" ELSE "step")
                  /\ k = (IF p.batch < NumBatches THEN p.batch + 1 ELSE 1)
  OBVIOUS
<1>5. h \in Phases /\ h \in {"fill", "step"} /\ k \in Keys
  BY <1>3, <1>4 DEF Phases, Keys
<1> DEFINE o == [p EXCEPT !.phase = h, !.batch = k]
<1>6. pod' = [pod EXCEPT ![r] = o]
  <2>1. pod' = [pod EXCEPT ![r] = IF p.batch < NumBatches THEN [p EXCEPT !.batch = p.batch + 1]
                                   ELSE [p EXCEPT !.phase = "step", !.batch = 1]]
    BY <1>1 DEF FillTable, OrderInv, TypeOK
  <2>2. CASE p.batch < NumBatches
    <3>1. [p EXCEPT !.batch = p.batch + 1] = o
      BY <2>2, <1>2, <1>3, <1>4 DEF Starting
    <3> QED
      BY <2>1, <2>2, <3>1
  <2>3. CASE ~(p.batch < NumBatches)
    BY <2>1, <2>3, <1>4
  <2> QED
    BY <2>2, <2>3
<1>7. o \in Starting /\ o.phase = h /\ o.batch = k /\ o.at = p.at /\ o.known = p.known
      /\ o.last = p.last /\ o.tables = p.tables
  BY <1>3, <1>5 DEF Starting
<1> HIDE DEF o
<1>8. PhaseOrder(o, applied)
  BY <1>2, <1>3, <1>5, <1>7 DEF PhaseOrder
<1>9. OrderStep(r, o)
  BY <1>1, <1>2, <1>3, <1>6, <1>7, <1>8, StayOrder
<1>10. \/ p.batch < NumBatches /\ h = "fill" /\ k = p.batch + 1
       \/ p.batch = NumBatches /\ h = "step" /\ k = 1
  BY <1>3, <1>4
<1> QED
  BY <1>1, <1>7, <1>9, <1>10

LEMMA ReadTableOrder ==
  ASSUME OrderInv, NEW r \in Replicas, ReadTable(r)
  PROVE  \E o : /\ OrderStep(r, o) /\ o.batch = pod[r].batch
                /\ o.tables = Tail(pod[r].tables)
                /\ o.seen = [pod[r].seen EXCEPT ![Head(pod[r].tables)] = raw[Head(pod[r].tables)]]
                /\ \/ o.tables = <<"products">> /\ o.phase = "read"
                   \/ o.tables = <<>> /\ o.phase = "replace" /\ pod[r].at = 2
                   \/ /\ o.tables = <<>> /\ o.phase = "upsert" /\ pod[r].at = 5
                      /\ o.left = {k \in Keys : raw[Head(pod[r].tables)][k] > 0}
<1>1. PICK p, t, rest : p = pod[r] /\ t = Head(p.tables) /\ rest = Tail(p.tables)
  OBVIOUS
<1>2. p.phase = "read" /\ UNCHANGED applied
  BY <1>1 DEF ReadTable, At
<1>3. p \in Starting /\ PhaseOrder(p, applied) /\ p.at \in {2, 5}
  BY <1>1, <1>2, InPhase DEF Phases, PhaseOrder
<1>4. p.tables \in {<<"products">>, <<"materials", "products">>}
  BY <1>2, <1>3 DEF PhaseOrder
<1>5. t \in Table /\ rest \in {<<>>, <<"products">>} /\ rest \in Seq(Table)
  <2>1. PICK ts : ts = p.tables
    OBVIOUS
  <2>2. ts \in {<<"materials">>, <<"products">>, <<"materials", "products">>}
    BY <2>1, <1>4
  <2> QED
    BY <2>1, <2>2, <1>1, TablesSplit
<1>6. PICK next, rows : next = (IF Order[p.at] = "build" THEN "replace" ELSE "upsert")
                        /\ rows = raw[t]
  OBVIOUS
<1>7. next = IF p.at = 2 THEN "replace" ELSE "upsert"
  BY <1>3, <1>6, OrderIs
<1>8. PICK h, l, s : /\ h = (IF rest = <<>> THEN next ELSE "read")
                     /\ l = (IF rest = <<>> /\ next = "upsert" THEN {k \in Keys : rows[k] > 0} ELSE {})
                     /\ s = [p.seen EXCEPT ![t] = rows]
  OBVIOUS
<1>9. h \in Phases /\ l \in SUBSET Keys /\ s \in [Table -> [Keys -> Nat]]
  <2>1. rows \in [Keys -> Nat]
    BY <1>5, <1>6 DEF OrderInv, TypeOK
  <2>2. p.seen \in [Table -> [Keys -> Nat]]
    BY <1>3 DEF Starting
  <2> QED
    BY <2>1, <2>2, <1>7, <1>8, <1>5 DEF Phases
<1> DEFINE o == [p EXCEPT !.seen = s, !.tables = rest, !.phase = h, !.left = l]
<1>10. pod' = [pod EXCEPT ![r] = o]
  <2>1. pod' = [pod EXCEPT ![r].seen[t] = rows, ![r].tables = rest, ![r].phase = h, ![r].left = l]
    BY <1>1, <1>6, <1>8 DEF ReadTable
  <2> QED
    BY <2>1, <1>1, <1>8 DEF OrderInv, TypeOK
<1>11. /\ o \in Starting /\ o.seen = s /\ o.tables = rest /\ o.phase = h /\ o.left = l
       /\ o.at = p.at /\ o.known = p.known /\ o.last = p.last /\ o.batch = p.batch
  BY <1>3, <1>5, <1>9 DEF Starting
<1> HIDE DEF o
<1>12. PhaseOrder(o, applied)
  BY <1>3, <1>5, <1>7, <1>8, <1>11 DEF PhaseOrder
<1>13. OrderStep(r, o)
  BY <1>1, <1>2, <1>3, <1>10, <1>11, <1>12, StayOrder
<1>14. \/ rest = <<"products">> /\ h = "read"
       \/ rest = <<>> /\ h = "replace" /\ p.at = 2
       \/ rest = <<>> /\ h = "upsert" /\ p.at = 5 /\ l = {k \in Keys : rows[k] > 0}
  BY <1>3, <1>5, <1>7, <1>8
<1>15. o.seen = [p.seen EXCEPT ![Head(p.tables)] = raw[Head(p.tables)]]
  BY <1>1, <1>6, <1>8, <1>11
<1>16. \/ o.tables = <<"products">> /\ o.phase = "read"
       \/ o.tables = <<>> /\ o.phase = "replace" /\ p.at = 2
       \/ /\ o.tables = <<>> /\ o.phase = "upsert" /\ p.at = 5
          /\ o.left = {k \in Keys : raw[Head(p.tables)][k] > 0}
  BY <1>1, <1>6, <1>11, <1>14
<1>17. o.tables = Tail(p.tables) /\ o.batch = p.batch
  BY <1>1, <1>11
<1>18. PICK S : S = {k \in Keys : raw[Head(p.tables)][k] > 0}
  OBVIOUS
<1>19. \E n : /\ OrderStep(r, n) /\ n.batch = p.batch
              /\ n.tables = Tail(p.tables)
              /\ n.seen = [p.seen EXCEPT ![Head(p.tables)] = raw[Head(p.tables)]]
              /\ \/ n.tables = <<"products">> /\ n.phase = "read"
                 \/ n.tables = <<>> /\ n.phase = "replace" /\ p.at = 2
                 \/ /\ n.tables = <<>> /\ n.phase = "upsert" /\ p.at = 5
                    /\ n.left = S
  <2>1. WITNESS o
  <2> QED
    BY <1>13, <1>15, <1>16, <1>17, <1>18
<1> QED
  BY <1>1, <1>18, <1>19

LEMMA ReplaceOrder ==
  ASSUME OrderInv, NEW r \in Replicas, Replace(r)
  PROVE  \E o : OrderStep(r, o) /\ o.phase = "insert" /\ o.batch = pod[r].batch
                /\ o.seen = pod[r].seen
<1>1. PICK p : p = pod[r]
  OBVIOUS
<1>2. p.phase = "replace" /\ UNCHANGED applied
  BY <1>1 DEF Replace, At
<1>3. p \in Starting /\ PhaseOrder(p, applied)
  BY <1>1, <1>2, InPhase DEF Phases
<1> DEFINE o == [p EXCEPT !.phase = "insert"]
<1>4. pod' = [pod EXCEPT ![r] = o]
  BY <1>1 DEF Replace, OrderInv, TypeOK
<1>5. o \in Starting /\ o.phase = "insert" /\ o.batch = p.batch /\ o.at = p.at
      /\ o.known = p.known /\ o.last = p.last /\ o.seen = p.seen
  BY <1>3 DEF Starting, Phases
<1> HIDE DEF o
<1>6. PhaseOrder(o, applied)
  BY <1>2, <1>3, <1>5 DEF PhaseOrder
<1> QED
  BY <1>1, <1>2, <1>3, <1>4, <1>5, <1>6, StayOrder

LEMMA ClearSchematicsOrder ==
  ASSUME OrderInv, NEW r \in Replicas, ClearSchematics(r)
  PROVE  \E o : OrderStep(r, o) /\ o.phase = "refill" /\ o.batch = pod[r].batch
<1>1. PICK p : p = pod[r]
  OBVIOUS
<1>2. p.phase = "clear" /\ UNCHANGED applied
  BY <1>1 DEF ClearSchematics, At
<1>3. p \in Starting /\ PhaseOrder(p, applied)
  BY <1>1, <1>2, InPhase DEF Phases
<1> DEFINE o == [p EXCEPT !.phase = "refill"]
<1>4. pod' = [pod EXCEPT ![r] = o]
  BY <1>1 DEF ClearSchematics, OrderInv, TypeOK
<1>5. o \in Starting /\ o.phase = "refill" /\ o.batch = p.batch /\ o.at = p.at
      /\ o.known = p.known /\ o.last = p.last
  BY <1>3 DEF Starting, Phases
<1> HIDE DEF o
<1>6. PhaseOrder(o, applied)
  BY <1>2, <1>3, <1>5 DEF PhaseOrder
<1> QED
  BY <1>1, <1>2, <1>3, <1>4, <1>5, <1>6, StayOrder

\* A batch inserted, or refused.
LEMMA NextBatchOrder ==
  ASSUME OrderInv, NEW r \in Replicas, NEW p, p = pod[r], p.phase \in {"insert", "refill"},
         UNCHANGED applied,
         pod' = [pod EXCEPT ![r] = Down] \/ pod' = [pod EXCEPT ![r] = NextBatch(p)]
  PROVE  \E o : /\ OrderStep(r, o)
                /\ \/ o = Down
                   \/ o.phase = p.phase /\ p.batch < NumBatches /\ o.batch = p.batch + 1
                      /\ o.seen = p.seen /\ o.at = p.at
                   \/ o.phase = "record" /\ p.batch = NumBatches /\ o.batch = 1 /\ o.at = p.at
<1>1. p \in Starting /\ PhaseOrder(p, applied) /\ p.phase # "choose" /\ p.phase # "record"
      /\ p.at # 1
  BY InPhase DEF Phases, PhaseOrder
<1>2. CASE pod' = [pod EXCEPT ![r] = Down]
  <2>1. OrderStep(r, Down)
    BY <1>1, <1>2, DownNext, ApplyKept DEF OrderStep, OrderInv
  <2> QED
    BY <2>1
<1>3. CASE pod' = [pod EXCEPT ![r] = NextBatch(p)]
  <2>1. PICK o : o = NextBatch(p)
    OBVIOUS
  <2>2. /\ o \in Starting
        /\ o.at = p.at /\ o.known = p.known /\ o.last = p.last
        /\ \/ o.phase = p.phase /\ p.batch < NumBatches /\ o.batch = p.batch + 1 /\ o.seen = p.seen
           \/ o.phase = "record" /\ p.batch = NumBatches /\ o.batch = 1
    BY <1>1, <2>1, NextBatchIs
  <2>3. PhaseOrder(o, applied)
    BY <1>1, <2>2 DEF PhaseOrder
  <2>4. OrderStep(r, o)
    BY <1>1, <1>3, <2>1, <2>2, <2>3, StayOrder
  <2> QED
    BY <2>2, <2>4
<1> QED
  BY <1>2, <1>3

LEMMA UpsertFormulasOrder ==
  ASSUME OrderInv, NEW r \in Replicas, NEW k \in pod[r].left, At(r, "upsert"), UNCHANGED applied,
         pod' = [pod EXCEPT ![r].left = @ \ {k}]
  PROVE  \E o : /\ OrderStep(r, o) /\ o.phase = "upsert" /\ o.seen = pod[r].seen
                /\ o.left = pod[r].left \ {k} /\ k \in Keys /\ o.at = pod[r].at
<1>1. PICK p, l : p = pod[r] /\ l = p.left \ {k}
  OBVIOUS
<1>2. p.phase = "upsert"
  BY <1>1 DEF At
<1>3. p \in Starting /\ PhaseOrder(p, applied)
  BY <1>1, <1>2, InPhase DEF Phases
<1>4. k \in Keys /\ l \in SUBSET Keys
  BY <1>1, <1>3 DEF Starting
<1> DEFINE o == [p EXCEPT !.left = l]
<1>5. pod' = [pod EXCEPT ![r] = o]
  BY <1>1 DEF OrderInv, TypeOK
<1>6. o \in Starting /\ o.phase = "upsert" /\ o.at = p.at /\ o.known = p.known
      /\ o.last = p.last /\ o.seen = p.seen /\ o.left = l
  BY <1>2, <1>3, <1>4 DEF Starting
<1> HIDE DEF o
<1>7. PhaseOrder(o, applied)
  BY <1>2, <1>3, <1>6 DEF PhaseOrder
<1> QED
  BY <1>1, <1>2, <1>3, <1>4, <1>5, <1>6, <1>7, StayOrder

LEMMA SetActivityOrder ==
  ASSUME OrderInv, NEW r \in Replicas, SetActivity(r)
  PROVE  \E o : OrderStep(r, o) /\ o.phase = "record" /\ o.at = pod[r].at /\ o.batch = pod[r].batch
<1>1. PICK p, s : p = pod[r] /\ s = NothingSeen
  OBVIOUS
<1>2. p.phase = "upsert" /\ UNCHANGED applied
  BY <1>1 DEF SetActivity, At
<1>3. p \in Starting /\ PhaseOrder(p, applied) /\ p.at = 5
  BY <1>1, <1>2, InPhase DEF Phases, PhaseOrder
<1> DEFINE o == [p EXCEPT !.phase = "record", !.seen = s]
<1>4. pod' = [pod EXCEPT ![r] = o]
  BY <1>1 DEF SetActivity, OrderInv, TypeOK
<1>5. o \in Starting /\ o.phase = "record" /\ o.at = p.at /\ o.known = p.known
      /\ o.last = p.last /\ o.batch = p.batch
  <2>1. "record" \in Phases /\ s \in [Table -> [Keys -> Nat]]
    BY <1>1, NothingSeenIs DEF Phases
  <2> QED
    BY <2>1, <1>3 DEF Starting
<1> HIDE DEF o
<1>6. PhaseOrder(o, applied)
  BY <1>2, <1>3, <1>5 DEF PhaseOrder
<1> QED
  BY <1>1, <1>2, <1>3, <1>4, <1>5, <1>6, StayOrder

LEMMA CreateProductIndexOrder ==
  ASSUME OrderInv, NEW r \in Replicas, CreateProductIndex(r)
  PROVE  \E o : /\ OrderStep(r, o)
                /\ \/ o = Down
                   \/ o.phase = "record" /\ o.at = pod[r].at /\ o.batch = pod[r].batch /\ o.at = 6
<1>1. PICK p : p = pod[r]
  OBVIOUS
<1>2. p.phase = "create" /\ UNCHANGED applied
  BY <1>1 DEF CreateProductIndex, At
<1>3. p \in Starting /\ PhaseOrder(p, applied) /\ p.at = 6
  BY <1>1, <1>2, InPhase DEF Phases, PhaseOrder
<1> DEFINE o == [p EXCEPT !.phase = "record"]
<1>4. pod' = [pod EXCEPT ![r] = Down] \/ pod' = [pod EXCEPT ![r] = o]
  BY <1>1 DEF CreateProductIndex, OrderInv, TypeOK
<1>5. o \in Starting /\ o.phase = "record" /\ o.at = p.at /\ o.known = p.known
      /\ o.last = p.last /\ o.batch = p.batch
  BY <1>3 DEF Starting, Phases
<1> HIDE DEF o
<1>6. PhaseOrder(o, applied)
  BY <1>2, <1>3, <1>5 DEF PhaseOrder
<1>7. CASE pod' = [pod EXCEPT ![r] = Down]
  <2>1. OrderStep(r, Down)
    BY <1>1, <1>2, <1>3, <1>7, DownNext, ApplyKept DEF OrderStep, OrderInv
  <2> QED
    BY <2>1
<1>8. CASE pod' = [pod EXCEPT ![r] = o]
  <2>1. OrderStep(r, o)
    BY <1>1, <1>2, <1>3, <1>5, <1>6, <1>8, StayOrder
  <2> QED
    BY <2>1, <1>1, <1>3, <1>5
<1> QED
  BY <1>4, <1>7, <1>8

LEMMA InsertDocsOrder ==
  ASSUME OrderInv, NEW r \in Replicas, InsertDocs(r)
  PROVE  \E o : /\ OrderStep(r, o)
                /\ \/ o = Down
                   \/ o.phase = "insert" /\ pod[r].batch < NumBatches /\ o.batch = pod[r].batch + 1
                      /\ o.seen = pod[r].seen /\ o.at = pod[r].at
                   \/ o.phase = "record" /\ pod[r].batch = NumBatches /\ o.batch = 1
                      /\ o.at = pod[r].at
<1>1. PICK p : p = pod[r]
  OBVIOUS
<1>2. p.phase = "insert" /\ UNCHANGED applied
  BY <1>1 DEF InsertDocs, At
<1>3. pod' = [pod EXCEPT ![r] = Down] \/ pod' = [pod EXCEPT ![r] = NextBatch(p)]
  BY <1>1 DEF InsertDocs
<1> QED
  BY <1>1, <1>2, <1>3, NextBatchOrder

LEMMA RefillSchematicsOrder ==
  ASSUME OrderInv, NEW r \in Replicas, RefillSchematics(r)
  PROVE  \E o : /\ OrderStep(r, o)
                /\ \/ o = Down
                   \/ o.phase = "refill" /\ pod[r].batch < NumBatches /\ o.batch = pod[r].batch + 1
                      /\ o.at = pod[r].at
                   \/ o.phase = "record" /\ pod[r].batch = NumBatches /\ o.batch = 1
                      /\ o.at = pod[r].at
<1>1. PICK p : p = pod[r]
  OBVIOUS
<1>2. p.phase = "refill" /\ UNCHANGED applied
  BY <1>1 DEF RefillSchematics, At
<1>3. pod' = [pod EXCEPT ![r] = Down] \/ pod' = [pod EXCEPT ![r] = NextBatch(p)]
  BY <1>1 DEF RefillSchematics
<1> QED
  BY <1>1, <1>2, <1>3, NextBatchOrder

\* Every step of run_migrations keeps the order.
LEMMA MigrateOrder ==
  ASSUME OrderInv, NEW r \in Replicas, Migrate(r)
  PROVE  \E o : OrderStep(r, o)
<1>1. CASE Import(r)
  <2>1. CASE ReadSteps(r)
    BY <2>1, ReadStepsOrder
  <2>2. CASE EmptyTable(r)
    BY <2>2, EmptyTableOrder
  <2>3. CASE FillTable(r)
    BY <2>3, FillTableOrder
  <2>4. CASE RecordStep(r)
    BY <2>4, RecordStepOrder
  <2> QED
    BY <1>1, <2>1, <2>2, <2>3, <2>4 DEF Import
<1>2. CASE Build(r)
  <2>1. CASE ReadTable(r)
    <3>1. PICK o : OrderStep(r, o)
      BY <2>1, ReadTableOrder
    <3> QED
      BY <3>1
  <2>2. CASE Replace(r)
    BY <2>2, ReplaceOrder
  <2>3. CASE InsertDocs(r)
    BY <2>3, InsertDocsOrder
  <2> QED
    BY <1>2, <2>1, <2>2, <2>3 DEF Build
<1>3. CASE Refill(r)
  BY <1>3, ClearSchematicsOrder, RefillSchematicsOrder DEF Refill
<1>4. CASE AddFormulas(r)
  <2>1. CASE UpsertFormulas(r)
    <3>1. PICK k \in pod[r].left : pod' = [pod EXCEPT ![r].left = @ \ {k}]
      BY <2>1 DEF UpsertFormulas
    <3>2. At(r, "upsert") /\ UNCHANGED applied
      BY <2>1 DEF UpsertFormulas
    <3> QED
      BY <3>1, <3>2, UpsertFormulasOrder
  <2>2. CASE SetActivity(r)
    BY <2>2, SetActivityOrder
  <2> QED
    BY <1>4, <2>1, <2>2 DEF AddFormulas
<1>5. CASE Choose(r)
  BY <1>5, ChooseOrder
<1>6. CASE Record(r)
  BY <1>6, RecordOrder
<1>7. CASE CreateProductIndex(r)
  BY <1>7, CreateProductIndexOrder
<1> QED
  BY <1>1, <1>2, <1>3, <1>4, <1>5, <1>6, <1>7 DEF Migrate

\* What the collections are after it.
LEMMA MigrateTypes ==
  ASSUME OrderInv, NEW r \in Replicas, Migrate(r)
  PROVE  /\ raw' \in [Table -> [Keys -> Nat]]
         /\ lookup' \in [Activity -> [Keys -> Docs]]
         /\ schematics' \subseteq Keys
         /\ UNCHANGED crashes
<1> PICK p : p = pod[r]
  OBVIOUS
<1>1. /\ raw \in [Table -> [Keys -> Nat]] /\ lookup \in [Activity -> [Keys -> Docs]]
      /\ schematics \subseteq Keys
  BY DEF OrderInv, TypeOK
<1>2. NoDoc \in Docs /\ NoRows \in [Keys -> Nat]
  BY DEF NoDoc, Docs, NoRows
<1>3. p.phase \in {"empty", "fill"} => Head(p.tables) \in Table /\ p.batch \in Keys
  <2>1. SUFFICES ASSUME p.phase \in {"empty", "fill"}
                 PROVE  Head(p.tables) \in Table /\ p.batch \in Keys
    OBVIOUS
  <2>2. p \in Starting /\ PhaseOrder(p, applied)
    BY <2>1, InPhase DEF Phases
  <2>3. PICK ts : ts = p.tables
    OBVIOUS
  <2>4. ts \in {<<"materials">>, <<"products">>, <<"materials", "products">>}
    BY <2>1, <2>2, <2>3 DEF PhaseOrder
  <2> QED
    BY <2>2, <2>3, <2>4, TablesSplit DEF Starting
<1>4. p.phase \in {"insert", "upsert", "refill"} =>
        /\ p.batch \in Keys /\ p.left \subseteq Keys
        /\ \A k \in Keys : p.seen.materials[k] \in Nat /\ p.seen.products[k] \in Nat
  <2>1. SUFFICES ASSUME p.phase \in {"insert", "upsert", "refill"}
                 PROVE  /\ p.batch \in Keys /\ p.left \subseteq Keys
                        /\ \A k \in Keys : p.seen.materials[k] \in Nat /\ p.seen.products[k] \in Nat
    OBVIOUS
  <2>2. p \in Starting
    BY <2>1, InPhase DEF Phases
  <2>3. p.seen \in [Table -> [Keys -> Nat]]
    BY <2>2 DEF Starting
  <2>4. "materials" \in Table /\ "products" \in Table
    BY DEF Table
  <2>5. p.seen["materials"] \in [Keys -> Nat] /\ p.seen["products"] \in [Keys -> Nat]
    BY <2>3, <2>4
  <2> QED
    BY <2>2, <2>5 DEF Starting
<1>5. \A d \in Docs : d.listed \in Nat /\ d.built \in BOOLEAN /\ d.activity \in Activity \cup {"none"}
  BY DEF Docs
<1>6. \A n \in Nat : /\ [listed |-> n, built |-> TRUE, activity |-> "none"] \in Docs
                     /\ [listed |-> n, built |-> TRUE, activity |-> "reaction"] \in Docs
  BY DEF Docs, Activity
<1>7. \A d \in Docs : [d EXCEPT !.activity = "manufacturing"] \in Docs
  BY DEF Docs, Activity
<1>8. CASE EmptyTable(r)
  <2>1. /\ raw' = [raw EXCEPT ![Head(p.tables)] = NoRows] /\ p.phase = "empty"
        /\ UNCHANGED <<lookup, schematics, crashes>>
    BY <1>8 DEF EmptyTable, At
  <2> QED
    BY <2>1, <1>1, <1>2, <1>3
<1>9. CASE FillTable(r)
  <2>1. /\ raw' = [raw EXCEPT ![Head(p.tables)][p.batch] = @ + 1] /\ p.phase = "fill"
        /\ UNCHANGED <<lookup, schematics, crashes>>
    BY <1>9 DEF FillTable, At
  <2>2. PICK t, k : t = Head(p.tables) /\ k = p.batch
    OBVIOUS
  <2>3. t \in Table /\ k \in Keys /\ raw' = [raw EXCEPT ![t] = [raw[t] EXCEPT ![k] = raw[t][k] + 1]]
    BY <2>1, <2>2, <1>1, <1>3
  <2>4. raw[t][k] + 1 \in Nat
    BY <2>3, <1>1
  <2> QED
    BY <2>1, <2>3, <2>4, <1>1
<1>10. CASE Replace(r)
  <2>1. /\ lookup' = [a \in Activity |-> [k \in Keys |-> NoDoc]]
        /\ UNCHANGED <<raw, schematics, crashes>>
    BY <1>10 DEF Replace
  <2> QED
    BY <2>1, <1>1, <1>2
<1>11. CASE InsertDocs(r)
  <2>1. PICK k, n : k = p.batch /\ n = p.seen.materials[k]
    OBVIOUS
  <2>2. /\ p.phase = "insert" /\ UNCHANGED <<raw, schematics, crashes>>
        /\ \/ lookup' = lookup
           \/ lookup' = [lookup EXCEPT !["manufacturing"][k] =
                           [listed |-> n, built |-> TRUE, activity |-> "none"]]
    BY <2>1, <1>11 DEF InsertDocs, At
  <2>3. k \in Keys /\ n \in Nat
    BY <2>1, <2>2, <1>4
  <2>4. PICK d \in Docs : d = [listed |-> n, built |-> TRUE, activity |-> "none"]
    BY <2>3, <1>6
  <2>5. lookup' = lookup \/ lookup' = [lookup EXCEPT !["manufacturing"][k] = d]
    BY <2>2, <2>4
  <2> QED
    BY <2>2, <2>3, <2>5, <1>1 DEF Activity
<1>12. CASE ClearSchematics(r) \/ RefillSchematics(r)
  <2>1. CASE ClearSchematics(r)
    BY <2>1, <1>1 DEF ClearSchematics
  <2>2. CASE RefillSchematics(r)
    BY <2>2, <1>1, <1>4 DEF RefillSchematics, At
  <2> QED
    BY <1>12, <2>1, <2>2
<1>13. CASE UpsertFormulas(r)
  <2>1. PICK k \in p.left :
          lookup' = [lookup EXCEPT !["reaction"][k] =
            [listed |-> p.seen.materials[k], built |-> TRUE, activity |-> "reaction"]]
    BY <1>13 DEF UpsertFormulas
  <2>2. p.phase = "upsert" /\ UNCHANGED <<raw, schematics, crashes>>
    BY <1>13 DEF UpsertFormulas, At
  <2>3. k \in Keys /\ p.seen.materials[k] \in Nat
    BY <2>1, <2>2, <1>4
  <2>4. PICK d \in Docs : d = [listed |-> p.seen.materials[k], built |-> TRUE, activity |-> "reaction"]
    BY <2>3, <1>6
  <2>5. lookup' = [lookup EXCEPT !["reaction"][k] = d]
    BY <2>1, <2>4
  <2> QED
    BY <2>2, <2>3, <2>5, <1>1 DEF Activity
<1>14. CASE SetActivity(r)
  <2>1. /\ UNCHANGED <<raw, schematics, crashes>>
        /\ lookup' = [a \in Activity |-> [k \in Keys |->
             IF lookup[a][k].built /\ lookup[a][k].activity = "none"
             THEN [lookup[a][k] EXCEPT !.activity = "manufacturing"] ELSE lookup[a][k]]]
    BY <1>14 DEF SetActivity
  <2>2. \A a \in Activity, k \in Keys :
          /\ lookup[a][k] \in Docs /\ [lookup[a][k] EXCEPT !.activity = "manufacturing"] \in Docs
    BY <1>1, <1>7
  <2> QED
    BY <2>1, <2>2, <1>1
<1>15. CASE UNCHANGED <<raw, lookup, schematics, crashes>>
  BY <1>15, <1>1
<1>16. CASE \/ Choose(r) \/ Record(r) \/ ReadSteps(r) \/ RecordStep(r) \/ ReadTable(r)
            \/ CreateProductIndex(r)
  BY <1>15, <1>16 DEF Choose, Record, ReadSteps, RecordStep, ReadTable, CreateProductIndex
<1> QED
  BY <1>8, <1>9, <1>10, <1>11, <1>12, <1>13, <1>14, <1>16
  DEF Migrate, Import, Build, Refill, AddFormulas

\* What is recorded stays recorded, so the order of the other pods stays.
LEMMA MoreRecorded ==
  ASSUME NEW p, NEW A, NEW B, A \subseteq B, PodOrder(p, A)
  PROVE  PodOrder(p, B)
BY DEF PodOrder, PhaseOrder

\* A pod in one of the states that go with tables has one.
LEMMA TablesInHand ==
  ASSUME NEW p \in Starting \cup {Down, Serving}, NEW A, PodOrder(p, A),
         p.phase \in {"empty", "fill", "step", "read"}
  PROVE  p.tables # <<>>
<1>1. PhaseOrder(p, A)
  BY PodsApart DEF PodOrder, Phases
<1> QED
  BY <1>1, OneOrTwoTables DEF PhaseOrder

LEMMA OrderKept ==
  ASSUME OrderInv, NEW r \in Replicas, NEW o \in Starting \cup {Down, Serving},
         pod' = [pod EXCEPT ![r] = o], PodOrder(o, applied'),
         applied \subseteq applied', applied' \subseteq Migration \cup Table, AppliedInOrder',
         raw' \in [Table -> [Keys -> Nat]], lookup' \in [Activity -> [Keys -> Docs]],
         schematics' \subseteq Keys, crashes' \in 0..MaxCrashes
  PROVE  OrderInv'
<1>1. pod' \in [Replicas -> Starting \cup {Down, Serving}]
  BY DEF OrderInv, TypeOK
<1>2. ASSUME NEW q \in Replicas PROVE PodOrder(pod'[q], applied')
  <2>1. PodOrder(pod[q], applied) /\ pod'[q] = (IF q = r THEN o ELSE pod[q])
    BY DEF OrderInv, TypeOK
  <2> QED
    BY <2>1, MoreRecorded
<1>3. \A q \in Replicas : pod'[q].phase \in {"empty", "fill", "step", "read"} => pod'[q].tables # <<>>
  <2>1. ASSUME NEW q \in Replicas, pod'[q].phase \in {"empty", "fill", "step", "read"}
        PROVE  pod'[q].tables # <<>>
    <3>1. PICK p, A : p = pod'[q] /\ A = applied'
      OBVIOUS
    <3>2. p \in Starting \cup {Down, Serving} /\ PodOrder(p, A)
      BY <3>1, <1>1, <1>2
    <3> QED
      BY <3>1, <3>2, <2>1, TablesInHand
  <2> QED
    BY <2>1
<1> QED
  BY <1>1, <1>2, <1>3 DEF OrderInv, TypeOK

LEMMA MigrateKeepsOrder ==
  ASSUME OrderInv, NEW r \in Replicas, Migrate(r)
  PROVE  OrderInv'
<1>1. PICK o : OrderStep(r, o)
  BY MigrateOrder
<1>2. o \in Starting \cup {Down, Serving} /\ PodOrder(o, applied')
  BY <1>1 DEF OrderStep, PodNext
<1>3. crashes' \in 0..MaxCrashes
  BY MigrateTypes DEF OrderInv, TypeOK
<1> QED
  BY <1>1, <1>2, <1>3, MigrateTypes, OrderKept DEF OrderStep

\* The pod a start makes.
LEMMA StartIs ==
  ASSUME OrderInv, NEW r \in Replicas, NEW n \in 1..6, Start(r, n)
  PROVE  \E o \in Starting :
           /\ pod' = [pod EXCEPT ![r] = o] /\ PodOrder(o, applied)
           /\ o.last = n /\ o.known = applied \cap Migration /\ o.phase = "choose" /\ o.at = 1
           /\ o.batch = 1
<1> DEFINE o == [phase |-> "choose", known |-> applied \cap Migration, at |-> 1, last |-> n,
                 tables |-> <<>>, batch |-> 1, left |-> {}, seen |-> NothingSeen]
<1>1. pod' = [pod EXCEPT ![r] = o]
  BY DEF Start
<1>2. o \in Starting
  BY BatchesAreNat, NothingSeenIs, OneOrTwoTables, OrderIs DEF Starting, Phases, Keys
<1>3. /\ o.last = n /\ o.known = applied \cap Migration /\ o.phase = "choose" /\ o.at = 1
      /\ o.batch = 1
  OBVIOUS
<1> HIDE DEF o
<1>4. PodOrder(o, applied)
  BY <1>3 DEF PodOrder, PhaseOrder
<1> QED
  BY <1>1, <1>2, <1>3, <1>4

LEMMA StartKeepsOrder ==
  ASSUME OrderInv, NEW r \in Replicas, NEW n \in 1..6, Start(r, n)
  PROVE  OrderInv'
<1>1. PICK o \in Starting : pod' = [pod EXCEPT ![r] = o] /\ PodOrder(o, applied)
  BY StartIs
<1>2. UNCHANGED <<raw, lookup, schematics, applied, crashes>>
  BY DEF Start
<1>3. PodOrder(o, applied')
  BY <1>1, <1>2
<1> QED
  BY <1>1, <1>2, <1>3, ApplyKept, OrderKept DEF OrderInv, TypeOK

LEMMA DownKeepsOrder ==
  ASSUME OrderInv, NEW r \in Replicas, pod' = [pod EXCEPT ![r] = Down],
         UNCHANGED <<raw, lookup, schematics, applied>>, crashes' \in 0..MaxCrashes
  PROVE  OrderInv'
<1>1. PodOrder(Down, applied')
  BY DEF PodOrder, StartingPod
<1> QED
  BY <1>1, ApplyKept, OrderKept DEF OrderInv, TypeOK

LEMMA CrashKeepsOrder ==
  ASSUME OrderInv, NEW r \in Replicas, Crash(r)
  PROVE  OrderInv'
<1>1. crashes' \in 0..MaxCrashes
  BY BoundsAreNat DEF Crash, OrderInv, TypeOK
<1> QED
  BY <1>1, DownKeepsOrder DEF Crash

LEMMA InitOrder == Init => OrderInv
<1> SUFFICES ASSUME Init PROVE OrderInv
  OBVIOUS
<1>1. \A r \in Replicas : pod[r] = Down
  BY DEF Init
<1>2. TypeOK
  <2>1. NoDoc \in Docs /\ NoRows \in [Keys -> Nat]
    BY DEF NoDoc, Docs, NoRows
  <2>2. raw \in [Table -> [Keys -> Nat]] /\ lookup \in [Activity -> [Keys -> Docs]]
    BY <2>1 DEF Init
  <2>3. /\ schematics \subseteq Keys /\ applied \subseteq Migration \cup Table
        /\ pod \in [Replicas -> Starting \cup {Down, Serving}]
    BY DEF Init
  <2>4. crashes \in 0..MaxCrashes
    BY BoundsAreNat DEF Init
  <2>5. \A r \in Replicas : pod[r].phase = "down"
    BY <1>1, PodsApart
  <2> QED
    BY <2>2, <2>3, <2>4, <2>5 DEF TypeOK
<1>3. AppliedInOrder
  BY DEF Init, AppliedInOrder
<1>4. \A r \in Replicas : PodOrder(pod[r], applied)
  BY <1>1 DEF PodOrder, StartingPod
<1> QED
  BY <1>2, <1>3, <1>4 DEF OrderInv

LEMMA NextKeepsOrder == OrderInv /\ [Next]_vars => OrderInv'
<1> SUFFICES ASSUME OrderInv, [Next]_vars PROVE OrderInv'
  OBVIOUS
<1>1. ASSUME NEW r \in Replicas, Step(r) PROVE OrderInv'
  <2>1. CASE Start(r, Len(Order))
    <3>1. Start(r, 6)
      BY <2>1, OrderIs
    <3> QED
      BY <3>1, StartKeepsOrder
  <2>2. CASE Migrate(r)
    BY <2>2, MigrateKeepsOrder
  <2> QED
    BY <1>1, <2>1, <2>2 DEF Step
<1>2. CASE UNCHANGED vars
  BY <1>2 DEF vars, OrderInv, TypeOK, AppliedInOrder
<1> QED
  BY <1>1, <1>2, CrashKeepsOrder DEF Next

LEMMA OrderHolds == Spec => []OrderInv
BY InitOrder, NextKeepsOrder, PTL DEF Spec

\* Type correctness: every pod's process has what its phase works on, and whoever
\* imports or reads the raw tables has one in its hand.
THEOREM TypeCorrect == Spec => []TypeOK
<1>1. OrderInv => TypeOK
  BY DEF OrderInv
<1> QED
  BY <1>1, OrderHolds, PTL

\* "Applied migrations are tracked in a _migrations collection" (blueprint-data.md):
\* a migration is recorded only after all before it, and 0001 only after each of its
\* tables, with any number of replicas migrating at once, killed at any point.
THEOREM InOrder == Spec => []AppliedInOrder
<1>1. OrderInv => AppliedInOrder
  BY DEF OrderInv
<1> QED
  BY <1>1, OrderHolds, PTL

-----------------------------------------------------------------------------
(* One replica migrates at a time: what is in the collections *)

MigratingPod(p) == StartingPod(p) /\ ~(FirstOf(p.last) \subseteq p.known)

\* Only one pod has something to migrate, and what is recorded beyond what it knew
\* when it started is its own work.
AloneInv ==
  /\ \A r, s \in Replicas : MigratingPod(pod[r]) /\ MigratingPod(pod[s]) => r = s
  /\ \A r \in Replicas : MigratingPod(pod[r]) =>
       \A m \in Migration \cap applied :
         m \in pod[r].known \/ \E i \in 1..6 : i < pod[r].at /\ m = Order[i]

Once == [k \in Keys |-> 1]
Built(k) == lookup["manufacturing"][k].built /\ lookup["manufacturing"][k].listed = 1
Formula(k) == lookup["reaction"][k].built /\ lookup["reaction"][k].listed = 1
Marked(k) == lookup["manufacturing"][k].activity = "manufacturing"

\* How far the pod p that migrates has come in the migration in hand.
PodData(p) ==
  /\ p.phase \in {"empty", "fill", "step"} => \A i \in 1..Len(p.tables) : p.tables[i] \notin applied
  /\ p.phase = "fill" => \A k \in Keys : raw[Head(p.tables)][k] = IF k < p.batch THEN 1 ELSE 0
  /\ p.phase = "step" => raw[Head(p.tables)] = Once
  /\ p.phase = "read" /\ p.tables = <<"products">> => p.seen["materials"] = Once
  /\ p.phase \in {"replace", "insert", "upsert"} =>
       p.seen["materials"] = Once /\ p.seen["products"] = Once
  /\ p.phase \notin {"fill", "insert", "refill"} => p.batch = 1
  /\ p.phase = "insert" =>
       \A k \in Keys : IF k < p.batch THEN Built(k) ELSE ~lookup["manufacturing"][k].built
  /\ p.phase = "refill" => schematics = {k \in Keys : k < p.batch}
  /\ p.phase = "upsert" => \A k \in Keys \ p.left : Formula(k)
  /\ p.phase = "record" =>
       /\ p.at = 2 => \A k \in Keys : Built(k)
       /\ p.at \in {3, 4} => schematics = Keys
       /\ p.at = 5 => \A k \in Keys : Formula(k) /\ Marked(k)

\* What is recorded is there; where a release has 0007 (n, how many migrations the
\* newest has), the planetary schematics may be away until that is recorded.
Recorded(n) ==
  /\ \A t \in Table \cap applied : raw[t] = Once
  /\ "build" \in applied => \A k \in Keys : Built(k)
  /\ "schematics" \in applied => schematics = Keys \/ (n >= 4 /\ "again" \notin applied)
  /\ "again" \in applied => schematics = Keys
  /\ "reactions" \in applied => \A k \in Keys : Formula(k) /\ Marked(k)
  /\ \A k \in Keys : /\ lookup["manufacturing"][k].activity \in {"none", "manufacturing"}
                     /\ lookup["reaction"][k].built => lookup["reaction"][k].activity = "reaction"

DataInv(n) ==
  /\ Recorded(n)
  /\ \A r \in Replicas : StartingPod(pod[r]) => PodData(pod[r])

\* A pod that is past the choice of a migration has something to migrate.
LEMMA BusyMigrates ==
  ASSUME NEW p \in Starting, NEW A, PodOrder(p, A), p.phase # "choose"
  PROVE  MigratingPod(p)
<1>1. Order[p.at] \notin p.known /\ p.at <= p.last /\ StartingPod(p)
  BY PodsApart DEF PodOrder
<1>2. p.at \in 1..6 /\ p.last \in 1..6
  BY OrderIs DEF Starting
<1>3. Order[p.at] \in FirstOf(p.last)
  BY <1>1, <1>2 DEF FirstOf
<1> QED
  BY <1>1, <1>3 DEF MigratingPod

\* The others wait, and what is in hand or after it is not recorded.
LEMMA Alone ==
  ASSUME OrderInv, AloneInv, NEW r \in Replicas, NEW p, p = pod[r], p.phase \in Phases \ {"choose"}
  PROVE  /\ \A s \in Replicas \ {r} : StartingPod(pod[s]) => pod[s].phase = "choose"
         /\ \A j \in 1..6 : j >= p.at => Order[j] \notin applied
<1>1. p \in Starting /\ PodOrder(p, applied) /\ StartingPod(p) /\ p.at \in 1..6
  BY InPhase
<1>2. MigratingPod(p)
  BY <1>1, BusyMigrates
<1>3. ASSUME NEW s \in Replicas \ {r}, StartingPod(pod[s]), pod[s].phase # "choose" PROVE FALSE
  <2>1. pod[s] \in Starting /\ PodOrder(pod[s], applied)
    BY <1>3, PodsApart DEF OrderInv, TypeOK
  <2>2. MigratingPod(pod[s])
    BY <1>3, <2>1, BusyMigrates
  <2> QED
    BY <1>2, <2>2 DEF AloneInv
<1>4. Order[p.at] \notin applied
  <2>1. SUFFICES ASSUME Order[p.at] \in applied PROVE FALSE
    OBVIOUS
  <2>2. Order[p.at] \in Migration
    BY <1>1, OrderIs
  <2>3. Order[p.at] \notin p.known
    BY <1>1 DEF PodOrder
  <2>4. PICK i \in 1..6 : i < p.at /\ Order[p.at] = Order[i]
    BY <1>2, <2>1, <2>2, <2>3 DEF AloneInv
  <2>5. p.at \in {1, 2, 3, 4, 5, 6} /\ i \in {1, 2, 3, 4, 5, 6} /\ i < p.at
    BY <1>1, <2>4
  <2> QED
    BY <2>4, <2>5, OrderIs
<1>5. \A j \in 2..6 : Order[j] \in applied => Order[j - 1] \in applied
  BY OrderIs DEF OrderInv, AppliedInOrder
<1>6. /\ Order[6] \in applied => Order[5] \in applied
      /\ Order[5] \in applied => Order[4] \in applied
      /\ Order[4] \in applied => Order[3] \in applied
      /\ Order[3] \in applied => Order[2] \in applied
      /\ Order[2] \in applied => Order[1] \in applied
  <2>1. 6 - 1 = 5 /\ 5 - 1 = 4 /\ 4 - 1 = 3 /\ 3 - 1 = 2 /\ 2 - 1 = 1
    OBVIOUS
  <2> QED
    BY <1>5, <2>1
<1>7. \A j \in 1..6 : j >= p.at => Order[j] \notin applied
  <2>1. p.at \in {1, 2, 3, 4, 5, 6} /\ \A j \in 1..6 : j \in {1, 2, 3, 4, 5, 6}
    BY <1>1
  <2> QED
    BY <1>4, <1>6, <2>1
<1> QED
  BY <1>3, <1>7

\* What a step records: nothing, a table, or the migration the pod then has behind it.
LEMMA MigrateRecords ==
  ASSUME OrderInv, NEW r \in Replicas, Migrate(r), NEW o, OrderStep(r, o), StartingPod(o)
  PROVE  \A m \in Migration \cap applied' :
           m \in applied \/ \E i \in 1..6 : i < o.at /\ m = Order[i]
<1>1. PICK p, m : p = pod[r] /\ m = Order[p.at]
  OBVIOUS
<1>2. CASE Record(r)
  <2>1. /\ p.phase = "record" /\ applied' = applied \cup {m}
        /\ pod' = [pod EXCEPT ![r] = IF m \in applied THEN Down ELSE Onward(p)]
    BY <1>1, <1>2 DEF Record
  <2>2. p.at \in 1..6 /\ p \in Starting
    BY <1>1, <2>1, InPhase DEF Phases
  <2>3. pod'[r] = o /\ pod'[r] = IF m \in applied THEN Down ELSE Onward(p)
    BY <2>1 DEF OrderStep, OrderInv, TypeOK
  <2>4. o = [p EXCEPT !.phase = "choose", !.at = p.at + 1]
    BY <2>3 DEF StartingPod, Onward
  <2>5. o.at = p.at + 1
    BY <2>2, <2>4 DEF Starting
  <2>6. p.at < o.at
    BY <2>2, <2>5
  <2> QED
    BY <1>1, <2>1, <2>2, <2>6
<1>3. CASE RecordStep(r)
  <2>1. p.phase = "step" /\ applied' = applied \cup {Head(p.tables)}
    BY <1>1, <1>3 DEF RecordStep
  <2>2. PhaseOrder(p, applied)
    BY <1>1, <2>1, InPhase DEF Phases
  <2>3. PICK ts : ts = p.tables
    OBVIOUS
  <2>4. ts \in {<<"materials">>, <<"products">>, <<"materials", "products">>}
    BY <2>1, <2>2, <2>3 DEF PhaseOrder
  <2>5. Head(ts) \in Table
    BY <2>4, TablesSplit
  <2>6. Head(p.tables) \notin Migration
    BY <2>3, <2>5 DEF Migration, Table
  <2> QED
    BY <2>1, <2>6
<1>4. CASE UNCHANGED applied
  BY <1>4
<1>5. CASE \/ Choose(r) \/ ReadSteps(r) \/ EmptyTable(r) \/ FillTable(r)
           \/ Build(r) \/ Refill(r) \/ AddFormulas(r) \/ CreateProductIndex(r)
  <2>1. UNCHANGED applied
    BY <1>5 DEF Choose, ReadSteps, EmptyTable, FillTable, Build, ReadTable, Replace, InsertDocs,
       Refill, ClearSchematics, RefillSchematics, AddFormulas, UpsertFormulas, SetActivity,
       CreateProductIndex
  <2> QED
    BY <2>1, <1>4
<1> QED
  BY <1>2, <1>3, <1>5 DEF Migrate, Import

\* A pod that has nothing to migrate passes over every migration.
LEMMA IdleChooses ==
  ASSUME OrderInv, NEW r \in Replicas, Migrate(r), ~MigratingPod(pod[r])
  PROVE  UNCHANGED applied
<1>1. pod[r] \in Starting
  <2>1. PICK o : OrderStep(r, o)
    BY MigrateOrder
  <2> QED
    BY <2>1 DEF OrderStep
<1>2. pod[r].phase = "choose"
  BY <1>1, BusyMigrates DEF OrderInv
<1>3. ~Record(r) /\ ~RecordStep(r)
  BY <1>2 DEF Record, RecordStep
<1> QED
  BY <1>3 DEF Migrate, Import, Choose, ReadSteps, EmptyTable, FillTable, Build, ReadTable, Replace,
     InsertDocs, Refill, ClearSchematics, RefillSchematics, AddFormulas, UpsertFormulas, SetActivity,
     CreateProductIndex

LEMMA MigrateKeepsAlone ==
  ASSUME OrderInv, AloneInv, NEW r \in Replicas, Migrate(r)
  PROVE  AloneInv'
<1>1. PICK o : OrderStep(r, o)
  BY MigrateOrder
<1>2. PICK p : p = pod[r]
  OBVIOUS
<1>3. /\ pod' = [pod EXCEPT ![r] = o] /\ p \in Starting /\ o \in Starting \cup {Down, Serving}
      /\ StartingPod(o) => o.last = p.last /\ o.known = p.known /\ o.at >= p.at
  BY <1>1, <1>2 DEF OrderStep, PodNext
<1>4. MigratingPod(o) => MigratingPod(p)
  BY <1>3, PodsApart DEF MigratingPod
<1>5. \A q \in Replicas : pod'[q] = IF q = r THEN o ELSE pod[q]
  BY <1>3 DEF OrderInv, TypeOK
<1>6. \A q \in Replicas : MigratingPod(pod'[q]) => MigratingPod(pod[q])
  BY <1>2, <1>4, <1>5
<1>7. ASSUME NEW q \in Replicas, MigratingPod(pod'[q])
      PROVE  \A m \in Migration \cap applied' :
               m \in pod'[q].known \/ \E i \in 1..6 : i < pod'[q].at /\ m = Order[i]
  <2>1. MigratingPod(pod[q]) /\ \A m \in Migration \cap applied :
          m \in pod[q].known \/ \E i \in 1..6 : i < pod[q].at /\ m = Order[i]
    BY <1>6, <1>7 DEF AloneInv
  <2>2. CASE q = r
    <3>1. StartingPod(o) /\ pod'[q] = o
      BY <1>5, <1>7, <2>2 DEF MigratingPod
    <3>2. \A m \in Migration \cap applied' :
            m \in applied \/ \E i \in 1..6 : i < o.at /\ m = Order[i]
      BY <1>1, <3>1, MigrateRecords
    <3>3. o.known = p.known /\ p.at \in 1..6 /\ o.at \in 1..6 /\ o.at >= p.at
      BY <1>3, <3>1, OrderIs, PodsApart DEF Starting
    <3>4. \A i \in 1..6 : i < p.at => i < o.at
      BY <3>3
    <3> QED
      BY <2>1, <2>2, <3>1, <3>2, <3>3, <3>4, <1>2
  <2>3. CASE q # r
    <3>1. ~MigratingPod(p)
      BY <2>1, <2>3, <1>2 DEF AloneInv
    <3>2. UNCHANGED applied
      BY <3>1, <1>2, IdleChooses
    <3> QED
      BY <2>1, <2>3, <3>2, <1>5
  <2> QED
    BY <2>2, <2>3
<1>8. \A q, s \in Replicas : MigratingPod(pod'[q]) /\ MigratingPod(pod'[s]) => q = s
  BY <1>6 DEF AloneInv
<1> QED
  BY <1>7, <1>8 DEF AloneInv

\* A pod ends: fewer migrate.
LEMMA DownKeepsAlone ==
  ASSUME OrderInv, AloneInv, NEW r \in Replicas, pod' = [pod EXCEPT ![r] = Down], UNCHANGED applied
  PROVE  AloneInv'
<1>1. \A q \in Replicas : pod'[q] = IF q = r THEN Down ELSE pod[q]
  BY DEF OrderInv, TypeOK
<1>2. \A q \in Replicas : MigratingPod(pod'[q]) => pod'[q] = pod[q]
  BY <1>1 DEF MigratingPod, StartingPod
<1> QED
  BY <1>2 DEF AloneInv

\* A pod starts: it has nothing to migrate, or nobody else has.
LEMMA StartKeepsAlone ==
  ASSUME MaxStarting = 1, OrderInv, AloneInv, NEW r \in Replicas, NEW n \in 1..6, Start(r, n)
  PROVE  AloneInv'
<1>1. PICK o \in Starting : /\ pod' = [pod EXCEPT ![r] = o]
                            /\ o.last = n /\ o.known = applied \cap Migration
  BY StartIs
<1>2. \A q \in Replicas : pod'[q] = IF q = r THEN o ELSE pod[q]
  BY <1>1 DEF OrderInv, TypeOK
<1>3. UNCHANGED applied
  BY DEF Start
<1>4. FirstOf(n) \subseteq Migration
  BY OrderIs DEF FirstOf
<1>5. CASE FirstOf(n) \subseteq applied
  <2>1. ~MigratingPod(o)
    BY <1>1, <1>4, <1>5 DEF MigratingPod
  <2>2. \A q \in Replicas : MigratingPod(pod'[q]) => pod'[q] = pod[q]
    BY <1>2, <2>1
  <2> QED
    BY <2>2, <1>3 DEF AloneInv
<1>6. CASE Cardinality(Migrating) < 1
  <2>1. Migrating = {}
    <3>1. IsFiniteSet(Migrating)
      BY ReplicasAreFinite, FS_Subset DEF Migrating
    <3>2. Cardinality(Migrating) \in Nat
      BY <3>1, FS_CardinalityType
    <3>3. Cardinality(Migrating) = 0
      BY <3>2, <1>6
    <3> QED
      BY <3>1, <3>3, FS_EmptySet
  <2>2. \A q \in Replicas : ~MigratingPod(pod[q])
    BY <2>1 DEF Migrating, MigratingPod, StartingPod
  <2>3. \A q \in Replicas : MigratingPod(pod'[q]) => q = r
    BY <1>2, <2>2
  <2>4. \A m \in Migration \cap applied' : m \in pod'[r].known
    BY <1>1, <1>2, <1>3
  <2> QED
    BY <2>3, <2>4 DEF AloneInv
<1> QED
  BY <1>5, <1>6 DEF Start

\* The pods that wait are not concerned by what the one in hand does.
LEMMA DataKept ==
  ASSUME OrderInv, NEW n, DataInv(n), NEW r \in Replicas,
         NEW o \in Starting \cup {Down, Serving}, pod' = [pod EXCEPT ![r] = o],
         \/ \A s \in Replicas \ {r} : StartingPod(pod[s]) => pod[s].phase = "choose"
         \/ UNCHANGED <<raw, lookup, schematics, applied>>,
         StartingPod(o) => PodData(o)', Recorded(n)'
  PROVE  DataInv(n)'
<1>1. \A q \in Replicas : pod'[q] = IF q = r THEN o ELSE pod[q]
  BY DEF OrderInv, TypeOK
<1>2. ASSUME NEW q \in Replicas, StartingPod(pod'[q]) PROVE PodData(pod[q])' 
  <2>1. PICK p : p = pod'[q]
    OBVIOUS
  <2>2. CASE q = r
    <3>1. p = o /\ StartingPod(o)
      BY <1>1, <1>2, <2>1, <2>2
    <3>2. PodData(p)'
      BY <3>1
    <3> QED
      BY <2>1, <3>2
  <2>3. CASE q # r
    <3>1. p = pod[q] /\ StartingPod(p)
      BY <1>1, <1>2, <2>1, <2>3
    <3>2. PodData(p)
      BY <3>1 DEF DataInv
    <3>3. CASE UNCHANGED <<raw, lookup, schematics, applied>>
      <4>1. PodData(p)'
        BY <3>2, <3>3 DEF PodData, Built, Formula, Marked
      <4> QED
        BY <2>1, <4>1
    <3>4. CASE p.phase = "choose"
      <4>1. PodData(p)'
        BY <3>2, <3>4 DEF PodData
      <4> QED
        BY <2>1, <4>1
    <3> QED
      BY <2>3, <3>1, <3>3, <3>4
  <2> QED
    BY <2>2, <2>3
<1> QED
  BY <1>2 DEF DataInv

\* Nothing in the collections changes, and nothing is recorded.
LEMMA RecordedKept ==
  ASSUME NEW n, Recorded(n), UNCHANGED <<raw, lookup, schematics, applied>>
  PROVE  Recorded(n)'
BY DEF Recorded, Built, Formula, Marked

LEMMA OnwardData ==
  ASSUME NEW p \in Starting, StartingPod(Onward(p)), p.batch = 1
  PROVE  Onward(p).phase = "choose" /\ Onward(p).batch = 1
<1>1. Onward(p) = [p EXCEPT !.phase = "choose", !.at = p.at + 1]
  BY DEF Onward, StartingPod
<1> QED
  BY <1>1 DEF Starting

LEMMA ChooseData ==
  ASSUME OrderInv, NEW n, DataInv(n), NEW r \in Replicas, Choose(r)
  PROVE  DataInv(n)'
<1>1. PICK o : OrderStep(r, o)
  BY ChooseOrder
<1>2. PICK p, m : p = pod[r] /\ m = Order[p.at]
  OBVIOUS
<1>3. /\ p.phase = "choose" /\ UNCHANGED <<raw, lookup, schematics, applied>>
      /\ pod' = [pod EXCEPT ![r] =
                   IF m \in p.known THEN Onward(p)
                   ELSE [p EXCEPT !.phase = FirstPhase[m],
                                  !.tables = IF FirstPhase[m] = "read" THEN Tables ELSE <<>>]]
  BY <1>2 DEF Choose
<1>4. p \in Starting /\ StartingPod(p) /\ PodData(p) /\ p.batch = 1 /\ p.at \in 1..6
  BY <1>2, <1>3, InPhase DEF Phases, DataInv, PodData
<1>5. o = IF m \in p.known THEN Onward(p)
          ELSE [p EXCEPT !.phase = FirstPhase[m],
                         !.tables = IF FirstPhase[m] = "read" THEN Tables ELSE <<>>]
  BY <1>1, <1>3 DEF OrderStep, OrderInv, TypeOK
<1>6. StartingPod(o) => PodData(o)'
  <2>1. CASE m \in p.known
    BY <1>4, <1>5, <2>1, OnwardData DEF PodData
  <2>2. CASE m \notin p.known
    <3>1. PICK h, t : h = FirstPhase[m] /\ t = (IF h = "read" THEN Tables ELSE <<>>)
      OBVIOUS
    <3>2. o = [p EXCEPT !.phase = h, !.tables = t]
      BY <1>5, <2>2, <3>1
    <3>3. o.phase = h /\ o.tables = t /\ o.batch = 1
      BY <1>4, <3>2 DEF Starting
    <3>4. m \in Migration
      BY <1>2, <1>4, OrderIs
    <3>5. h \in {"steps", "read", "clear", "create"}
      BY <3>1, <3>4 DEF FirstPhase, Migration
    <3>6. h = "read" => t # <<"products">>
      BY <3>1, OneOrTwoTables DEF Tables
    <3> QED
      BY <3>3, <3>5, <3>6 DEF PodData
  <2> QED
    BY <2>1, <2>2
<1>7. Recorded(n)'
  BY <1>3, RecordedKept DEF DataInv
<1>8. o \in Starting \cup {Down, Serving} /\ pod' = [pod EXCEPT ![r] = o]
  BY <1>1 DEF OrderStep, PodNext
<1> QED
  BY <1>3, <1>6, <1>7, <1>8, DataKept

LEMMA RecordData ==
  ASSUME OrderInv, AloneInv, NEW n, DataInv(n), NEW r \in Replicas, Record(r)
  PROVE  DataInv(n)'
<1>1. PICK o : OrderStep(r, o)
  BY RecordOrder
<1>2. PICK p, m : p = pod[r] /\ m = Order[p.at]
  OBVIOUS
<1>3. /\ p.phase = "record" /\ applied' = applied \cup {m} /\ UNCHANGED <<raw, lookup, schematics>>
      /\ pod' = [pod EXCEPT ![r] = IF m \in applied THEN Down ELSE Onward(p)]
  BY <1>2 DEF Record
<1>4. p.phase \in Phases \ {"choose"}
  BY <1>3 DEF Phases
<1>5. p \in Starting /\ StartingPod(p) /\ PodData(p) /\ p.batch = 1 /\ p.at \in 1..6
  BY <1>2, <1>3, <1>4, InPhase DEF DataInv, PodData
<1>6. o = IF m \in applied THEN Down ELSE Onward(p)
  BY <1>1, <1>3 DEF OrderStep, OrderInv, TypeOK
<1>7. StartingPod(o) => PodData(o)'
  <2>1. SUFFICES ASSUME StartingPod(o) PROVE PodData(o)'
    OBVIOUS
  <2>2. o = Onward(p)
    BY <1>6, <2>1 DEF StartingPod
  <2> QED
    BY <1>5, <2>1, <2>2, OnwardData DEF PodData
<1>8. \A s \in Replicas \ {r} : StartingPod(pod[s]) => pod[s].phase = "choose"
  BY <1>2, <1>4, Alone
<1>9. m \notin Table /\ p.at \in {1, 2, 3, 4, 5, 6}
  BY <1>2, <1>5, OrderIs DEF Table
<1>10. /\ m = "build" => p.at = 2
       /\ m = "schematics" => p.at = 3
       /\ m = "again" => p.at = 4
       /\ m = "reactions" => p.at = 5
  BY <1>2, <1>9, OrderIs
<1>11. Recorded(n)'
  <2>1. \A t \in Table \cap applied' : raw'[t] = Once
    BY <1>3, <1>9 DEF DataInv, Recorded
  <2>2. "build" \in applied' => \A k \in Keys : Built(k)'
    <3>1. "build" \in applied' => \A k \in Keys : Built(k)
      BY <1>3, <1>5, <1>10 DEF DataInv, Recorded, PodData
    <3> QED
      BY <3>1, <1>3 DEF Built
  <2>3. "schematics" \in applied' => schematics' = Keys \/ (n >= 4 /\ "again" \notin applied')
    BY <1>3, <1>5, <1>10 DEF DataInv, Recorded, PodData
  <2>4. "again" \in applied' => schematics' = Keys
    BY <1>3, <1>5, <1>10 DEF DataInv, Recorded, PodData
  <2>5. "reactions" \in applied' => \A k \in Keys : Formula(k)' /\ Marked(k)'
    <3>1. "reactions" \in applied' => \A k \in Keys : Formula(k) /\ Marked(k)
      BY <1>3, <1>5, <1>10 DEF DataInv, Recorded, PodData
    <3> QED
      BY <3>1, <1>3 DEF Formula, Marked
  <2>6. \A k \in Keys : /\ lookup'["manufacturing"][k].activity \in {"none", "manufacturing"}
                        /\ lookup'["reaction"][k].built => lookup'["reaction"][k].activity = "reaction"
    BY <1>3 DEF DataInv, Recorded
  <2> QED
    BY <2>1, <2>2, <2>3, <2>4, <2>5, <2>6 DEF Recorded
<1>12. o \in Starting \cup {Down, Serving} /\ pod' = [pod EXCEPT ![r] = o]
  BY <1>1 DEF OrderStep, PodNext
<1> QED
  BY <1>7, <1>8, <1>11, <1>12, DataKept

\* The pod in hand, past its choice: what its phase says, and that it is alone.
LEMMA InHand ==
  ASSUME OrderInv, AloneInv, NEW n, DataInv(n), NEW r \in Replicas, NEW p, p = pod[r],
         p.phase \in Phases \ {"choose"}
  PROVE  /\ p \in Starting /\ PhaseOrder(p, applied) /\ PodData(p) /\ PodOrder(p, applied)
         /\ p.at \in {1, 2, 3, 4, 5, 6}
         /\ \A s \in Replicas \ {r} : StartingPod(pod[s]) => pod[s].phase = "choose"
         /\ p.at = 1 => "import" \notin applied
         /\ p.at <= 2 => "build" \notin applied
         /\ p.at <= 3 => "schematics" \notin applied
         /\ p.at <= 4 => "again" \notin applied
         /\ p.at <= 5 => "reactions" \notin applied
         /\ p.at > 1 => "import" \in applied /\ Table \subseteq applied
         /\ p.at > 2 => "build" \in applied
<1>1. p \in Starting /\ PhaseOrder(p, applied) /\ StartingPod(p) /\ PodOrder(p, applied)
      /\ p.at \in {1, 2, 3, 4, 5, 6}
  BY InPhase
<1>2. PodData(p)
  BY <1>1 DEF DataInv
<1>3. /\ \A s \in Replicas \ {r} : StartingPod(pod[s]) => pod[s].phase = "choose"
      /\ \A j \in 1..6 : j >= p.at => Order[j] \notin applied
  BY Alone
<1>4. \A j \in 1..6 : j < p.at => Order[j] \in applied
  BY <1>1 DEF PodOrder
<1>5. "import" \in applied => Table \subseteq applied
  BY DEF OrderInv, AppliedInOrder
<1>6. /\ p.at = 1 => Order[1] \notin applied
      /\ p.at <= 2 => Order[2] \notin applied
      /\ p.at <= 3 => Order[3] \notin applied
      /\ p.at <= 4 => Order[4] \notin applied
      /\ p.at <= 5 => Order[5] \notin applied
      /\ p.at > 1 => Order[1] \in applied
      /\ p.at > 2 => Order[2] \in applied
  BY <1>1, <1>3, <1>4
<1> QED
  BY <1>1, <1>2, <1>3, <1>5, <1>6, OrderIs

LEMMA ReadStepsData ==
  ASSUME OrderInv, AloneInv, NEW n, DataInv(n), NEW r \in Replicas, ReadSteps(r)
  PROVE  DataInv(n)'
<1>1. PICK p, ts, o : p = pod[r] /\ ts = StepsLeft /\ o = NextTable(p, ts)
  OBVIOUS
<1>2. /\ p.phase = "steps" /\ UNCHANGED <<raw, lookup, schematics, applied>>
      /\ pod' = [pod EXCEPT ![r] = o]
  BY <1>1 DEF ReadSteps, At
<1>3. p.phase \in Phases \ {"choose"}
  BY <1>2 DEF Phases
<1>4. p \in Starting /\ p.at = 1 /\ p.batch = 1
  BY <1>1, <1>2, <1>3, InHand DEF PhaseOrder, PodData
<1>5. /\ ts \in {<<>>, <<"materials">>, <<"products">>, <<"materials", "products">>}
      /\ \A t \in Table \ applied : \E i \in 1..Len(ts) : ts[i] = t
      /\ \A t \in Table : (\E i \in 1..Len(ts) : ts[i] = t) => t \notin applied
  BY <1>1, StepsLeftIs
<1>6. /\ o \in Starting /\ o.at = 1 /\ o.phase \in {"record", "empty"} /\ o.tables = ts
      /\ o.batch = 1 /\ PhaseOrder(o, applied)
  BY <1>1, <1>4, <1>5, NextTableOrder
<1>7. \A i \in 1..Len(ts) : ts[i] \notin applied
  <2>1. ts \in Seq(Table)
    BY <1>5, OneOrTwoTables
  <2> QED
    BY <2>1, <1>5
<1>8. PodData(o)'
  BY <1>2, <1>6, <1>7 DEF PodData
<1>9. Recorded(n)'
  BY <1>2, RecordedKept DEF DataInv
<1> QED
  BY <1>2, <1>6, <1>8, <1>9, DataKept

LEMMA EmptyTableData ==
  ASSUME OrderInv, AloneInv, NEW n, DataInv(n), NEW r \in Replicas, EmptyTable(r)
  PROVE  DataInv(n)'
<1>1. PICK o : OrderStep(r, o) /\ o.phase = "fill" /\ o.batch = 1 /\ o.tables = pod[r].tables
  BY EmptyTableOrder
<1>2. PICK p, t : p = pod[r] /\ t = Head(p.tables)
  OBVIOUS
<1>3. /\ p.phase = "empty" /\ UNCHANGED <<lookup, schematics, applied>>
      /\ raw' = [raw EXCEPT ![t] = NoRows]
  BY <1>2 DEF EmptyTable, At
<1>4. p.phase \in Phases \ {"choose"}
  BY <1>3 DEF Phases
<1>5. /\ p \in Starting /\ PhaseOrder(p, applied) /\ PodData(p)
      /\ \A s \in Replicas \ {r} : StartingPod(pod[s]) => pod[s].phase = "choose"
  BY <1>2, <1>4, InHand
<1>6. PICK ts : ts = p.tables
  OBVIOUS
<1>7. /\ ts \in {<<"materials">>, <<"products">>, <<"materials", "products">>}
      /\ \A i \in 1..Len(ts) : ts[i] \notin applied
  BY <1>3, <1>5, <1>6 DEF PhaseOrder, PodData
<1>8. t \in Table /\ t \notin applied
  <2>1. t = ts[1] /\ t \in Table
    BY <1>2, <1>6, <1>7, TablesSplit
  <2>2. Len(ts) \in {1, 2}
    BY <1>7
  <2>3. 1 \in 1..Len(ts)
    BY <2>2
  <2> QED
    BY <2>1, <2>3, <1>7
<1>9. raw'[t] = NoRows /\ \A u \in Table : u # t => raw'[u] = raw[u]
  BY <1>3, <1>8 DEF OrderInv, TypeOK
<1>10. PodData(o)'
  <2>1. \A k \in Keys : raw'[Head(o.tables)][k] = IF k < o.batch THEN 1 ELSE 0
    <3>1. raw'[Head(o.tables)] = NoRows
      BY <1>1, <1>2, <1>9
    <3>2. \A k \in Keys : NoRows[k] = 0 /\ ~(k < 1)
      BY DEF NoRows, Keys
    <3> QED
      BY <3>1, <3>2, <1>1
  <2>2. \A i \in 1..Len(o.tables) : o.tables[i] \notin applied'
    BY <1>1, <1>2, <1>3, <1>6, <1>7
  <2> QED
    BY <1>1, <2>1, <2>2 DEF PodData
<1>11. Recorded(n)'
  <2>1. \A u \in Table \cap applied' : raw'[u] = Once
    BY <1>3, <1>8, <1>9 DEF DataInv, Recorded
  <2> QED
    BY <2>1, <1>3 DEF DataInv, Recorded, Built, Formula, Marked
<1>12. o \in Starting \cup {Down, Serving} /\ pod' = [pod EXCEPT ![r] = o]
  BY <1>1 DEF OrderStep, PodNext
<1> QED
  BY <1>5, <1>10, <1>11, <1>12, DataKept

LEMMA FillTableData ==
  ASSUME OrderInv, AloneInv, NEW n, DataInv(n), NEW r \in Replicas, FillTable(r)
  PROVE  DataInv(n)'
<1>1. PICK o : /\ OrderStep(r, o) /\ o.tables = pod[r].tables
               /\ \/ pod[r].batch < NumBatches /\ o.phase = "fill" /\ o.batch = pod[r].batch + 1
                  \/ pod[r].batch = NumBatches /\ o.phase = "step" /\ o.batch = 1
  BY FillTableOrder
<1>2. PICK p, t, b : p = pod[r] /\ t = Head(p.tables) /\ b = p.batch
  OBVIOUS
<1>3. /\ p.phase = "fill" /\ UNCHANGED <<lookup, schematics, applied>>
      /\ raw' = [raw EXCEPT ![t][b] = @ + 1]
  BY <1>2 DEF FillTable, At
<1>4. p.phase \in Phases \ {"choose"}
  BY <1>3 DEF Phases
<1>5. /\ p \in Starting /\ PhaseOrder(p, applied) /\ PodData(p)
      /\ \A s \in Replicas \ {r} : StartingPod(pod[s]) => pod[s].phase = "choose"
  BY <1>2, <1>4, InHand
<1>6. PICK ts : ts = p.tables
  OBVIOUS
<1>7. /\ ts \in {<<"materials">>, <<"products">>, <<"materials", "products">>}
      /\ \A i \in 1..Len(ts) : ts[i] \notin applied
      /\ \A k \in Keys : raw[t][k] = IF k < b THEN 1 ELSE 0
  BY <1>2, <1>3, <1>5, <1>6 DEF PhaseOrder, PodData
<1>8. t \in Table /\ t \notin applied /\ b \in Keys
  <2>1. t = ts[1] /\ t \in Table
    BY <1>2, <1>6, <1>7, TablesSplit
  <2>2. Len(ts) \in {1, 2}
    BY <1>7
  <2>3. 1 \in 1..Len(ts)
    BY <2>2
  <2>4. b \in Keys
    BY <1>2, <1>5 DEF Starting
  <2> QED
    BY <2>1, <2>3, <2>4, <1>7
<1>9. /\ \A k \in Keys : raw'[t][k] = IF k = b THEN raw[t][b] + 1 ELSE raw[t][k]
      /\ \A u \in Table : u # t => raw'[u] = raw[u]
      /\ raw'[t] \in [Keys -> Nat]
  <2>1. raw \in [Table -> [Keys -> Nat]]
    BY DEF OrderInv, TypeOK
  <2>2. raw' = [raw EXCEPT ![t] = [raw[t] EXCEPT ![b] = raw[t][b] + 1]]
    BY <1>3, <1>8, <2>1
  <2>3. raw'[t] = [raw[t] EXCEPT ![b] = raw[t][b] + 1] /\ raw[t] \in [Keys -> Nat]
    BY <1>8, <2>1, <2>2
  <2>4. raw[t][b] + 1 \in Nat
    BY <1>8, <2>3
  <2> QED
    BY <1>8, <2>1, <2>2, <2>3, <2>4
<1>10. \A k \in Keys : raw'[t][k] = IF k < b + 1 THEN 1 ELSE 0
  BY <1>7, <1>8, <1>9 DEF Keys
<1>11. PodData(o)'
  <2>1. \A i \in 1..Len(o.tables) : o.tables[i] \notin applied'
    BY <1>1, <1>2, <1>3, <1>6, <1>7
  <2>2. Head(o.tables) = t
    BY <1>1, <1>2
  <2>3. CASE o.phase = "fill" /\ o.batch = b + 1
    <3>1. \A k \in Keys : raw'[Head(o.tables)][k] = IF k < o.batch THEN 1 ELSE 0
      BY <1>10, <2>2, <2>3
    <3> QED
      BY <2>1, <2>3, <3>1 DEF PodData
  <2>4. CASE b = NumBatches /\ o.phase = "step" /\ o.batch = 1
    <3>1. \A k \in Keys : k < b + 1
      BY <2>4, BatchesAreNat DEF Keys
    <3>2. raw'[t] = Once
      BY <1>9, <1>10, <3>1 DEF Once
    <3> QED
      BY <2>1, <2>2, <2>4, <3>2 DEF PodData
  <2> QED
    BY <1>1, <1>2, <2>3, <2>4
<1>12. Recorded(n)'
  <2>1. \A u \in Table \cap applied' : raw'[u] = Once
    BY <1>3, <1>8, <1>9 DEF DataInv, Recorded
  <2> QED
    BY <2>1, <1>3 DEF DataInv, Recorded, Built, Formula, Marked
<1>13. o \in Starting \cup {Down, Serving} /\ pod' = [pod EXCEPT ![r] = o]
  BY <1>1 DEF OrderStep, PodNext
<1> QED
  BY <1>5, <1>11, <1>12, <1>13, DataKept

LEMMA RecordStepData ==
  ASSUME OrderInv, AloneInv, NEW n, DataInv(n), NEW r \in Replicas, RecordStep(r)
  PROVE  DataInv(n)'
<1>1. PICK p, ts, t : p = pod[r] /\ ts = p.tables /\ t = Head(ts)
  OBVIOUS
<1>2. PICK n2 : n2 = NextTable(p, Tail(ts))
  OBVIOUS
<1>3. /\ p.phase = "step" /\ UNCHANGED <<raw, lookup, schematics>> /\ applied' = applied \cup {t}
      /\ pod' = [pod EXCEPT ![r] = IF t \in applied THEN Down ELSE n2]
  BY <1>1, <1>2 DEF RecordStep
<1>4. p.phase \in Phases \ {"choose"}
  BY <1>3 DEF Phases
<1>5. /\ p \in Starting /\ PhaseOrder(p, applied) /\ PodData(p)
      /\ \A s \in Replicas \ {r} : StartingPod(pod[s]) => pod[s].phase = "choose"
  BY <1>1, <1>4, InHand
<1>6. /\ ts \in {<<"materials">>, <<"products">>, <<"materials", "products">>}
      /\ \A i \in 1..Len(ts) : ts[i] \notin applied
      /\ \A u \in Table \ applied : \E i \in 1..Len(ts) : ts[i] = u
      /\ raw[t] = Once /\ p.batch = 1 /\ p.at = 1
  BY <1>1, <1>3, <1>5 DEF PhaseOrder, PodData
<1>7. /\ t \in Table
      /\ Tail(ts) \in {<<>>, <<"materials">>, <<"products">>, <<"materials", "products">>}
      /\ \A u \in Table : (\E i \in 1..Len(ts) : ts[i] = u) =>
              u = t \/ \E i \in 1..Len(Tail(ts)) : Tail(ts)[i] = u
      /\ \A i \in 1..Len(Tail(ts)) : Tail(ts)[i] # t
                                     /\ \E j \in 1..Len(ts) : Tail(ts)[i] = ts[j]
  <2>1. ts \in {<<"materials">>, <<"products">>, <<"materials", "products">>} /\ t = Head(ts)
    BY <1>1, <1>6
  <2>2. Tail(ts) \in {<<>>, <<"products">>}
    BY ONLY <2>1, TablesSplit
  <2>3. /\ t \in Table
        /\ \A u \in Table : (\E i \in 1..Len(ts) : ts[i] = u) =>
                u = t \/ \E i \in 1..Len(Tail(ts)) : Tail(ts)[i] = u
        /\ \A i \in 1..Len(Tail(ts)) : Tail(ts)[i] # t
                                       /\ \E j \in 1..Len(ts) : Tail(ts)[i] = ts[j]
    BY ONLY <2>1, TablesSplit
  <2> QED
    BY <2>2, <2>3
<1>8. \A i \in 1..Len(Tail(ts)) : Tail(ts)[i] \notin applied'
  BY <1>3, <1>6, <1>7
<1>9. PICK A, us : A = applied' /\ us = Tail(ts)
  OBVIOUS
<1>10. /\ \A u \in Table \ A : \E i \in 1..Len(us) : us[i] = u
       /\ us \in {<<>>, <<"materials">>, <<"products">>, <<"materials", "products">>}
       /\ n2 = NextTable(p, us) /\ p \in Starting /\ p.at = 1
  BY <1>2, <1>3, <1>5, <1>6, <1>7, <1>9
<1>11. /\ n2 \in Starting /\ PhaseOrder(n2, A)
       /\ n2.at = p.at /\ n2.known = p.known /\ n2.last = p.last
       /\ n2.phase \in {"record", "empty"} /\ n2.tables = us /\ n2.batch = p.batch
  <2>1. /\ n2 \in Starting /\ PhaseOrder(n2, A)
        /\ n2.at = p.at /\ n2.known = p.known /\ n2.last = p.last
    BY ONLY <1>10, NextTableOrder
  <2>2. n2.phase \in {"record", "empty"}
    BY ONLY <1>10, NextTableOrder, <2>1
  <2>3. n2.tables = us /\ n2.batch = p.batch
    BY ONLY <1>10, NextTableOrder, <2>1
  <2> QED
    BY <2>1, <2>2, <2>3
<1>12. PodData(n2)'
  <2>1. \A i \in 1..Len(n2.tables) : n2.tables[i] \notin applied'
    BY <1>8, <1>9, <1>11
  <2>2. n2.batch = 1 /\ n2.at = 1 /\ n2.phase \in {"record", "empty"}
    BY <1>6, <1>11
  <2> QED
    BY <2>1, <2>2 DEF PodData
<1>13. Recorded(n)'
  <2>1. \A m \in {"build", "schematics", "again", "reactions"} : m \in applied' <=> m \in applied
    BY <1>3, <1>7 DEF Table
  <2>2. \A u \in Table \cap applied' : raw'[u] = Once
    BY <1>3, <1>6 DEF DataInv, Recorded
  <2> QED
    BY <2>1, <2>2, <1>3 DEF DataInv, Recorded, Built, Formula, Marked
<1>14. CASE t \in applied
  BY <1>3, <1>5, <1>13, <1>14, DataKept DEF StartingPod
<1>15. CASE t \notin applied
  BY <1>3, <1>5, <1>11, <1>12, <1>13, <1>15, DataKept
<1> QED
  BY <1>14, <1>15

LEMMA ReadTableData ==
  ASSUME OrderInv, AloneInv, NEW n, DataInv(n), NEW r \in Replicas, ReadTable(r)
  PROVE  DataInv(n)'
<1>1. PICK p, t : p = pod[r] /\ t = Head(p.tables)
  OBVIOUS
<1>2. p.phase = "read" /\ UNCHANGED <<raw, lookup, schematics, applied>>
  BY <1>1 DEF ReadTable, At
<1>3. PICK o : /\ OrderStep(r, o) /\ o.batch = p.batch
               /\ o.tables = Tail(p.tables)
               /\ o.seen = [p.seen EXCEPT ![t] = raw[t]]
               /\ \/ o.tables = <<"products">> /\ o.phase = "read"
                  \/ o.tables = <<>> /\ o.phase = "replace" /\ p.at = 2
                  \/ /\ o.tables = <<>> /\ o.phase = "upsert" /\ p.at = 5
                     /\ o.left = {k \in Keys : raw[t][k] > 0}
  BY <1>1, ReadTableOrder
<1>4. p.phase \in Phases \ {"choose"}
  BY <1>2 DEF Phases
<1>5. p \in Starting /\ PhaseOrder(p, applied) /\ PodData(p)
      /\ (p.at > 1 => "import" \in applied /\ Table \subseteq applied)
  BY <1>1, <1>4, InHand
<1>6. p.at \in {2, 5} /\ p.tables \in {<<"products">>, <<"materials", "products">>} /\ p.batch = 1
  BY <1>2, <1>5 DEF PhaseOrder, PodData
<1>7. \A u \in Table : raw[u] = Once
  BY <1>5, <1>6 DEF DataInv, Recorded
<1>8. p.seen \in [Table -> [Keys -> Nat]]
  BY <1>5 DEF Starting
<1>9. "materials" \in Table /\ "products" \in Table
  BY DEF Table
<1>10. CASE p.tables = <<"products">>
  <2>1. t = "products" /\ o.tables = <<>>
    BY <1>1, <1>3, <1>10, OneOrTwoTables
  <2>2. o.seen["products"] = Once /\ o.seen["materials"] = Once
    <3>1. p.seen["materials"] = Once
      BY <1>2, <1>5, <1>10 DEF PodData
    <3> QED
      BY <3>1, <2>1, <1>3, <1>7, <1>8, <1>9
  <2>3. o.phase # "read"
    BY <2>1, <1>3, OneOrTwoTables
  <2>4. o.phase = "upsert" => \A k \in Keys : k \in o.left
    <3>1. \A k \in Keys : raw[t][k] = 1
      BY <2>1, <1>7, <1>9 DEF Once
    <3>2. PICK L : L = {k \in Keys : raw[t][k] > 0}
      OBVIOUS
    <3>3. \A k \in Keys : k \in L
      BY <3>1, <3>2
    <3> QED
      BY <3>2, <3>3, <1>3
  <2>5. o.phase \in {"replace", "upsert"} /\ o.batch = 1
    BY <2>3, <1>3, <1>6
  <2> QED
    <3>1. PodData(o)'
      BY <2>2, <2>4, <2>5 DEF PodData
    <3>2. Recorded(n)'
      BY <1>2, RecordedKept DEF DataInv
    <3>3. o \in Starting \cup {Down, Serving} /\ pod' = [pod EXCEPT ![r] = o]
      BY <1>3 DEF OrderStep, PodNext
    <3> QED
      BY <3>1, <3>2, <3>3, <1>2, DataKept
<1>11. CASE p.tables = <<"materials", "products">>
  <2>1. t = "materials" /\ o.tables = <<"products">>
    BY <1>1, <1>3, <1>11, OneOrTwoTables
  <2>2. o.seen["materials"] = Once
    BY <2>1, <1>3, <1>7, <1>8, <1>9
  <2>3. o.phase = "read" /\ o.batch = 1
    BY <2>1, <1>3, <1>6, OneOrTwoTables
  <2>4. PodData(o)'
    BY <2>2, <2>3 DEF PodData
  <2>5. Recorded(n)'
    BY <1>2, RecordedKept DEF DataInv
  <2>6. o \in Starting \cup {Down, Serving} /\ pod' = [pod EXCEPT ![r] = o]
    BY <1>3 DEF OrderStep, PodNext
  <2> QED
    BY <2>4, <2>5, <2>6, <1>2, DataKept
<1> QED
  BY <1>6, <1>10, <1>11

LEMMA ReplaceData ==
  ASSUME OrderInv, AloneInv, NEW n, DataInv(n), NEW r \in Replicas, Replace(r)
  PROVE  DataInv(n)'
<1>1. PICK o : OrderStep(r, o) /\ o.phase = "insert" /\ o.batch = pod[r].batch
               /\ o.seen = pod[r].seen
  BY ReplaceOrder
<1>2. PICK p : p = pod[r]
  OBVIOUS
<1>3. /\ p.phase = "replace" /\ UNCHANGED <<raw, schematics, applied>>
      /\ lookup' = [a \in Activity |-> [k \in Keys |-> NoDoc]]
  BY <1>2 DEF Replace, At
<1>4. p.phase \in Phases \ {"choose"}
  BY <1>3 DEF Phases
<1>5. /\ p \in Starting /\ PhaseOrder(p, applied) /\ PodData(p)
      /\ \A s \in Replicas \ {r} : StartingPod(pod[s]) => pod[s].phase = "choose"
      /\ p.at <= 2 => "build" \notin applied
      /\ p.at <= 5 => "reactions" \notin applied
  BY <1>2, <1>4, InHand
<1>6. p.at = 2 /\ p.batch = 1 /\ p.seen["materials"] = Once /\ p.seen["products"] = Once
  BY <1>3, <1>5 DEF PhaseOrder, PodData
<1>7. \A a \in Activity, k \in Keys : ~lookup'[a][k].built /\ lookup'[a][k].activity = "none"
  BY <1>3 DEF NoDoc
<1>8. "manufacturing" \in Activity /\ "reaction" \in Activity
  BY DEF Activity
<1>9. PodData(o)'
  <2>1. \A k \in Keys : ~(k < o.batch) /\ ~lookup'["manufacturing"][k].built
    BY <1>1, <1>2, <1>6, <1>7, <1>8 DEF Keys
  <2> QED
    BY <1>1, <1>2, <1>6, <2>1 DEF PodData
<1>10. Recorded(n)'
  BY <1>3, <1>5, <1>6, <1>7, <1>8 DEF DataInv, Recorded
<1>11. o \in Starting \cup {Down, Serving} /\ pod' = [pod EXCEPT ![r] = o]
  BY <1>1 DEF OrderStep, PodNext
<1> QED
  BY <1>5, <1>9, <1>10, <1>11, DataKept

LEMMA InsertDocsData ==
  ASSUME OrderInv, AloneInv, NEW n, DataInv(n), NEW r \in Replicas, InsertDocs(r)
  PROVE  DataInv(n)'
<1>1. PICK p, b : p = pod[r] /\ b = p.batch
  OBVIOUS
<1>2. PICK o : /\ OrderStep(r, o)
               /\ \/ o = Down
                  \/ o.phase = "insert" /\ b < NumBatches /\ o.batch = b + 1
                     /\ o.seen = p.seen /\ o.at = p.at
                  \/ o.phase = "record" /\ b = NumBatches /\ o.batch = 1 /\ o.at = p.at
  BY <1>1, InsertDocsOrder
<1>3. p.phase = "insert" /\ UNCHANGED <<raw, schematics, applied>>
  BY <1>1 DEF InsertDocs, At
<1>4. p.phase \in Phases \ {"choose"}
  BY <1>3 DEF Phases
<1>5. /\ p \in Starting /\ PhaseOrder(p, applied) /\ PodData(p)
      /\ \A s \in Replicas \ {r} : StartingPod(pod[s]) => pod[s].phase = "choose"
      /\ p.at <= 2 => "build" \notin applied
      /\ p.at <= 5 => "reactions" \notin applied
  BY <1>1, <1>4, InHand
<1>6. /\ p.at = 2 /\ p.seen["materials"] = Once /\ p.seen["products"] = Once
      /\ \A k \in Keys : IF k < b THEN Built(k) ELSE ~lookup["manufacturing"][k].built
  BY <1>1, <1>3, <1>5 DEF PhaseOrder, PodData
<1>7. b \in Keys /\ ~(b < b)
  BY <1>1, <1>5 DEF Starting, Keys
<1>8. PICK d : d = [listed |-> 1, built |-> TRUE, activity |-> "none"]
  OBVIOUS
<1>9. lookup' = [lookup EXCEPT !["manufacturing"][b] = d]
  <2>1. p.seen.products[b] = 1 /\ p.seen.materials[b] = 1
    BY <1>6, <1>7 DEF Once
  <2>2. ~lookup["manufacturing"][b].built
    BY <1>6, <1>7
  <2>3. PICK rows, there : rows = p.seen.products[b] /\ there = lookup["manufacturing"][b].built
    OBVIOUS
  <2>4. lookup' = IF rows = 0 \/ there THEN lookup
                  ELSE [lookup EXCEPT !["manufacturing"][b] =
                          [listed |-> p.seen.materials[b], built |-> TRUE, activity |-> "none"]]
    BY <2>3, <1>1 DEF InsertDocs
  <2>5. rows = 1 /\ ~there
    BY <2>1, <2>2, <2>3
  <2>6. lookup' = [lookup EXCEPT !["manufacturing"][b] =
                          [listed |-> p.seen.materials[b], built |-> TRUE, activity |-> "none"]]
    BY <2>4, <2>5
  <2> QED
    BY <2>1, <2>6, <1>8
<1>10. d.listed = 1 /\ d.built /\ d.activity = "none"
  BY <1>8
<1>11. "manufacturing" \in Activity /\ "reaction" \in Activity
  BY DEF Activity
<1>12. /\ lookup'["reaction"] = lookup["reaction"]
       /\ \A k \in Keys : lookup'["manufacturing"][k] = IF k = b THEN d ELSE lookup["manufacturing"][k]
  <2>1. lookup \in [Activity -> [Keys -> Docs]]
    BY DEF OrderInv, TypeOK
  <2> QED
    BY <2>1, <1>7, <1>9, <1>11
<1>13. \A k \in Keys : IF k < b + 1 THEN Built(k)' ELSE ~lookup'["manufacturing"][k].built
  BY <1>6, <1>7, <1>10, <1>12 DEF Built, Keys
<1>14. StartingPod(o) => PodData(o)'
  <2>1. SUFFICES ASSUME StartingPod(o) PROVE PodData(o)'
    OBVIOUS
  <2>2. CASE o.phase = "insert" /\ o.batch = b + 1 /\ o.seen = p.seen /\ o.at = p.at
    BY <2>2, <1>6, <1>13 DEF PodData
  <2>3. CASE o.phase = "record" /\ b = NumBatches /\ o.batch = 1 /\ o.at = p.at
    <3>1. \A k \in Keys : k < b + 1
      BY <2>3, BatchesAreNat DEF Keys
    <3>2. \A k \in Keys : Built(k)'
      BY <3>1, <1>13
    <3> QED
      BY <2>3, <3>2, <1>6 DEF PodData
  <2> QED
    BY <2>1, <2>2, <2>3, <1>2 DEF StartingPod
<1>15. Recorded(n)'
  <2>1. \A k \in Keys : /\ lookup'["manufacturing"][k].activity \in {"none", "manufacturing"}
                        /\ lookup'["reaction"][k].built => lookup'["reaction"][k].activity = "reaction"
    BY <1>10, <1>12 DEF DataInv, Recorded
  <2> QED
    BY <2>1, <1>3, <1>5, <1>6 DEF DataInv, Recorded
<1>16. o \in Starting \cup {Down, Serving} /\ pod' = [pod EXCEPT ![r] = o]
  BY <1>2 DEF OrderStep, PodNext
<1> QED
  BY <1>5, <1>14, <1>15, <1>16, DataKept

LEMMA ClearSchematicsData ==
  ASSUME OrderInv, AloneInv, NEW n \in Nat, DataInv(n), NEW r \in Replicas, pod[r].last <= n,
         ClearSchematics(r)
  PROVE  DataInv(n)'
<1>1. PICK o : OrderStep(r, o) /\ o.phase = "refill" /\ o.batch = pod[r].batch
  BY ClearSchematicsOrder
<1>2. PICK p : p = pod[r]
  OBVIOUS
<1>3. p.phase = "clear" /\ UNCHANGED <<raw, lookup, applied>> /\ schematics' = {}
  BY <1>2 DEF ClearSchematics, At
<1>4. p.phase \in Phases \ {"choose"}
  BY <1>3 DEF Phases
<1>5. /\ p \in Starting /\ PhaseOrder(p, applied) /\ PodData(p) /\ PodOrder(p, applied)
      /\ \A s \in Replicas \ {r} : StartingPod(pod[s]) => pod[s].phase = "choose"
      /\ p.at <= 3 => "schematics" \notin applied
      /\ p.at <= 4 => "again" \notin applied
  BY <1>2, <1>4, InHand
<1>6. p.at \in {3, 4} /\ p.batch = 1
  BY <1>3, <1>5 DEF PhaseOrder, PodData
<1>7. p.at <= p.last /\ p.last \in Nat
  <2>1. StartingPod(p) /\ p.last \in 1..6
    BY <1>2, <1>4, InPhase
  <2> QED
    BY <2>1, <1>5 DEF PodOrder
<1>8. PodData(o)'
  <2>1. {k \in Keys : k < 1} = {}
    BY DEF Keys
  <2> QED
    BY <1>1, <1>2, <1>3, <1>6, <2>1 DEF PodData
<1>9. Recorded(n)'
  <2>1. "again" \notin applied /\ ("schematics" \in applied => n >= 4)
    BY <1>2, <1>5, <1>6, <1>7
  <2> QED
    BY <2>1, <1>3 DEF DataInv, Recorded, Built, Formula, Marked
<1>10. o \in Starting \cup {Down, Serving} /\ pod' = [pod EXCEPT ![r] = o]
  BY <1>1 DEF OrderStep, PodNext
<1> QED
  BY <1>5, <1>8, <1>9, <1>10, DataKept

LEMMA RefillSchematicsData ==
  ASSUME OrderInv, AloneInv, NEW n \in Nat, DataInv(n), NEW r \in Replicas, pod[r].last <= n,
         RefillSchematics(r)
  PROVE  DataInv(n)'
<1>1. PICK p, b : p = pod[r] /\ b = p.batch
  OBVIOUS
<1>2. PICK o : /\ OrderStep(r, o)
               /\ \/ o = Down
                  \/ o.phase = "refill" /\ b < NumBatches /\ o.batch = b + 1 /\ o.at = p.at
                  \/ o.phase = "record" /\ b = NumBatches /\ o.batch = 1 /\ o.at = p.at
  BY <1>1, RefillSchematicsOrder
<1>3. p.phase = "refill" /\ UNCHANGED <<raw, lookup, applied>> /\ schematics' = schematics \cup {b}
  BY <1>1 DEF RefillSchematics, At
<1>4. p.phase \in Phases \ {"choose"}
  BY <1>3 DEF Phases
<1>5. /\ p \in Starting /\ PhaseOrder(p, applied) /\ PodData(p) /\ PodOrder(p, applied)
      /\ \A s \in Replicas \ {r} : StartingPod(pod[s]) => pod[s].phase = "choose"
      /\ p.at <= 3 => "schematics" \notin applied
      /\ p.at <= 4 => "again" \notin applied
  BY <1>1, <1>4, InHand
<1>6. p.at \in {3, 4} /\ schematics = {k \in Keys : k < b} /\ b \in Keys
  BY <1>1, <1>3, <1>5 DEF PhaseOrder, PodData, Starting
<1>7. p.at <= p.last /\ p.last \in Nat
  <2>1. StartingPod(p) /\ p.last \in 1..6
    BY <1>1, <1>4, InPhase
  <2> QED
    BY <2>1, <1>5 DEF PodOrder
<1>8. schematics' = {k \in Keys : k < b + 1}
  BY <1>3, <1>6 DEF Keys
<1>9. StartingPod(o) => PodData(o)'
  <2>1. SUFFICES ASSUME StartingPod(o) PROVE PodData(o)'
    OBVIOUS
  <2>2. CASE o.phase = "refill" /\ o.batch = b + 1
    BY <2>2, <1>8 DEF PodData
  <2>3. CASE o.phase = "record" /\ b = NumBatches /\ o.batch = 1 /\ o.at = p.at
    <3>1. schematics' = Keys
      BY <2>3, <1>8, BatchesAreNat DEF Keys
    <3> QED
      BY <2>3, <3>1, <1>6 DEF PodData
  <2> QED
    BY <2>1, <2>2, <2>3, <1>2 DEF StartingPod
<1>10. Recorded(n)'
  <2>1. "again" \notin applied /\ ("schematics" \in applied => n >= 4)
    BY <1>1, <1>5, <1>6, <1>7
  <2> QED
    BY <2>1, <1>3 DEF DataInv, Recorded, Built, Formula, Marked
<1>11. o \in Starting \cup {Down, Serving} /\ pod' = [pod EXCEPT ![r] = o]
  BY <1>2 DEF OrderStep, PodNext
<1> QED
  BY <1>5, <1>9, <1>10, <1>11, DataKept

LEMMA UpsertFormulasData ==
  ASSUME OrderInv, AloneInv, NEW n, DataInv(n), NEW r \in Replicas, UpsertFormulas(r)
  PROVE  DataInv(n)'
<1>1. PICK p : p = pod[r]
  OBVIOUS
<1>2. PICK k \in p.left :
        /\ lookup' = [lookup EXCEPT !["reaction"][k] =
             [listed |-> p.seen.materials[k], built |-> TRUE, activity |-> "reaction"]]
        /\ pod' = [pod EXCEPT ![r].left = @ \ {k}]
  BY <1>1 DEF UpsertFormulas
<1>3. p.phase = "upsert" /\ UNCHANGED <<raw, schematics, applied>> /\ At(r, "upsert")
  BY <1>1 DEF UpsertFormulas, At
<1>4. PICK o : /\ OrderStep(r, o) /\ o.phase = "upsert" /\ o.seen = p.seen
               /\ o.left = p.left \ {k} /\ k \in Keys /\ o.at = p.at
  BY <1>1, <1>2, <1>3, UpsertFormulasOrder
<1>5. p.phase \in Phases \ {"choose"}
  BY <1>3 DEF Phases
<1>6. /\ p \in Starting /\ PhaseOrder(p, applied) /\ PodData(p)
      /\ \A s \in Replicas \ {r} : StartingPod(pod[s]) => pod[s].phase = "choose"
      /\ p.at <= 5 => "reactions" \notin applied
  BY <1>1, <1>5, InHand
<1>7. /\ p.at = 5 /\ p.batch = 1 /\ p.seen["materials"] = Once /\ p.seen["products"] = Once
      /\ \A j \in Keys \ p.left : Formula(j)
  BY <1>3, <1>6 DEF PhaseOrder, PodData
<1>8. PICK d : d = [listed |-> 1, built |-> TRUE, activity |-> "reaction"]
  OBVIOUS
<1>9. d.listed = 1 /\ d.built /\ d.activity = "reaction"
  BY <1>8
<1>10. "manufacturing" \in Activity /\ "reaction" \in Activity
  BY DEF Activity
<1>11. /\ lookup'["manufacturing"] = lookup["manufacturing"]
       /\ \A j \in Keys : lookup'["reaction"][j] = IF j = k THEN d ELSE lookup["reaction"][j]
  <2>1. lookup \in [Activity -> [Keys -> Docs]]
    BY DEF OrderInv, TypeOK
  <2>2. p.seen.materials[k] = 1
    BY <1>4, <1>7 DEF Once
  <2>3. lookup' = [lookup EXCEPT !["reaction"][k] = d]
    BY <2>2, <1>2, <1>8
  <2> QED
    BY <2>1, <2>3, <1>4, <1>10
<1>12. o.batch = 1
  <2>1. o = pod'[r] /\ pod'[r].batch = pod[r].batch
    <3>1. pod \in [Replicas -> Starting \cup {Down, Serving}]
      BY DEF OrderInv, TypeOK
    <3>2. pod'[r] = [p EXCEPT !.left = p.left \ {k}] /\ o = pod'[r]
      BY <3>1, <1>1, <1>2, <1>4 DEF OrderStep
    <3> QED
      BY <3>2, <1>1, <1>6 DEF Starting
  <2> QED
    BY <2>1, <1>1, <1>7
<1>13. PodData(o)'
  <2>1. \A j \in Keys \ o.left : Formula(j)'
    BY <1>4, <1>7, <1>9, <1>11 DEF Formula
  <2> QED
    BY <2>1, <1>4, <1>7, <1>12 DEF PodData
<1>14. Recorded(n)'
  <2>1. "build" \in applied' => \A j \in Keys : Built(j)'
    BY <1>3, <1>11 DEF DataInv, Recorded, Built
  <2>2. \A j \in Keys : /\ lookup'["manufacturing"][j].activity \in {"none", "manufacturing"}
                        /\ lookup'["reaction"][j].built => lookup'["reaction"][j].activity = "reaction"
    BY <1>9, <1>11 DEF DataInv, Recorded
  <2> QED
    BY <2>1, <2>2, <1>3, <1>6, <1>7 DEF DataInv, Recorded
<1>15. o \in Starting \cup {Down, Serving} /\ pod' = [pod EXCEPT ![r] = o]
  BY <1>4 DEF OrderStep, PodNext
<1> QED
  BY <1>6, <1>13, <1>14, <1>15, DataKept

LEMMA SetActivityData ==
  ASSUME OrderInv, AloneInv, NEW n, DataInv(n), NEW r \in Replicas, SetActivity(r)
  PROVE  DataInv(n)'
<1>1. PICK p : p = pod[r]
  OBVIOUS
<1>2. PICK o : OrderStep(r, o) /\ o.phase = "record" /\ o.at = p.at /\ o.batch = p.batch
  BY <1>1, SetActivityOrder
<1>3. /\ p.phase = "upsert" /\ p.left = {} /\ UNCHANGED <<raw, schematics, applied>>
      /\ lookup' = [a \in Activity |-> [k \in Keys |->
           IF lookup[a][k].built /\ lookup[a][k].activity = "none"
           THEN [lookup[a][k] EXCEPT !.activity = "manufacturing"] ELSE lookup[a][k]]]
  BY <1>1 DEF SetActivity, At
<1>4. p.phase \in Phases \ {"choose"}
  BY <1>3 DEF Phases
<1>5. /\ p \in Starting /\ PhaseOrder(p, applied) /\ PodData(p)
      /\ \A s \in Replicas \ {r} : StartingPod(pod[s]) => pod[s].phase = "choose"
      /\ p.at > 2 => "build" \in applied
      /\ p.at <= 5 => "reactions" \notin applied
  BY <1>1, <1>4, InHand
<1>6. p.at = 5 /\ p.batch = 1 /\ \A k \in Keys : Formula(k)
  BY <1>3, <1>5 DEF PhaseOrder, PodData
<1>7. \A k \in Keys : Built(k)
  BY <1>5, <1>6 DEF DataInv, Recorded
<1>8. "manufacturing" \in Activity /\ "reaction" \in Activity
  BY DEF Activity
<1>9. ASSUME NEW k \in Keys
      PROVE  /\ Built(k)' /\ Formula(k)' /\ Marked(k)'
             /\ lookup'["reaction"][k].activity = "reaction"
  <2>1. PICK d, e : d = lookup["manufacturing"][k] /\ e = lookup["reaction"][k]
    OBVIOUS
  <2>2. d \in Docs /\ e \in Docs
    BY <2>1, <1>8 DEF OrderInv, TypeOK
  <2>3. /\ d.built /\ d.listed = 1 /\ d.activity \in {"none", "manufacturing"}
        /\ e.built /\ e.listed = 1 /\ e.activity = "reaction"
    BY <2>1, <1>6, <1>7 DEF Built, Formula, DataInv, Recorded
  <2>4. lookup'["reaction"][k] = e
    BY <1>3, <1>8, <2>1, <2>3
  <2>5. lookup'["manufacturing"][k] =
          IF d.activity = "none" THEN [d EXCEPT !.activity = "manufacturing"] ELSE d
    BY <1>3, <1>8, <2>1, <2>3
  <2>6. PICK f : f = lookup'["manufacturing"][k]
    OBVIOUS
  <2>7. f.built /\ f.listed = 1 /\ f.activity = "manufacturing"
    <3>1. CASE d.activity = "none"
      BY <3>1, <2>2, <2>3, <2>5, <2>6 DEF Docs
    <3>2. CASE d.activity = "manufacturing"
      BY <3>2, <2>3, <2>5, <2>6
    <3> QED
      BY <3>1, <3>2, <2>3
  <2> QED
    BY <2>3, <2>4, <2>6, <2>7 DEF Built, Formula, Marked
<1>10. PodData(o)'
  BY <1>2, <1>6, <1>9 DEF PodData
<1>11. Recorded(n)'
  <2>1. \A k \in Keys : lookup'["manufacturing"][k].activity \in {"none", "manufacturing"}
    BY <1>9 DEF Marked
  <2> QED
    BY <2>1, <1>3, <1>9 DEF DataInv, Recorded
<1>12. o \in Starting \cup {Down, Serving} /\ pod' = [pod EXCEPT ![r] = o]
  BY <1>2 DEF OrderStep, PodNext
<1> QED
  BY <1>5, <1>10, <1>11, <1>12, DataKept

LEMMA CreateProductIndexData ==
  ASSUME OrderInv, AloneInv, NEW n, DataInv(n), NEW r \in Replicas, CreateProductIndex(r)
  PROVE  DataInv(n)'
<1>1. PICK p : p = pod[r]
  OBVIOUS
<1>2. PICK o : /\ OrderStep(r, o)
               /\ \/ o = Down
                  \/ o.phase = "record" /\ o.at = p.at /\ o.batch = p.batch /\ o.at = 6
  BY <1>1, CreateProductIndexOrder
<1>3. p.phase = "create" /\ UNCHANGED <<raw, lookup, schematics, applied>>
  BY <1>1 DEF CreateProductIndex, At
<1>4. p.phase \in Phases \ {"choose"}
  BY <1>3 DEF Phases
<1>5. PodData(p) /\ p.batch = 1
  BY <1>1, <1>3, <1>4, InHand DEF PodData
<1>6. StartingPod(o) => PodData(o)'
  BY <1>2, <1>5 DEF PodData, StartingPod
<1>7. Recorded(n)'
  BY <1>3, RecordedKept DEF DataInv
<1>8. o \in Starting \cup {Down, Serving} /\ pod' = [pod EXCEPT ![r] = o]
  BY <1>2 DEF OrderStep, PodNext
<1> QED
  BY <1>3, <1>6, <1>7, <1>8, DataKept

LEMMA MigrateKeepsData ==
  ASSUME OrderInv, AloneInv, NEW n \in Nat, DataInv(n), NEW r \in Replicas, pod[r].last <= n,
         Migrate(r)
  PROVE  DataInv(n)'
<1>1. CASE Import(r)
  <2>1. CASE ReadSteps(r)
    BY <2>1, ReadStepsData
  <2>2. CASE EmptyTable(r)
    BY <2>2, EmptyTableData
  <2>3. CASE FillTable(r)
    BY <2>3, FillTableData
  <2>4. CASE RecordStep(r)
    BY <2>4, RecordStepData
  <2> QED
    BY <1>1, <2>1, <2>2, <2>3, <2>4 DEF Import
<1>2. CASE Build(r)
  <2>1. CASE ReadTable(r)
    BY <2>1, ReadTableData
  <2>2. CASE Replace(r)
    BY <2>2, ReplaceData
  <2>3. CASE InsertDocs(r)
    BY <2>3, InsertDocsData
  <2> QED
    BY <1>2, <2>1, <2>2, <2>3 DEF Build
<1>3. CASE Refill(r)
  <2>1. CASE ClearSchematics(r)
    BY <2>1, ClearSchematicsData
  <2>2. CASE RefillSchematics(r)
    BY <2>2, RefillSchematicsData
  <2> QED
    BY <1>3, <2>1, <2>2 DEF Refill
<1>4. CASE AddFormulas(r)
  <2>1. CASE UpsertFormulas(r)
    BY <2>1, UpsertFormulasData
  <2>2. CASE SetActivity(r)
    BY <2>2, SetActivityData
  <2> QED
    BY <1>4, <2>1, <2>2 DEF AddFormulas
<1>5. CASE Choose(r)
  BY <1>5, ChooseData
<1>6. CASE Record(r)
  BY <1>6, RecordData
<1>7. CASE CreateProductIndex(r)
  BY <1>7, CreateProductIndexData
<1> QED
  BY <1>1, <1>2, <1>3, <1>4, <1>5, <1>6, <1>7 DEF Migrate

LEMMA StartKeepsData ==
  ASSUME OrderInv, NEW n, DataInv(n), NEW r \in Replicas, NEW m \in 1..6, Start(r, m)
  PROVE  DataInv(n)'
<1>1. PICK o \in Starting : pod' = [pod EXCEPT ![r] = o] /\ o.phase = "choose" /\ o.batch = 1
  BY StartIs
<1>2. UNCHANGED <<raw, lookup, schematics, applied>>
  BY DEF Start
<1>3. PodData(o)'
  BY <1>1 DEF PodData
<1>4. Recorded(n)'
  BY <1>2, RecordedKept DEF DataInv
<1> QED
  BY <1>1, <1>2, <1>3, <1>4, DataKept

LEMMA DownKeepsData ==
  ASSUME OrderInv, NEW n, DataInv(n), NEW r \in Replicas, pod' = [pod EXCEPT ![r] = Down],
         UNCHANGED <<raw, lookup, schematics, applied>>
  PROVE  DataInv(n)'
<1>1. Recorded(n)'
  BY RecordedKept DEF DataInv
<1>2. ~StartingPod(Down)
  BY DEF StartingPod
<1> QED
  BY <1>1, <1>2, DataKept

\* What the blueprint pages of a release with m migrations answer from, once those
\* are recorded.
LEMMA RecordedIsComplete ==
  ASSUME NEW n, Recorded(n), NEW m \in 2..6, FirstOf(m) \subseteq applied
  PROVE  BlueprintsComplete(m)
<1>1. "build" \in applied
  <2>1. Order[2] \in FirstOf(m)
    BY DEF FirstOf
  <2> QED
    BY <2>1, OrderIs
<1>2. m >= 5 => "reactions" \in applied
  <2>1. m >= 5 => Order[5] \in FirstOf(m)
    BY DEF FirstOf
  <2> QED
    BY <2>1, OrderIs
<1>3. ASSUME NEW k \in Keys, m >= 5, NEW a \in Activity PROVE lookup[a][k].activity = a
  <2>1. Formula(k) /\ Marked(k)
    BY <1>2, <1>3 DEF Recorded
  <2> QED
    BY <2>1 DEF Recorded, Formula, Marked, Activity
<1> QED
  BY <1>1, <1>2, <1>3 DEF Recorded, BlueprintsComplete, Built, Formula

-----------------------------------------------------------------------------
(* What serves is complete *)

\* Every image has all the migrations; who serves has seen them recorded.
ServingInv ==
  \A r \in Replicas :
    /\ StartingPod(pod[r]) => pod[r].last = 6
    /\ pod[r] = Serving => FirstOf(6) \subseteq applied

CompleteInv == OrderInv /\ AloneInv /\ DataInv(6) /\ ServingInv

LEMMA InitComplete == Init => CompleteInv
<1> SUFFICES ASSUME Init PROVE CompleteInv
  OBVIOUS
<1>1. \A r \in Replicas : pod[r] = Down
  BY DEF Init
<1>2. AloneInv
  BY <1>1 DEF AloneInv, MigratingPod, StartingPod
<1>3. ServingInv
  BY <1>1, PodsApart DEF ServingInv, StartingPod
<1>4. \A a \in Activity, k \in Keys : ~lookup[a][k].built /\ lookup[a][k].activity = "none"
  BY DEF Init, NoDoc
<1>5. "manufacturing" \in Activity /\ "reaction" \in Activity
  BY DEF Activity
<1>6. Recorded(6)
  BY <1>4, <1>5 DEF Init, Recorded
<1>7. DataInv(6)
  BY <1>1, <1>6 DEF DataInv, StartingPod
<1> QED
  BY <1>2, <1>3, <1>7, InitOrder DEF CompleteInv

LEMMA NextKeepsComplete == MaxStarting = 1 /\ CompleteInv /\ [Next]_vars => CompleteInv'
<1> SUFFICES ASSUME MaxStarting = 1, CompleteInv, [Next]_vars PROVE CompleteInv'
  OBVIOUS
<1> USE DEF CompleteInv
<1>1. ASSUME NEW r \in Replicas, Start(r, Len(Order)) PROVE CompleteInv'
  <2>1. Start(r, 6)
    BY <1>1, OrderIs
  <2>2. PICK o \in Starting : pod' = [pod EXCEPT ![r] = o] /\ o.last = 6
    BY <2>1, StartIs
  <2>3. UNCHANGED applied
    BY <2>1 DEF Start
  <2>4. ServingInv'
    BY <2>2, <2>3, PodsApart DEF ServingInv, OrderInv, TypeOK
  <2> QED
    BY <2>1, <2>4, StartKeepsOrder, StartKeepsAlone, StartKeepsData
<1>2. ASSUME NEW r \in Replicas, Migrate(r) PROVE CompleteInv'
  <2>1. PICK o : OrderStep(r, o)
    BY <1>2, MigrateOrder
  <2>2. pod[r].last = 6
    BY <2>1, PodsApart DEF OrderStep, ServingInv
  <2>3. ServingInv'
    BY <2>1, <2>2 DEF OrderStep, PodNext, ServingInv, OrderInv, TypeOK
  <2>4. DataInv(6)'
    BY <1>2, <2>2, MigrateKeepsData
  <2> QED
    BY <1>2, <2>3, <2>4, MigrateKeepsOrder, MigrateKeepsAlone
<1>3. ASSUME NEW r \in Replicas, Crash(r) PROVE CompleteInv'
  <2>1. pod' = [pod EXCEPT ![r] = Down] /\ UNCHANGED <<raw, lookup, schematics, applied>>
    BY <1>3 DEF Crash
  <2>2. ServingInv'
    BY <2>1, PodsApart DEF ServingInv, StartingPod, OrderInv, TypeOK
  <2> QED
    BY <1>3, <2>1, <2>2, CrashKeepsOrder, DownKeepsAlone, DownKeepsData
<1>4. CASE UNCHANGED vars
  <2>1. UNCHANGED <<raw, lookup, schematics, applied, pod>>
    BY <1>4 DEF vars
  <2>2. OrderInv'
    BY <1>4, NextKeepsOrder
  <2>3. AloneInv' /\ ServingInv'
    BY <2>1 DEF AloneInv, ServingInv
  <2>4. DataInv(6)'
    BY <2>1, RecordedKept DEF DataInv, PodData, Built, Formula, Marked
  <2> QED
    BY <2>2, <2>3, <2>4
<1> QED
  BY <1>1, <1>2, <1>3, <1>4 DEF Next, Step

\* With one replica migrating at a time, whatever is killed and however often it is
\* started again, what a serving pod answers from is complete: every blueprint is
\* there once with its materials, every formula, the planetary schematics. (With two
\* it is not: the run scaled_up.)
THEOREM ServesWhenAlone ==
  ASSUME MaxStarting = 1 PROVE Spec => []ServingIsComplete
<1>1. CompleteInv => ServingIsComplete
  <2> SUFFICES ASSUME CompleteInv, NEW r \in Replicas, pod[r] = Serving
               PROVE  BlueprintsComplete(6) /\ schematics = Keys
    BY OrderIs DEF ServingIsComplete
  <2>1. FirstOf(6) \subseteq applied
    BY DEF CompleteInv, ServingInv
  <2>2. "again" \in applied
    <3>1. Order[4] \in FirstOf(6)
      BY DEF FirstOf
    <3> QED
      BY <3>1, <2>1, OrderIs
  <2> QED
    BY <2>1, <2>2, RecordedIsComplete DEF CompleteInv, DataInv, Recorded
<1>2. MaxStarting = 1
  OBVIOUS
<1>3. CompleteInv /\ [Next]_vars => CompleteInv'
  BY <1>2, NextKeepsComplete
<1> QED
  BY <1>1, <1>3, InitComplete, PTL DEF Spec

=============================================================================
