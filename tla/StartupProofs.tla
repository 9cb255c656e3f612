---------------------------- MODULE StartupProofs ----------------------------
(***************************************************************************)
(* Proofs about Startup, for any replicas, batches, kills, indexes and     *)
(* releases. What a step of run_migrations does is proved in               *)
(* MigrationsProofs; here the pods are of several releases, and            *)
(* sync_indexes comes after the migrations, beside other calls of it.      *)
(***************************************************************************)
EXTENDS Startup, MigrationsProofs

-----------------------------------------------------------------------------
(* sync_indexes: an entry in hand is there, and is of a declared name *)

\* A call p of sync_indexes has an entry, or a record, in its hand where its phase
\* works on one; M holds the names of both lists.
SyncOrder(p, M) ==
  p \in S!Syncing =>
    /\ p.phase \in {"check", "drop", "create", "record"} => p.todo # <<>>
    /\ p.phase \in {"drop_stale", "delete_stale"} => p.stale # <<>>
    /\ \A i \in 1..Len(p.todo) : p.todo[i].name \in M
    /\ \A i \in 1..Len(p.stale) : p.stale[i] \in M

\* Only what some release has declared is on record.
ConfigInv ==
  /\ \A n \in IndexNames : config[n] # NoSpec => n \in Managed
  /\ IsFiniteSet({n \in IndexNames : config[n] # NoSpec})

SyncInv ==
  /\ S!SyncTypeOK
  /\ \A r \in Replicas : SyncOrder(sync[r], Managed)
  /\ ConfigInv

LEMMA CallsApart ==
  /\ S!Idle.phase = "idle" /\ S!Synced.phase = "synced" /\ S!Idle # S!Synced
  /\ S!Idle \notin S!Syncing /\ S!Synced \notin S!Syncing
  /\ \A p \in S!Syncing \cup {S!Idle, S!Synced} : p.phase \in S!SyncPhases <=> p \in S!Syncing
<1>1. \A p \in S!Syncing : p.phase \in S!SyncPhases
  BY DEF S!Syncing
<1>2. S!Idle.phase = "idle" /\ S!Synced.phase = "synced"
  BY DEF S!Idle, S!Synced
<1>3. "idle" \notin S!SyncPhases /\ "synced" \notin S!SyncPhases
  BY DEF S!SyncPhases
<1> QED
  BY <1>1, <1>2, <1>3

\* The release image[r] has entries, of names that some release declares.
LEMMA ReleaseEntries ==
  ASSUME NEW v \in 1..Len(Releases)
  PROVE  /\ Releases[v] \in Seq(S!Entries)
         /\ release \in Nat /\ v <= release =>
              \A i \in 1..Len(Releases[v]) : Releases[v][i].name \in Managed
<1>1. Releases[v] \in Seq(S!Entries)
  BY ReleasesAreConfigs
<1>2. DOMAIN Releases[v] = 1..Len(Releases[v])
  BY <1>1
<1>3. ASSUME release \in Nat, v <= release, NEW i \in 1..Len(Releases[v])
      PROVE  Releases[v][i].name \in Managed
  <2>1. Releases[v][i].name \in S!DesiredNames(v)
    BY <1>2, <1>3 DEF S!DesiredNames
  <2>2. v \in 1..release
    BY <1>3
  <2> QED
    BY <2>1, <2>2 DEF Managed
<1> QED
  BY <1>1, <1>3

LEMMA OnToIs ==
  ASSUME NEW p \in S!Syncing, NEW todo \in Seq(S!Entries), NEW M,
         \A i \in 1..Len(todo) : todo[i].name \in M,
         \A i \in 1..Len(p.stale) : p.stale[i] \in M
  PROVE  S!OnTo(p, todo) \in S!Syncing /\ SyncOrder(S!OnTo(p, todo), M)
<1>1. PICK h : h = IF todo = <<>> THEN "find" ELSE "check"
  OBVIOUS
<1> DEFINE o == [p EXCEPT !.todo = todo, !.phase = h]
<1>2. S!OnTo(p, todo) = o
  BY <1>1 DEF S!OnTo
<1>3. h \in S!SyncPhases /\ h \in {"find", "check"}
  BY <1>1 DEF S!SyncPhases
<1>4. o \in S!Syncing /\ o.phase = h /\ o.todo = todo /\ o.stale = p.stale
  BY <1>3 DEF S!Syncing
<1> HIDE DEF o
<1>5. SyncOrder(o, M)
  BY <1>1, <1>3, <1>4 DEF SyncOrder
<1> QED
  BY <1>2, <1>4, <1>5

LEMMA OnToStaleIs ==
  ASSUME NEW p \in S!Syncing, NEW stale \in Seq(IndexNames), NEW M,
         \A i \in 1..Len(stale) : stale[i] \in M,
         \A i \in 1..Len(p.todo) : p.todo[i].name \in M
  PROVE  /\ S!OnToStale(p, stale) \in S!Syncing \cup {S!Synced}
         /\ SyncOrder(S!OnToStale(p, stale), M)
<1>1. CASE stale = <<>>
  <2>1. S!OnToStale(p, stale) = S!Synced
    BY <1>1 DEF S!OnToStale
  <2> QED
    BY <2>1, CallsApart DEF SyncOrder
<1>2. CASE stale # <<>>
  <2> DEFINE o == [p EXCEPT !.stale = stale, !.phase = "drop_stale"]
  <2>1. S!OnToStale(p, stale) = o
    BY <1>2 DEF S!OnToStale
  <2>2. "drop_stale" \in S!SyncPhases
    BY DEF S!SyncPhases
  <2>3. o \in S!Syncing /\ o.phase = "drop_stale" /\ o.stale = stale /\ o.todo = p.todo
    BY <2>2 DEF S!Syncing
  <2> HIDE DEF o
  <2> QED
    BY <1>2, <2>1, <2>3 DEF SyncOrder
<1> QED
  BY <1>1, <1>2

\* What a step of a call leaves: its call o, and M, the names that may be on record.
LEMMA SyncKept ==
  ASSUME SyncInv, NEW r \in Replicas, NEW o \in S!Syncing \cup {S!Idle, S!Synced},
         sync' = [sync EXCEPT ![r] = o], SyncOrder(o, Managed), UNCHANGED release,
         indexes' \in MaybeIndexes, config' \in MaybeIndexes, ConfigInv'
  PROVE  SyncInv'
<1>1. Managed' = Managed
  BY DEF Managed
<1>2. sync' \in [Replicas -> S!Syncing \cup {S!Idle, S!Synced}]
  BY DEF SyncInv, S!SyncTypeOK
<1>3. \A q \in Replicas : SyncOrder(sync'[q], Managed)
  <2>1. \A q \in Replicas : sync'[q] = IF q = r THEN o ELSE sync[q]
    BY DEF SyncInv, S!SyncTypeOK
  <2> QED
    BY <2>1 DEF SyncInv
<1>4. \A q \in Replicas : SyncOrder(sync'[q], Managed')
  BY <1>1, <1>3
<1>5. S!SyncTypeOK'
  BY <1>2 DEF S!SyncTypeOK, S!MaybeIndexes, MaybeIndexes, S!NoSpec, NoSpec
<1> QED
  BY <1>4, <1>5 DEF SyncInv

LEMMA ConfigKept == ASSUME ConfigInv, UNCHANGED <<config, release>> PROVE ConfigInv'
BY DEF ConfigInv, Managed

\* A call of sync_indexes in one of its phases.
LEMMA InCall ==
  ASSUME SyncInv, NEW r \in Replicas, NEW p, p = sync[r], p.phase \in S!SyncPhases
  PROVE  /\ p \in S!Syncing /\ SyncOrder(p, Managed)
         /\ p.todo \in Seq(S!Entries) /\ p.stale \in Seq(IndexNames)
         /\ \A i \in 1..Len(p.todo) : p.todo[i].name \in Managed
         /\ \A i \in 1..Len(p.stale) : p.stale[i] \in Managed
         /\ p.todo # <<>> => /\ Head(p.todo) \in S!Entries /\ Head(p.todo).name \in Managed
                             /\ Tail(p.todo) \in Seq(S!Entries)
                             /\ \A i \in 1..Len(Tail(p.todo)) : Tail(p.todo)[i].name \in Managed
         /\ p.stale # <<>> => /\ Head(p.stale) \in IndexNames /\ Head(p.stale) \in Managed
                              /\ Tail(p.stale) \in Seq(IndexNames)
                              /\ \A i \in 1..Len(Tail(p.stale)) : Tail(p.stale)[i] \in Managed
<1>1. p \in S!Syncing /\ SyncOrder(p, Managed)
  BY CallsApart DEF SyncInv, S!SyncTypeOK
<1>2. p.todo \in Seq(S!Entries) /\ p.stale \in Seq(IndexNames)
  BY <1>1 DEF S!Syncing
<1>3. /\ \A i \in 1..Len(p.todo) : p.todo[i].name \in Managed
      /\ \A i \in 1..Len(p.stale) : p.stale[i] \in Managed
  BY <1>1 DEF SyncOrder
<1>4. PICK t, u : t = p.todo /\ u = p.stale
  OBVIOUS
<1>5. ASSUME t # <<>>
      PROVE  /\ Head(t) \in S!Entries /\ Head(t) = t[1] /\ 1 \in 1..Len(t) /\ Tail(t) \in Seq(S!Entries)
             /\ \A i \in 1..Len(Tail(t)) : Tail(t)[i] = t[i + 1] /\ i + 1 \in 1..Len(t)
  BY <1>2, <1>4, <1>5
<1>6. ASSUME u # <<>>
      PROVE  /\ Head(u) \in IndexNames /\ Head(u) = u[1] /\ 1 \in 1..Len(u) /\ Tail(u) \in Seq(IndexNames)
             /\ \A i \in 1..Len(Tail(u)) : Tail(u)[i] = u[i + 1] /\ i + 1 \in 1..Len(u)
  BY <1>2, <1>4, <1>6
<1> QED
  BY <1>1, <1>2, <1>3, <1>4, <1>5, <1>6

\* An index created or dropped leaves a possible set of indexes.
LEMMA IndexTypes ==
  ASSUME NEW d \in MaybeIndexes, NEW i \in IndexNames, NEW spec \in IndexSpecs \cup {NoSpec}
  PROVE  [d EXCEPT ![i] = spec] \in MaybeIndexes
BY DEF MaybeIndexes

\* Every step of a call keeps what the calls and the records are made of, and drops
\* or replaces only indexes some release has declared.
LEMMA SyncStepKeeps ==
  ASSUME SyncInv, NEW r \in Replicas, S!SyncStep(r), UNCHANGED release
  PROVE  /\ SyncInv'
         /\ sync[r] \in S!Syncing
         /\ \E o : sync' = [sync EXCEPT ![r] = o]
         /\ \A n \in IndexNames \ Managed : indexes'[n] = indexes[n]
<1>1. PICK p : p = sync[r]
  OBVIOUS
<1>2. /\ indexes \in MaybeIndexes /\ config \in MaybeIndexes
      /\ sync \in [Replicas -> S!Syncing \cup {S!Idle, S!Synced}]
  BY DEF SyncInv, S!SyncTypeOK, S!MaybeIndexes, MaybeIndexes, S!NoSpec, NoSpec
<1>3. SyncOrder(S!Idle, Managed) /\ SyncOrder(S!Synced, Managed)
  BY CallsApart DEF SyncOrder
<1>4. /\ NoSpec \in IndexSpecs \cup {NoSpec} /\ S!NoSpec = NoSpec
  BY DEF S!NoSpec, NoSpec
<1>5. CASE S!Check(r)
  <2>1. PICK e : e = Head(p.todo)
    OBVIOUS
  <2>2. /\ p.phase = "check" /\ UNCHANGED <<indexes, config>>
        /\ sync' = [sync EXCEPT ![r] =
             IF config[e.name] = e.spec THEN S!OnTo(p, Tail(p.todo))
             ELSE [p EXCEPT !.phase = "drop"]]
    BY <1>1, <1>5, <2>1 DEF S!Check, S!SyncIs, S!Entry
  <2>3. p.phase \in S!SyncPhases
    BY <2>2 DEF S!SyncPhases
  <2>4. /\ p \in S!Syncing /\ SyncOrder(p, Managed) /\ p.todo # <<>>
        /\ \A i \in 1..Len(p.stale) : p.stale[i] \in Managed
    BY <1>1, <2>2, <2>3, InCall DEF SyncOrder
  <2>5. /\ Tail(p.todo) \in Seq(S!Entries)
        /\ \A i \in 1..Len(Tail(p.todo)) : Tail(p.todo)[i].name \in Managed
    BY <1>1, <2>3, <2>4, InCall
  <2>6. PICK a : a = S!OnTo(p, Tail(p.todo))
    OBVIOUS
  <2>7. a \in S!Syncing /\ SyncOrder(a, Managed)
    BY <2>4, <2>5, <2>6, OnToIs
  <2>8. PICK b : b = [p EXCEPT !.phase = "drop"]
    OBVIOUS
  <2>9. b \in S!Syncing /\ SyncOrder(b, Managed)
    <3>1. b \in S!Syncing /\ b.phase = "drop" /\ b.todo = p.todo /\ b.stale = p.stale
      BY <2>4, <2>8 DEF S!Syncing, S!SyncPhases
    <3> QED
      BY <2>4, <3>1 DEF SyncOrder
  <2>10. PICK o \in {a, b} : sync' = [sync EXCEPT ![r] = o]
    BY <2>2, <2>6, <2>8
  <2>11. ConfigInv'
    BY <2>2, ConfigKept DEF SyncInv
  <2> QED
    BY <1>1, <1>2, <2>2, <2>4, <2>7, <2>9, <2>10, <2>11, SyncKept
<1>6. CASE S!DropOld(r)
  <2>1. PICK e : e = Head(p.todo)
    OBVIOUS
  <2>2. /\ p.phase = "drop" /\ UNCHANGED config
        /\ indexes' = [indexes EXCEPT ![e.name] = NoSpec]
        /\ sync' = [sync EXCEPT ![r].phase = "create"]
    BY <1>1, <1>4, <1>6, <2>1 DEF S!DropOld, S!SyncIs, S!Entry, S!WithoutIndex
  <2>3. p.phase \in S!SyncPhases
    BY <2>2 DEF S!SyncPhases
  <2>4. p \in S!Syncing /\ SyncOrder(p, Managed) /\ p.todo # <<>>
    BY <1>1, <2>2, <2>3, InCall DEF SyncOrder
  <2>5. e \in S!Entries /\ e.name \in Managed /\ e.name \in IndexNames
    BY <1>1, <2>1, <2>3, <2>4, InCall DEF S!Entries
  <2>6. PICK o : o = [p EXCEPT !.phase = "create"]
    OBVIOUS
  <2>7. o \in S!Syncing /\ SyncOrder(o, Managed)
    <3>1. o \in S!Syncing /\ o.phase = "create" /\ o.todo = p.todo /\ o.stale = p.stale
      BY <2>4, <2>6 DEF S!Syncing, S!SyncPhases
    <3> QED
      BY <2>4, <3>1 DEF SyncOrder
  <2>8. sync' = [sync EXCEPT ![r] = o]
    BY <1>1, <1>2, <2>2, <2>6
  <2>9. ConfigInv'
    BY <2>2, ConfigKept DEF SyncInv
  <2>10. indexes' \in MaybeIndexes
    BY <1>2, <1>4, <2>2, <2>5, IndexTypes
  <2>11. \A n \in IndexNames \ Managed : indexes'[n] = indexes[n]
    BY <1>2, <2>2, <2>5 DEF MaybeIndexes
  <2> QED
    BY <1>1, <1>2, <2>2, <2>4, <2>7, <2>8, <2>9, <2>10, <2>11, SyncKept
<1>7. CASE S!Create(r)
  <2>1. PICK e : e = Head(p.todo)
    OBVIOUS
  <2>2. /\ p.phase = "create" /\ UNCHANGED config
        /\ \/ /\ indexes' = [indexes EXCEPT ![e.name] = e.spec]
              /\ sync' = [sync EXCEPT ![r].phase = "record"]
           \/ sync' = [sync EXCEPT ![r] = S!Idle] /\ UNCHANGED indexes
    BY <1>1, <1>7, <2>1 DEF S!Create, S!SyncIs, S!Entry, S!WithIndex
  <2>3. p.phase \in S!SyncPhases
    BY <2>2 DEF S!SyncPhases
  <2>4. p \in S!Syncing /\ SyncOrder(p, Managed) /\ p.todo # <<>>
    BY <1>1, <2>2, <2>3, InCall DEF SyncOrder
  <2>5. e.name \in Managed /\ e.name \in IndexNames /\ e.spec \in IndexSpecs
    BY <1>1, <2>1, <2>3, <2>4, InCall DEF S!Entries
  <2>6. ConfigInv'
    BY <2>2, ConfigKept DEF SyncInv
  <2>7. CASE /\ indexes' = [indexes EXCEPT ![e.name] = e.spec]
             /\ sync' = [sync EXCEPT ![r].phase = "record"]
    <3>1. PICK o : o = [p EXCEPT !.phase = "record"]
      OBVIOUS
    <3>2. o \in S!Syncing /\ SyncOrder(o, Managed)
      <4>1. o \in S!Syncing /\ o.phase = "record" /\ o.todo = p.todo /\ o.stale = p.stale
        BY <2>4, <3>1 DEF S!Syncing, S!SyncPhases
      <4> QED
        BY <2>4, <4>1 DEF SyncOrder
    <3>3. sync' = [sync EXCEPT ![r] = o]
      BY <1>1, <1>2, <2>7, <3>1
    <3>4. indexes' \in MaybeIndexes
      BY <1>2, <2>5, <2>7, IndexTypes
    <3>5. \A n \in IndexNames \ Managed : indexes'[n] = indexes[n]
      BY <1>2, <2>5, <2>7 DEF MaybeIndexes
    <3> QED
      BY <1>1, <1>2, <2>2, <2>4, <2>6, <3>2, <3>3, <3>4, <3>5, SyncKept
  <2>8. CASE sync' = [sync EXCEPT ![r] = S!Idle] /\ UNCHANGED indexes
    BY <1>1, <1>2, <1>3, <2>2, <2>4, <2>6, <2>8, SyncKept
  <2> QED
    BY <2>2, <2>7, <2>8
<1>8. CASE S!RecordSpec(r)
  <2>1. PICK e : e = Head(p.todo)
    OBVIOUS
  <2>2. /\ p.phase = "record" /\ UNCHANGED indexes
        /\ config' = [config EXCEPT ![e.name] = e.spec]
        /\ sync' = [sync EXCEPT ![r] = S!OnTo(p, Tail(p.todo))]
    BY <1>1, <1>8, <2>1 DEF S!RecordSpec, S!SyncIs, S!Entry
  <2>3. p.phase \in S!SyncPhases
    BY <2>2 DEF S!SyncPhases
  <2>4. /\ p \in S!Syncing /\ p.todo # <<>>
        /\ \A i \in 1..Len(p.stale) : p.stale[i] \in Managed
    BY <1>1, <2>2, <2>3, InCall DEF SyncOrder
  <2>5. /\ Tail(p.todo) \in Seq(S!Entries)
        /\ \A i \in 1..Len(Tail(p.todo)) : Tail(p.todo)[i].name \in Managed
    BY <1>1, <2>3, <2>4, InCall
  <2>6. e.name \in Managed /\ e.name \in IndexNames /\ e.spec \in IndexSpecs
    BY <1>1, <2>1, <2>3, <2>4, InCall DEF S!Entries
  <2>7. PICK o : o = S!OnTo(p, Tail(p.todo))
    OBVIOUS
  <2>8. o \in S!Syncing /\ SyncOrder(o, Managed)
    BY <2>4, <2>5, <2>7, OnToIs
  <2>9. config' \in MaybeIndexes
    BY <1>2, <2>2, <2>6, IndexTypes
  <2>10. ConfigInv'
    <3>1. \A n \in IndexNames : config'[n] # NoSpec => config[n] # NoSpec \/ n = e.name
      BY <1>2, <2>2, <2>6 DEF MaybeIndexes
    <3>2. \A n \in IndexNames : config'[n] # NoSpec => n \in Managed'
      BY <2>6, <3>1 DEF SyncInv, ConfigInv, Managed
    <3>3. PICK A : A = {n \in IndexNames : config[n] # NoSpec}
      OBVIOUS
    <3>4. IsFiniteSet(A \cup {e.name})
      BY <3>3, FS_AddElement DEF SyncInv, ConfigInv
    <3>5. {n \in IndexNames : config'[n] # NoSpec} \subseteq A \cup {e.name}
      BY <3>1, <3>3
    <3>6. IsFiniteSet({n \in IndexNames : config'[n] # NoSpec})
      BY <3>4, <3>5, FS_Subset
    <3> QED
      BY <3>2, <3>6 DEF ConfigInv
  <2> QED
    BY <1>1, <1>2, <2>2, <2>4, <2>7, <2>8, <2>9, <2>10, SyncKept
<1>9. CASE S!FindStale(r)
  <2>1. PICK T : T = {n \in IndexNames : config[n] # NoSpec} \ S!DesiredNames(p.of)
    OBVIOUS
  <2>2. PICK stale \in S!Cursors(T) : sync' = [sync EXCEPT ![r] = S!OnToStale(p, stale)]
    BY <1>1, <1>4, <1>9, <2>1 DEF S!FindStale
  <2>3. p.phase = "find" /\ UNCHANGED <<indexes, config>>
    BY <1>1, <1>9 DEF S!FindStale, S!SyncIs
  <2>4. p.phase \in S!SyncPhases
    BY <2>3 DEF S!SyncPhases
  <2>5. /\ p \in S!Syncing
        /\ \A i \in 1..Len(p.todo) : p.todo[i].name \in Managed
    BY <1>1, <2>4, InCall
  <2>6. stale \in Seq(IndexNames) /\ \A i \in 1..Len(stale) : stale[i] \in Managed
    <3>1. IsFiniteSet(T)
      BY <2>1, FS_Subset DEF SyncInv, ConfigInv
    <3>2. Cardinality(T) \in Nat
      BY <3>1, FS_CardinalityType
    <3>3. stale \in [1..Cardinality(T) -> T]
      <4>1. S!Cardinality(T) = Cardinality(T)
        BY DEF S!Cardinality, Cardinality
      <4> QED
        BY <2>2, <4>1 DEF S!Cursors
    <3>4. stale \in Seq(T)
      <4>1. PICK c : c = Cardinality(T)
        OBVIOUS
      <4>2. c \in Nat /\ stale \in [1..c -> T]
        BY <3>2, <3>3, <4>1
      <4> QED
        BY <4>2, SeqDef
    <3>5. T \subseteq IndexNames /\ T \subseteq Managed
      BY <2>1 DEF SyncInv, ConfigInv
    <3>6. \A i \in 1..Len(stale) : stale[i] \in T
      BY <3>4
    <3> QED
      BY <3>4, <3>5, <3>6
  <2>7. PICK o : o = S!OnToStale(p, stale)
    OBVIOUS
  <2>8. o \in S!Syncing \cup {S!Idle, S!Synced} /\ SyncOrder(o, Managed)
    BY <2>5, <2>6, <2>7, OnToStaleIs
  <2>9. ConfigInv'
    BY <2>3, ConfigKept DEF SyncInv
  <2> QED
    BY <1>1, <1>2, <2>2, <2>3, <2>5, <2>7, <2>8, <2>9, SyncKept
<1>10. CASE S!DropStale(r)
  <2>1. PICK e : e = Head(p.stale)
    OBVIOUS
  <2>2. /\ p.phase = "drop_stale" /\ UNCHANGED config
        /\ indexes' = [indexes EXCEPT ![e] = NoSpec]
        /\ sync' = [sync EXCEPT ![r].phase = "delete_stale"]
    BY <1>1, <1>4, <1>10, <2>1 DEF S!DropStale, S!SyncIs, S!WithoutIndex
  <2>3. p.phase \in S!SyncPhases
    BY <2>2 DEF S!SyncPhases
  <2>4. p \in S!Syncing /\ SyncOrder(p, Managed) /\ p.stale # <<>>
    BY <1>1, <2>2, <2>3, InCall DEF SyncOrder
  <2>5. e \in IndexNames /\ e \in Managed
    BY <1>1, <2>1, <2>3, <2>4, InCall
  <2>6. PICK o : o = [p EXCEPT !.phase = "delete_stale"]
    OBVIOUS
  <2>7. o \in S!Syncing /\ SyncOrder(o, Managed)
    <3>1. o \in S!Syncing /\ o.phase = "delete_stale" /\ o.todo = p.todo /\ o.stale = p.stale
      BY <2>4, <2>6 DEF S!Syncing, S!SyncPhases
    <3> QED
      BY <2>4, <3>1 DEF SyncOrder
  <2>8. sync' = [sync EXCEPT ![r] = o]
    BY <1>1, <1>2, <2>2, <2>6
  <2>9. ConfigInv'
    BY <2>2, ConfigKept DEF SyncInv
  <2>10. indexes' \in MaybeIndexes
    BY <1>2, <1>4, <2>2, <2>5, IndexTypes
  <2>11. \A n \in IndexNames \ Managed : indexes'[n] = indexes[n]
    BY <1>2, <2>2, <2>5 DEF MaybeIndexes
  <2> QED
    BY <1>1, <1>2, <2>2, <2>4, <2>7, <2>8, <2>9, <2>10, <2>11, SyncKept
<1>11. CASE S!DeleteStale(r)
  <2>1. PICK e : e = Head(p.stale)
    OBVIOUS
  <2>2. /\ p.phase = "delete_stale" /\ UNCHANGED indexes
        /\ config' = [config EXCEPT ![e] = NoSpec]
        /\ sync' = [sync EXCEPT ![r] = S!OnToStale(p, Tail(p.stale))]
    BY <1>1, <1>4, <1>11, <2>1 DEF S!DeleteStale, S!SyncIs
  <2>3. p.phase \in S!SyncPhases
    BY <2>2 DEF S!SyncPhases
  <2>4. /\ p \in S!Syncing /\ p.stale # <<>>
        /\ \A i \in 1..Len(p.todo) : p.todo[i].name \in Managed
    BY <1>1, <2>2, <2>3, InCall DEF SyncOrder
  <2>5. /\ Tail(p.stale) \in Seq(IndexNames) /\ e \in IndexNames
        /\ \A i \in 1..Len(Tail(p.stale)) : Tail(p.stale)[i] \in Managed
    BY <1>1, <2>1, <2>3, <2>4, InCall
  <2>6. PICK o : o = S!OnToStale(p, Tail(p.stale))
    OBVIOUS
  <2>7. o \in S!Syncing \cup {S!Idle, S!Synced} /\ SyncOrder(o, Managed)
    BY <2>4, <2>5, <2>6, OnToStaleIs
  <2>8. config' \in MaybeIndexes
    BY <1>2, <1>4, <2>2, <2>5, IndexTypes
  <2>9. ConfigInv'
    <3>1. \A n \in IndexNames : config'[n] # NoSpec => config[n] # NoSpec
      BY <1>2, <2>2, <2>5 DEF MaybeIndexes
    <3>2. \A n \in IndexNames : config'[n] # NoSpec => n \in Managed'
      BY <3>1 DEF SyncInv, ConfigInv, Managed
    <3>3. {n \in IndexNames : config'[n] # NoSpec} \subseteq {n \in IndexNames : config[n] # NoSpec}
      BY <3>1
    <3>4. IsFiniteSet({n \in IndexNames : config'[n] # NoSpec})
      BY <3>3, FS_Subset DEF SyncInv, ConfigInv
    <3> QED
      BY <3>2, <3>4 DEF ConfigInv
  <2> QED
    BY <1>1, <1>2, <2>2, <2>4, <2>6, <2>7, <2>8, <2>9, SyncKept
<1> QED
  BY <1>5, <1>6, <1>7, <1>8, <1>9, <1>10, <1>11 DEF S!SyncStep

-----------------------------------------------------------------------------
(* The pods of several releases *)

\* A pod migrates what its image has, and who serves has seen that recorded; only
\* who serves has called sync_indexes.
ImageInv ==
  /\ release \in 1..Len(Releases) /\ image \in [Replicas -> 1..release]
  /\ \A r \in Replicas :
       /\ StartingPod(pod[r]) => pod[r].last = Shipped[image[r]]
       /\ pod[r] = Serving => FirstOf(Shipped[image[r]]) \subseteq applied
       /\ sync[r] # S!Idle => pod[r] = Serving

StartupInv == OrderInv /\ SyncInv /\ ImageInv

\* The images there are.
LEMMA Images ==
  ASSUME ImageInv, NEW r \in Replicas
  PROVE  /\ image[r] \in 1..Len(Releases) /\ image[r] <= release /\ release \in Nat
         /\ Shipped[image[r]] \in 1..6 /\ Shipped[release] \in 1..6
         /\ Shipped[image[r]] <= Shipped[release]
<1>1. Len(Releases) \in Nat /\ DOMAIN Releases = 1..Len(Releases)
  BY ReleasesAreConfigs
<1>2. /\ image[r] \in 1..Len(Releases) /\ image[r] <= release /\ release \in Nat
      /\ release \in 1..Len(Releases)
  BY <1>1 DEF ImageInv
<1> QED
  BY <1>1, <1>2, ReleasesAddMigrations, OrderIs

LEMMA InitStartup == StartupInit => StartupInv
<1> SUFFICES ASSUME StartupInit PROVE StartupInv
  OBVIOUS
<1>1. OrderInv
  BY InitOrder DEF StartupInit
<1>2. \A r \in Replicas : pod[r] = Down /\ sync[r] = S!Idle
  BY DEF StartupInit, Init, S!SyncInit
<1>3. Len(Releases) \in Nat \ {0}
  BY ReleasesAreConfigs, EmptySeq
<1>4. ImageInv
  BY <1>2, <1>3, PodsApart DEF ImageInv, StartupInit, StartingPod
<1>5. SyncInv
  <2>1. \A r \in Replicas : SyncOrder(sync[r], Managed)
    BY <1>2, CallsApart DEF SyncOrder
  <2>2. ConfigInv
    <3>1. \A n \in IndexNames : config[n] = NoSpec
      BY DEF StartupInit, S!SyncInit, S!NoSpec, NoSpec
    <3>2. {n \in IndexNames : config[n] # NoSpec} = {}
      BY <3>1
    <3> QED
      BY <3>1, <3>2, FS_EmptySet DEF ConfigInv
  <2>3. S!SyncTypeOK
    <3>1. S!MaybeIndexes = MaybeIndexes /\ S!NoSpec = NoSpec
      BY DEF S!MaybeIndexes, MaybeIndexes, S!NoSpec, NoSpec
    <3>2. indexes \in MaybeIndexes
      BY IndexesExist DEF StartupInit, Init
    <3>3. config \in MaybeIndexes
      BY <3>1 DEF StartupInit, S!SyncInit, MaybeIndexes
    <3> QED
      BY <3>1, <3>2, <3>3 DEF S!SyncTypeOK, StartupInit, S!SyncInit
  <2> QED
    BY <2>1, <2>2, <2>3 DEF SyncInv
<1> QED
  BY <1>1, <1>4, <1>5 DEF StartupInv

\* Nothing of sync_indexes changes, but for an index migration 0010 creates.
LEMMA SyncStays ==
  ASSUME SyncInv, UNCHANGED <<config, sync, release>>, indexes' \in MaybeIndexes
  PROVE  SyncInv'
<1>1. Managed' = Managed
  BY DEF Managed
<1>3. ConfigInv'
  BY ConfigKept DEF SyncInv
<1>4. S!MaybeIndexes = MaybeIndexes
  BY DEF S!MaybeIndexes, MaybeIndexes, S!NoSpec, NoSpec
<1>5. S!SyncTypeOK'
  BY <1>4 DEF SyncInv, S!SyncTypeOK
<1>6. \A r \in Replicas : SyncOrder(sync'[r], Managed')
  BY <1>1 DEF SyncInv
<1> QED
  BY <1>3, <1>5, <1>6 DEF SyncInv

\* Migration 0010 creates its index, or leaves what there is: an index that is there
\* is never changed.
LEMMA MigrateIndexes ==
  ASSUME indexes \in MaybeIndexes, NEW r \in Replicas, Migrate(r)
  PROVE  /\ indexes' \in MaybeIndexes
         /\ \A n \in IndexNames : indexes[n] # NoSpec => indexes'[n] = indexes[n]
<1>1. CASE CreateProductIndex(r)
  <2>1. CASE UNCHANGED indexes
    BY <2>1
  <2>2. CASE CanCreate(ProductIndex, ProductSpec) /\ indexes' = WithIndex(ProductIndex, ProductSpec)
    <3>1. indexes' = [indexes EXCEPT ![ProductIndex] = ProductSpec]
      BY <2>2 DEF WithIndex
    <3>2. indexes' \in MaybeIndexes
      BY <3>1, IndexesExist, IndexTypes
    <3>3. indexes[ProductIndex] \in {NoSpec, ProductSpec}
      BY <2>2 DEF CanCreate
    <3> QED
      BY <3>1, <3>2, <3>3 DEF MaybeIndexes
  <2> QED
    BY <1>1, <2>1, <2>2 DEF CreateProductIndex
<1>2. CASE UNCHANGED indexes
  BY <1>2
<1>3. CASE ~CreateProductIndex(r)
  BY <1>2, <1>3 DEF Migrate, Import, Choose, Record, ReadSteps, EmptyTable, FillTable, RecordStep,
     Build, ReadTable, Replace, InsertDocs, Refill, ClearSchematics, RefillSchematics,
     AddFormulas, UpsertFormulas, SetActivity
<1> QED
  BY <1>1, <1>3

-----------------------------------------------------------------------------
(* Each step keeps it *)

\* A pod ends, with the call of sync_indexes it may have been in.
LEMMA GoneKeeps ==
  ASSUME StartupInv, NEW r \in Replicas, pod' = [pod EXCEPT ![r] = Down],
         sync' = [sync EXCEPT ![r] = S!Idle], crashes' \in 0..MaxCrashes,
         UNCHANGED <<raw, lookup, schematics, applied, indexes, config, release>>,
         image' \in [Replicas -> 1..release],
         \A q \in Replicas \ {r} : image'[q] = image[q]
  PROVE  StartupInv'
<1>1. OrderInv'
  BY DownKeepsOrder DEF StartupInv
<1>2. SyncInv'
  <2>1. SyncOrder(S!Idle, Managed)
    BY CallsApart DEF SyncOrder
  <2>2. ConfigInv'
    BY ConfigKept DEF StartupInv, SyncInv
  <2>3. indexes' \in MaybeIndexes /\ config' \in MaybeIndexes
    BY DEF StartupInv, SyncInv, S!SyncTypeOK, S!MaybeIndexes, MaybeIndexes, S!NoSpec, NoSpec
  <2> QED
    BY <2>1, <2>2, <2>3, SyncKept DEF StartupInv
<1>3. ImageInv'
  <2>1. \A q \in Replicas : /\ pod'[q] = IF q = r THEN Down ELSE pod[q]
                            /\ sync'[q] = IF q = r THEN S!Idle ELSE sync[q]
    BY DEF StartupInv, OrderInv, TypeOK, SyncInv, S!SyncTypeOK
  <2>2. ~StartingPod(Down) /\ Down # Serving
    BY PodsApart DEF StartingPod
  <2> QED
    BY <2>1, <2>2 DEF StartupInv, ImageInv
<1> QED
  BY <1>1, <1>2, <1>3 DEF StartupInv

LEMMA BootKeeps ==
  ASSUME StartupInv, NEW r \in Replicas, Boot(r)
  PROVE  StartupInv'
<1>1. PICK n \in 1..6 : n = Shipped[image[r]] /\ Start(r, n)
  BY Images DEF Boot, StartupInv
<1>2. OrderInv'
  BY <1>1, StartKeepsOrder DEF StartupInv
<1>3. PICK o \in Starting : pod' = [pod EXCEPT ![r] = o] /\ o.last = n
  BY <1>1, StartIs DEF StartupInv
<1>4. UNCHANGED <<applied, indexes, config, sync, release, image>>
  BY <1>1 DEF Start, Boot
<1>5. indexes' \in MaybeIndexes
  BY <1>4 DEF StartupInv, SyncInv, S!SyncTypeOK, S!MaybeIndexes, MaybeIndexes, S!NoSpec, NoSpec
<1>6. SyncInv'
  BY <1>4, <1>5, SyncStays DEF StartupInv
<1>7. sync[r] = S!Idle
  BY <1>1, PodsApart DEF StartupInv, ImageInv, Start, At
<1>8. ImageInv'
  <2>1. \A q \in Replicas : pod'[q] = IF q = r THEN o ELSE pod[q]
    BY <1>3 DEF StartupInv, OrderInv, TypeOK
  <2>2. o # Serving
    BY <1>3, PodsApart
  <2> QED
    BY <1>1, <1>3, <1>4, <1>7, <2>1, <2>2 DEF StartupInv, ImageInv
<1> QED
  BY <1>2, <1>6, <1>8 DEF StartupInv

LEMMA RunMigrationsKeeps ==
  ASSUME StartupInv, NEW r \in Replicas, RunMigrations(r)
  PROVE  StartupInv'
<1>1. Migrate(r) /\ UNCHANGED <<config, sync, release, image>>
  BY DEF RunMigrations
<1>2. OrderInv'
  BY <1>1, MigrateKeepsOrder DEF StartupInv
<1>3. indexes \in MaybeIndexes
  BY DEF StartupInv, SyncInv, S!SyncTypeOK, S!MaybeIndexes, MaybeIndexes, S!NoSpec, NoSpec
<1>4. SyncInv'
  BY <1>1, <1>3, MigrateIndexes, SyncStays DEF StartupInv
<1>5. PICK o : OrderStep(r, o)
  BY <1>1, MigrateOrder DEF StartupInv
<1>6. /\ pod' = [pod EXCEPT ![r] = o] /\ StartingPod(pod[r]) /\ applied \subseteq applied'
      /\ StartingPod(o) => o.last = pod[r].last
      /\ o = Serving => FirstOf(pod[r].last) \subseteq applied'
  BY <1>5, PodsApart DEF OrderStep, PodNext
<1>7. sync[r] = S!Idle /\ pod[r].last = Shipped[image[r]]
  BY <1>6 DEF StartupInv, ImageInv, StartingPod
<1>8. ImageInv'
  <2>1. \A q \in Replicas : pod'[q] = IF q = r THEN o ELSE pod[q]
    BY <1>6 DEF StartupInv, OrderInv, TypeOK
  <2> QED
    BY <1>1, <1>6, <1>7, <2>1 DEF StartupInv, ImageInv
<1> QED
  BY <1>2, <1>4, <1>8 DEF StartupInv

LEMMA EnterSyncKeeps ==
  ASSUME StartupInv, NEW r \in Replicas, EnterSync(r)
  PROVE  StartupInv' /\ UNCHANGED <<vars, release, image>>
<1>1. PICK p, o, v : /\ p = [phase |-> "check", of |-> v, todo |-> <<>>, stale |-> <<>>]
                     /\ v = image[r] /\ o = S!OnTo(p, Releases[v])
  OBVIOUS
<1>2. /\ pod[r] = Serving /\ sync' = [sync EXCEPT ![r] = o]
      /\ UNCHANGED <<config, vars, release, image>>
  BY <1>1 DEF EnterSync, S!BeginSync
<1>3. v \in 1..Len(Releases) /\ v <= release /\ release \in Nat
  BY <1>1, Images DEF StartupInv
<1>4. p \in S!Syncing /\ Len(p.stale) = 0
  <2>1. <<>> \in Seq(S!Entries) /\ <<>> \in Seq(IndexNames) /\ "check" \in S!SyncPhases
    BY EmptySeq DEF S!SyncPhases
  <2>2. p \in S!Syncing
    BY <1>1, <1>3, <2>1 DEF S!Syncing
  <2>3. p.stale = <<>>
    BY <1>1
  <2> QED
    BY <2>2, <2>3
<1>5. PICK todo : todo = Releases[v]
  OBVIOUS
<1>6. todo \in Seq(S!Entries) /\ \A i \in 1..Len(todo) : todo[i].name \in Managed
  BY <1>3, <1>5, ReleaseEntries
<1>7. o \in S!Syncing /\ SyncOrder(o, Managed)
  <2>1. \A i \in 1..Len(p.stale) : p.stale[i] \in Managed
    BY <1>4
  <2> QED
    BY <1>1, <1>4, <1>5, <1>6, <2>1, OnToIs
<1>8. SyncInv'
  <2>1. ConfigInv'
    BY <1>2, ConfigKept DEF StartupInv, SyncInv
  <2>2. indexes' = indexes
    BY <1>2 DEF vars
  <2>3. indexes' \in MaybeIndexes /\ config' \in MaybeIndexes
    BY <1>2, <2>2 DEF StartupInv, SyncInv, S!SyncTypeOK, S!MaybeIndexes, MaybeIndexes, S!NoSpec, NoSpec
  <2> QED
    BY <1>2, <1>7, <2>1, <2>3, SyncKept DEF StartupInv
<1>9. OrderInv'
  BY <1>2, NextKeepsOrder DEF StartupInv
<1>10. ImageInv'
  <2>1. \A q \in Replicas : q # r => sync'[q] = sync[q]
    BY <1>2 DEF StartupInv, SyncInv, S!SyncTypeOK
  <2>2. UNCHANGED <<pod, applied>>
    BY <1>2 DEF vars
  <2> QED
    BY <1>2, <2>1, <2>2 DEF StartupInv, ImageInv
<1> QED
  BY <1>2, <1>8, <1>9, <1>10 DEF StartupInv

LEMMA SyncIndexesKeeps ==
  ASSUME StartupInv, NEW r \in Replicas, SyncIndexes(r)
  PROVE  StartupInv'
<1>1. /\ S!SyncStep(r) /\ UNCHANGED <<raw, lookup, schematics, applied, crashes, release, image>>
      /\ pod' = IF sync'[r] = S!Idle THEN [pod EXCEPT ![r] = Down] ELSE pod
  BY DEF SyncIndexes
<1>2. PICK o : sync' = [sync EXCEPT ![r] = o]
  BY <1>1, SyncStepKeeps DEF StartupInv
<1>3. SyncInv' /\ sync[r] \in S!Syncing
  BY <1>1, SyncStepKeeps DEF StartupInv
<1>4. sync[r] # S!Idle
  BY <1>3, CallsApart
<1>5. \A q \in Replicas : sync'[q] = IF q = r THEN o ELSE sync[q]
  BY <1>2 DEF StartupInv, SyncInv, S!SyncTypeOK
<1>6. CASE sync'[r] = S!Idle
  <2>1. pod' = [pod EXCEPT ![r] = Down]
    BY <1>1, <1>6
  <2>2. OrderInv'
    BY <1>1, <2>1, DownKeepsOrder DEF StartupInv, OrderInv, TypeOK
  <2>3. \A q \in Replicas : pod'[q] = IF q = r THEN Down ELSE pod[q]
    BY <2>1 DEF StartupInv, OrderInv, TypeOK
  <2>4. ~StartingPod(Down) /\ Down # Serving
    BY PodsApart DEF StartingPod
  <2>5. ImageInv'
    BY <1>1, <1>5, <1>6, <2>3, <2>4 DEF StartupInv, ImageInv
  <2> QED
    BY <1>3, <2>2, <2>5 DEF StartupInv
<1>7. CASE sync'[r] # S!Idle
  <2>1. UNCHANGED pod
    BY <1>1, <1>7
  <2>2. OrderInv'
    BY <1>1, <2>1 DEF StartupInv, OrderInv, TypeOK, AppliedInOrder
  <2>3. ImageInv'
    BY <1>1, <1>4, <1>5, <2>1 DEF StartupInv, ImageInv
  <2> QED
    BY <1>3, <2>2, <2>3 DEF StartupInv
<1> QED
  BY <1>6, <1>7

LEMMA KillKeeps ==
  ASSUME StartupInv, NEW r \in Replicas, Kill(r)
  PROVE  StartupInv'
<1>1. crashes' \in 0..MaxCrashes
  BY BoundsAreNat DEF Kill, Crash, StartupInv, OrderInv, TypeOK
<1>2. image' \in [Replicas -> 1..release]
  BY DEF Kill, StartupInv, ImageInv
<1> QED
  BY <1>1, <1>2, GoneKeeps DEF Kill, Crash

LEMMA ReplacedKeeps ==
  ASSUME StartupInv, NEW r \in Replicas, Replaced(r)
  PROVE  StartupInv'
<1>1. crashes' \in 0..MaxCrashes
  BY DEF Replaced, StartupInv, OrderInv, TypeOK
<1>2. /\ image' \in [Replicas -> 1..release]
      /\ \A q \in Replicas \ {r} : image'[q] = image[q]
  <2>1. release \in 1..release /\ image \in [Replicas -> 1..release]
    BY ReleasesAreConfigs DEF StartupInv, ImageInv
  <2> QED
    BY <2>1 DEF Replaced
<1> QED
  BY <1>1, <1>2, GoneKeeps DEF Replaced

LEMMA RollOutKeeps ==
  ASSUME StartupInv, RollOut
  PROVE  StartupInv'
<1>1. UNCHANGED <<vars, config, sync, image>> /\ release' = release + 1 /\ release < Len(Releases)
  BY DEF RollOut
<1>2. OrderInv'
  BY <1>1, NextKeepsOrder DEF StartupInv
<1>3. release \in Nat /\ release' \in 1..Len(Releases) /\ 1..release \subseteq 1..release'
  BY <1>1, ReleasesAreConfigs DEF StartupInv, ImageInv
<1>4. ImageInv'
  <2>1. image' \in [Replicas -> 1..release']
    BY <1>1, <1>3 DEF StartupInv, ImageInv
  <2>2. UNCHANGED <<pod, applied>>
    BY <1>1 DEF vars
  <2> QED
    BY <1>1, <1>3, <2>1, <2>2 DEF StartupInv, ImageInv
<1>5. Managed \subseteq Managed'
  BY <1>3 DEF Managed
<1>6. SyncInv'
  <2>1. indexes' = indexes /\ config' = config /\ sync' = sync
    BY <1>1 DEF vars
  <2>2. \A q \in Replicas : SyncOrder(sync'[q], Managed')
    BY <1>5, <2>1 DEF StartupInv, SyncInv, SyncOrder
  <2>3. ConfigInv'
    BY <1>5, <2>1 DEF StartupInv, SyncInv, ConfigInv
  <2>4. S!SyncTypeOK'
    BY <2>1 DEF StartupInv, SyncInv, S!SyncTypeOK
  <2> QED
    BY <2>2, <2>3, <2>4 DEF SyncInv
<1> QED
  BY <1>2, <1>4, <1>6 DEF StartupInv

LEMMA StutterKeeps ==
  ASSUME StartupInv, UNCHANGED startupVars
  PROVE  StartupInv'
<1>1. UNCHANGED <<vars, config, sync, release, image>>
  BY DEF startupVars
<1>2. OrderInv'
  BY <1>1, NextKeepsOrder DEF StartupInv
<1>3. UNCHANGED <<pod, applied, indexes>>
  BY <1>1 DEF vars
<1>4. ImageInv'
  BY <1>1, <1>3 DEF StartupInv, ImageInv
<1>5. indexes' \in MaybeIndexes
  BY <1>3 DEF StartupInv, SyncInv, S!SyncTypeOK, S!MaybeIndexes, MaybeIndexes, S!NoSpec, NoSpec
<1>6. SyncInv'
  BY <1>1, <1>5, SyncStays DEF StartupInv
<1> QED
  BY <1>2, <1>4, <1>6 DEF StartupInv

LEMMA StartupNextKeeps == StartupInv /\ [StartupNext]_startupVars => StartupInv'
<1> SUFFICES ASSUME StartupInv, [StartupNext]_startupVars PROVE StartupInv'
  OBVIOUS
<1>1. ASSUME NEW r \in Replicas, Lifespan(r) PROVE StartupInv'
  BY <1>1, BootKeeps, RunMigrationsKeeps, EnterSyncKeeps, SyncIndexesKeeps DEF Lifespan
<1> QED
  BY <1>1, RollOutKeeps, KillKeeps, ReplacedKeeps, StutterKeeps DEF StartupNext

LEMMA StartupHolds == StartupSpec => []StartupInv
BY InitStartup, StartupNextKeeps, PTL DEF StartupSpec

\* Type correctness of both components under any number of releases: the lists a
\* call of sync_indexes works on are never read past their end, what is recorded
\* and built is an index that can be declared, and only a pod whose migrations are
\* complete is in sync_indexes.
THEOREM StartupTypeCorrect == StartupSpec => []StartupTypeOK
<1>1. StartupInv => StartupTypeOK
  BY DEF StartupInv, OrderInv, SyncInv, ImageInv, StartupTypeOK
<1> QED
  BY <1>1, StartupHolds, PTL

\* The order of what is recorded holds with pods of several releases, whose images
\* have more or fewer migrations, starting, killed and replaced at any point.
THEOREM StartupInOrder == StartupSpec => []AppliedInOrder
<1>1. StartupInv => AppliedInOrder
  BY DEF StartupInv, OrderInv
<1> QED
  BY <1>1, StartupHolds, PTL

-----------------------------------------------------------------------------
(* What no release has declared is left alone *)

\* "Leaves unmanaged index alone" (test_index_sync.py): neither a sync of any release,
\* at any point of another's or of a migration, nor the index migration 0010 creates,
\* drops or changes an index that no release up to the one rolled out has declared.
THEOREM UnmanagedStays == StartupSpec => UnmanagedKept
<1>1. ASSUME StartupInv, [StartupNext]_startupVars, NEW n \in IndexNames \ Managed,
             indexes[n] # NoSpec
      PROVE  indexes'[n] = indexes[n]
  <2>1. indexes \in MaybeIndexes
    BY <1>1 DEF StartupInv, SyncInv, S!SyncTypeOK, S!MaybeIndexes, MaybeIndexes, S!NoSpec, NoSpec
  <2>2. ASSUME NEW r \in Replicas, RunMigrations(r) PROVE indexes'[n] = indexes[n]
    BY <1>1, <2>1, <2>2, MigrateIndexes DEF RunMigrations
  <2>3. ASSUME NEW r \in Replicas, SyncIndexes(r) PROVE indexes'[n] = indexes[n]
    BY <1>1, <2>3, SyncStepKeeps DEF SyncIndexes, StartupInv
  <2>4. ASSUME NEW r \in Replicas, EnterSync(r) PROVE indexes'[n] = indexes[n]
    BY <1>1, <2>4, EnterSyncKeeps DEF vars
  <2>5. CASE UNCHANGED indexes
    BY <2>5
  <2>6. ASSUME NEW r \in Replicas, Boot(r) \/ Kill(r) \/ Replaced(r) PROVE UNCHANGED indexes
    BY <2>6 DEF Boot, Start, Kill, Crash, Replaced
  <2>7. RollOut => UNCHANGED indexes
    BY DEF RollOut, vars
  <2>8. UNCHANGED startupVars => UNCHANGED indexes
    BY DEF startupVars, vars
  <2> QED
    BY <1>1, <2>2, <2>3, <2>4, <2>5, <2>6, <2>7, <2>8 DEF StartupNext, Lifespan
<1>2. StartupInv /\ [StartupNext]_startupVars =>
        [\A n \in IndexNames \ Managed : indexes[n] # NoSpec => indexes'[n] = indexes[n]]_startupVars
  BY <1>1
<1> QED
  BY <1>2, StartupHolds, PTL DEF StartupSpec, UnmanagedKept

-----------------------------------------------------------------------------
(* What a pod of a release answers from *)

\* What is recorded is there, as far as the newest release goes.
ReleaseData == \A n \in Nat : Shipped[release] <= n => DataInv(n)

StartupData == StartupInv /\ AloneInv /\ ReleaseData

LEMMA InitData == StartupInit => StartupData
<1> SUFFICES ASSUME StartupInit PROVE StartupData
  OBVIOUS
<1>1. StartupInv
  BY InitStartup
<1>2. \A r \in Replicas : pod[r] = Down
  BY DEF StartupInit, Init
<1>3. AloneInv
  BY <1>2 DEF AloneInv, MigratingPod, StartingPod
<1>4. \A a \in Activity, k \in Keys : ~lookup[a][k].built /\ lookup[a][k].activity = "none"
  BY DEF StartupInit, Init, NoDoc
<1>5. "manufacturing" \in Activity /\ "reaction" \in Activity
  BY DEF Activity
<1>6. ASSUME NEW n \in Nat PROVE DataInv(n)
  <2>1. Recorded(n)
    BY <1>4, <1>5 DEF StartupInit, Init, Recorded
  <2> QED
    BY <1>2, <2>1 DEF DataInv, StartingPod
<1> QED
  BY <1>1, <1>3, <1>6 DEF StartupData, ReleaseData

\* A step that leaves the pods and the collections of the migrations alone.
LEMMA DataStays ==
  ASSUME StartupData, UNCHANGED <<raw, lookup, schematics, applied, pod>>,
         Shipped[release] <= Shipped[release'], Shipped[release] \in Nat, Shipped[release'] \in Nat
  PROVE  AloneInv' /\ ReleaseData'
<1>1. AloneInv'
  BY DEF StartupData, AloneInv
<1>2. ASSUME NEW n \in Nat, Shipped[release'] <= n PROVE DataInv(n)'
  <2>1. DataInv(n)
    BY <1>2 DEF StartupData, ReleaseData
  <2>2. Recorded(n)'
    BY <2>1, RecordedKept DEF DataInv
  <2> QED
    BY <2>1, <2>2 DEF DataInv, PodData, Built, Formula, Marked
<1> QED
  BY <1>1, <1>2 DEF ReleaseData

LEMMA GoneKeepsData ==
  ASSUME StartupData, NEW r \in Replicas, pod' = [pod EXCEPT ![r] = Down],
         UNCHANGED <<raw, lookup, schematics, applied, release>>
  PROVE  AloneInv' /\ ReleaseData'
<1>1. AloneInv'
  BY DownKeepsAlone DEF StartupData, StartupInv
<1>2. ASSUME NEW n \in Nat, Shipped[release'] <= n PROVE DataInv(n)'
  BY <1>2, DownKeepsData DEF StartupData, StartupInv, ReleaseData
<1> QED
  BY <1>1, <1>2 DEF ReleaseData

LEMMA StartupNextKeepsData ==
  MaxStarting = 1 /\ StartupData /\ [StartupNext]_startupVars => StartupData'
<1> SUFFICES ASSUME MaxStarting = 1, StartupData, [StartupNext]_startupVars
             PROVE  AloneInv' /\ ReleaseData'
  BY StartupNextKeeps DEF StartupData
<1>1. release \in 1..Len(Releases) /\ Shipped[release] \in Nat
      /\ (release + 1 \in 1..Len(Releases) =>
            Shipped[release + 1] \in Nat /\ Shipped[release] <= Shipped[release + 1])
  <2>1. Len(Releases) \in Nat /\ DOMAIN Releases = 1..Len(Releases)
    BY ReleasesAreConfigs
  <2>2. release \in 1..Len(Releases)
    BY DEF StartupData, StartupInv, ImageInv
  <2>3. Shipped \in [1..Len(Releases) -> 1..6]
    BY <2>1, ReleasesAddMigrations, OrderIs
  <2>4. release + 1 \in 1..Len(Releases) => Shipped[release] <= Shipped[release + 1]
    BY <2>1, <2>2, ReleasesAddMigrations
  <2> QED
    BY <2>2, <2>3, <2>4
<1>2. ASSUME NEW r \in Replicas, Boot(r) PROVE AloneInv' /\ ReleaseData'
  <2>1. PICK m \in 1..6 : m = Shipped[image[r]] /\ Start(r, m)
    BY <1>2, Images DEF Boot, StartupData, StartupInv
  <2>2. AloneInv'
    BY <2>1, StartKeepsAlone DEF StartupData, StartupInv
  <2>3. ASSUME NEW n \in Nat, Shipped[release'] <= n PROVE DataInv(n)'
    <3>1. DataInv(n)
      BY <1>2, <2>3 DEF Boot, StartupData, ReleaseData
    <3> QED
      BY <2>1, <3>1, StartKeepsData DEF StartupData, StartupInv
  <2> QED
    BY <2>2, <2>3 DEF ReleaseData
<1>3. ASSUME NEW r \in Replicas, RunMigrations(r) PROVE AloneInv' /\ ReleaseData'
  <2>1. Migrate(r) /\ UNCHANGED release
    BY <1>3 DEF RunMigrations
  <2>2. AloneInv'
    BY <2>1, MigrateKeepsAlone DEF StartupData, StartupInv
  <2>3. ASSUME NEW n \in Nat, Shipped[release'] <= n PROVE DataInv(n)'
    <3>1. DataInv(n)
      BY <2>1, <2>3 DEF StartupData, ReleaseData
    <3>2. PICK o : OrderStep(r, o)
      BY <2>1, MigrateOrder DEF StartupData, StartupInv
    <3>3. pod[r].last = Shipped[image[r]]
      BY <3>2, PodsApart DEF OrderStep, StartupData, StartupInv, ImageInv
    <3>4. Shipped[image[r]] <= Shipped[release] /\ Shipped[image[r]] \in Nat
      BY Images DEF StartupData, StartupInv
    <3>5. pod[r].last <= n
      BY <1>1, <2>1, <2>3, <3>3, <3>4
    <3> QED
      BY <2>1, <3>1, <3>5, MigrateKeepsData DEF StartupData, StartupInv
  <2> QED
    BY <2>2, <2>3 DEF ReleaseData
<1>4. ASSUME NEW r \in Replicas, EnterSync(r) PROVE AloneInv' /\ ReleaseData'
  <2>1. UNCHANGED <<vars, release>>
    BY <1>4 DEF EnterSync
  <2>2. UNCHANGED <<raw, lookup, schematics, applied, pod>>
    BY <2>1 DEF vars
  <2> QED
    BY <1>1, <2>1, <2>2, DataStays
<1>5. ASSUME NEW r \in Replicas, SyncIndexes(r) PROVE AloneInv' /\ ReleaseData'
  <2>1. UNCHANGED <<raw, lookup, schematics, applied, release>>
    BY <1>5 DEF SyncIndexes
  <2>2. CASE pod' = [pod EXCEPT ![r] = Down]
    BY <2>1, <2>2, GoneKeepsData
  <2>3. CASE UNCHANGED pod
    BY <1>1, <2>1, <2>3, DataStays
  <2> QED
    BY <1>5, <2>2, <2>3 DEF SyncIndexes
<1>6. ASSUME NEW r \in Replicas, Kill(r) \/ Replaced(r) PROVE AloneInv' /\ ReleaseData'
  BY <1>6, GoneKeepsData DEF Kill, Crash, Replaced
<1>7. CASE RollOut
  <2>1. /\ UNCHANGED vars /\ release' = release + 1 /\ release + 1 \in 1..Len(Releases)
    BY <1>1, <1>7, ReleasesAreConfigs DEF RollOut
  <2>2. UNCHANGED <<raw, lookup, schematics, applied, pod>>
    BY <2>1 DEF vars
  <2> QED
    BY <1>1, <2>1, <2>2, DataStays
<1>8. CASE UNCHANGED startupVars
  <2>1. UNCHANGED <<vars, release>>
    BY <1>8 DEF startupVars
  <2>2. UNCHANGED <<raw, lookup, schematics, applied, pod>>
    BY <2>1 DEF vars
  <2> QED
    BY <1>1, <2>1, <2>2, DataStays
<1> QED
  BY <1>2, <1>3, <1>4, <1>5, <1>6, <1>7, <1>8 DEF StartupNext, Lifespan

\* While one pod migrates at a time, every pod answers from what its own release
\* expects, with any number of releases rolled out over each other and pods of a newer
\* one migrating beside it: blueprints, and from 0008 on formulas, are complete; the
\* planetary schematics are there unless 0007 of a newer release is filling them.
THEOREM EachServesItsRelease ==
  ASSUME MaxStarting = 1 PROVE StartupSpec => []ServesItsRelease
<1>1. StartupData => ServesItsRelease
  <2> SUFFICES ASSUME StartupData, NEW r \in Replicas, pod[r] = Serving, NEW n, n = Shipped[image[r]]
               PROVE  /\ n >= 2 => BlueprintsComplete(n)
                      /\ n >= 3 => \/ schematics = Keys
                                   \/ n < 4 /\ Shipped[release] >= 4 /\ "again" \notin applied
    BY DEF ServesItsRelease
  <2>1. FirstOf(n) \subseteq applied
    BY DEF StartupData, StartupInv, ImageInv
  <2>2. n \in 1..6 /\ Shipped[release] \in Nat
    BY Images DEF StartupData, StartupInv
  <2>3. PICK m \in Nat : m = Shipped[release] /\ Recorded(m)
    BY <2>2 DEF StartupData, ReleaseData, DataInv
  <2>4. n >= 3 => "schematics" \in applied
    <3>1. n >= 3 => Order[3] \in FirstOf(n)
      BY <2>2 DEF FirstOf
    <3> QED
      BY <2>1, <3>1, OrderIs
  <2>5. n >= 4 => "again" \in applied
    <3>1. n >= 4 => Order[4] \in FirstOf(n)
      BY <2>2 DEF FirstOf
    <3> QED
      BY <2>1, <3>1, OrderIs
  <2>6. n >= 2 => BlueprintsComplete(n)
    BY <2>1, <2>2, <2>3, RecordedIsComplete
  <2>7. n >= 3 => \/ schematics = Keys
                  \/ n < 4 /\ Shipped[release] >= 4 /\ "again" \notin applied
    BY <2>2, <2>3, <2>4, <2>5 DEF Recorded
  <2> QED
    BY <2>6, <2>7
<1>2. MaxStarting = 1
  OBVIOUS
<1>3. StartupData /\ [StartupNext]_startupVars => StartupData'
  BY <1>2, StartupNextKeepsData
<1> QED
  BY <1>1, <1>3, InitData, PTL DEF StartupSpec

-----------------------------------------------------------------------------
(* What a step of a call does *)

\* The call p goes on as o, with the same release.
Goes(p, o, phase, todo, stale) ==
  o \in S!Syncing /\ o.of = p.of /\ o.phase = phase /\ o.todo = todo /\ o.stale = stale

GoesOn(p, o) ==
  \E phase \in {"check", "find"} :
    Goes(p, o, phase, Tail(p.todo), p.stale) /\ (phase = "find" => Tail(p.todo) = <<>>)

ToStale(p, o, stale) ==
  IF stale = <<>> THEN o = S!Synced ELSE Goes(p, o, "drop_stale", p.todo, stale)

Skips(p, o) ==
  /\ p.phase = "check" /\ config[Head(p.todo).name] = Head(p.todo).spec
  /\ GoesOn(p, o)
  /\ UNCHANGED <<indexes, config>>

Misses(p, o) ==
  /\ p.phase = "check" /\ config[Head(p.todo).name] # Head(p.todo).spec
  /\ Goes(p, o, "drop", p.todo, p.stale)
  /\ UNCHANGED <<indexes, config>>

Drops(p, o) ==
  /\ p.phase = "drop" /\ Goes(p, o, "create", p.todo, p.stale)
  /\ indexes' = [indexes EXCEPT ![Head(p.todo).name] = NoSpec]
  /\ UNCHANGED config

Creates(p, o) ==
  /\ p.phase = "create" /\ Goes(p, o, "record", p.todo, p.stale)
  /\ indexes' = [indexes EXCEPT ![Head(p.todo).name] = Head(p.todo).spec]
  /\ UNCHANGED config

Fails(p, o) == p.phase = "create" /\ o = S!Idle /\ UNCHANGED <<indexes, config>>

Records(p, o) ==
  /\ p.phase = "record" /\ GoesOn(p, o)
  /\ config' = [config EXCEPT ![Head(p.todo).name] = Head(p.todo).spec]
  /\ UNCHANGED indexes

\* The records in the list are those of names the release does not declare.
Finds(p, o) ==
  /\ p.phase = "find"
  /\ \E stale \in Seq(IndexNames) :
       /\ \A i \in 1..Len(stale) : stale[i] \notin S!DesiredNames(p.of)
       /\ \A n \in IndexNames \ S!DesiredNames(p.of) :
            config[n] # NoSpec => \E i \in 1..Len(stale) : stale[i] = n
       /\ ToStale(p, o, stale)
  /\ UNCHANGED <<indexes, config>>

DropsStale(p, o) ==
  /\ p.phase = "drop_stale" /\ Goes(p, o, "delete_stale", p.todo, p.stale)
  /\ indexes' = [indexes EXCEPT ![Head(p.stale)] = NoSpec]
  /\ UNCHANGED config

Deletes(p, o) ==
  /\ p.phase = "delete_stale" /\ ToStale(p, o, Tail(p.stale))
  /\ config' = [config EXCEPT ![Head(p.stale)] = NoSpec]
  /\ UNCHANGED indexes

CallStep(p, o) ==
  \/ Skips(p, o) \/ Misses(p, o) \/ Drops(p, o) \/ Creates(p, o) \/ Fails(p, o)
  \/ Records(p, o) \/ Finds(p, o) \/ DropsStale(p, o) \/ Deletes(p, o)

LEMMA OnToGoes ==
  ASSUME NEW p \in S!Syncing, Tail(p.todo) \in Seq(S!Entries)
  PROVE  GoesOn(p, S!OnTo(p, Tail(p.todo)))
<1>1. PICK t, h : t = Tail(p.todo) /\ h = IF t = <<>> THEN "find" ELSE "check"
  OBVIOUS
<1> DEFINE o == [p EXCEPT !.todo = t, !.phase = h]
<1>2. S!OnTo(p, t) = o
  BY <1>1 DEF S!OnTo
<1>3. h \in S!SyncPhases /\ h \in {"find", "check"} /\ (h = "find" => t = <<>>)
  BY <1>1 DEF S!SyncPhases
<1>4. o \in S!Syncing /\ o.phase = h /\ o.todo = t /\ o.stale = p.stale /\ o.of = p.of
  BY <1>1, <1>3 DEF S!Syncing
<1> HIDE DEF o
<1>5. Goes(p, o, h, t, p.stale)
  BY <1>4 DEF Goes
<1> QED
  BY <1>1, <1>2, <1>3, <1>5 DEF GoesOn

LEMMA OnToStaleGoes ==
  ASSUME NEW p \in S!Syncing, NEW stale \in Seq(IndexNames)
  PROVE  ToStale(p, S!OnToStale(p, stale), stale)
<1>1. CASE stale = <<>>
  BY <1>1 DEF S!OnToStale, ToStale
<1>2. CASE stale # <<>>
  <2> DEFINE o == [p EXCEPT !.stale = stale, !.phase = "drop_stale"]
  <2>1. S!OnToStale(p, stale) = o
    BY <1>2 DEF S!OnToStale
  <2>2. "drop_stale" \in S!SyncPhases
    BY DEF S!SyncPhases
  <2>3. /\ o \in S!Syncing /\ o.phase = "drop_stale" /\ o.stale = stale
        /\ o.todo = p.todo /\ o.of = p.of
    BY <2>2 DEF S!Syncing
  <2> HIDE DEF o
  <2> QED
    BY <1>2, <2>1, <2>3 DEF ToStale, Goes
<1> QED
  BY <1>1, <1>2

\* A call that changes its phase only.
LEMMA PhaseGoes ==
  ASSUME NEW p \in S!Syncing, NEW h \in S!SyncPhases, NEW o, o = [p EXCEPT !.phase = h]
  PROVE  Goes(p, o, h, p.todo, p.stale)
<1>1. /\ o \in S!Syncing /\ o.phase = h /\ o.stale = p.stale
      /\ o.todo = p.todo /\ o.of = p.of
  BY DEF S!Syncing
<1> QED
  BY <1>1 DEF Goes

LEMMA CallSteps ==
  ASSUME SyncInv, NEW r \in Replicas, S!SyncStep(r), UNCHANGED release, NEW p, p = sync[r]
  PROVE  /\ p \in S!Syncing
         /\ \E o \in S!Syncing \cup {S!Idle, S!Synced} :
              sync' = [sync EXCEPT ![r] = o] /\ CallStep(p, o)
<1>1. p \in S!Syncing
  BY SyncStepKeeps
<1>2. p.phase \in S!SyncPhases /\ S!NoSpec = NoSpec
  BY <1>1, CallsApart DEF S!NoSpec, NoSpec
<1>3. /\ {"drop", "create", "record", "delete_stale"} \subseteq S!SyncPhases
      /\ sync \in [Replicas -> S!Syncing \cup {S!Idle, S!Synced}]
  BY DEF S!SyncPhases, SyncInv, S!SyncTypeOK
<1>4. /\ p.phase \in {"check", "drop", "create", "record"} => p.todo # <<>>
      /\ p.phase \in {"drop_stale", "delete_stale"} => p.stale # <<>>
  BY <1>1, <1>2, InCall DEF SyncOrder
<1>5. /\ p.todo # <<>> => Tail(p.todo) \in Seq(S!Entries)
      /\ p.stale # <<>> => Tail(p.stale) \in Seq(IndexNames)
  BY <1>2, InCall
<1>6. CASE S!Check(r)
  <2>1. /\ p.phase = "check" /\ UNCHANGED <<indexes, config>>
        /\ sync' = [sync EXCEPT ![r] =
             IF config[Head(p.todo).name] = Head(p.todo).spec THEN S!OnTo(p, Tail(p.todo))
             ELSE [p EXCEPT !.phase = "drop"]]
    BY <1>6 DEF S!Check, S!SyncIs, S!Entry
  <2>2. CASE config[Head(p.todo).name] = Head(p.todo).spec
    <3>1. PICK o : o = S!OnTo(p, Tail(p.todo))
      OBVIOUS
    <3>2. GoesOn(p, o)
      BY <1>1, <1>4, <1>5, <2>1, <3>1, OnToGoes
    <3>3. Skips(p, o) /\ o \in S!Syncing
      BY <2>1, <2>2, <3>2 DEF Skips, GoesOn, Goes
    <3> QED
      BY <1>1, <2>1, <2>2, <3>1, <3>3 DEF CallStep
  <2>3. CASE config[Head(p.todo).name] # Head(p.todo).spec
    <3>1. PICK o : o = [p EXCEPT !.phase = "drop"]
      OBVIOUS
    <3>2. Goes(p, o, "drop", p.todo, p.stale)
      BY <1>1, <1>3, <3>1, PhaseGoes
    <3>3. Misses(p, o) /\ o \in S!Syncing
      BY <2>1, <2>3, <3>2 DEF Misses, Goes
    <3> QED
      BY <1>1, <2>1, <2>3, <3>1, <3>3 DEF CallStep
  <2> QED
    BY <2>2, <2>3
<1>7. CASE S!DropOld(r)
  <2>1. PICK o : o = [p EXCEPT !.phase = "create"]
    OBVIOUS
  <2>2. /\ p.phase = "drop" /\ UNCHANGED config
        /\ indexes' = [indexes EXCEPT ![Head(p.todo).name] = NoSpec]
        /\ sync' = [sync EXCEPT ![r] = o]
    BY <1>2, <1>3, <1>7, <2>1 DEF S!DropOld, S!SyncIs, S!Entry, S!WithoutIndex
  <2>3. Goes(p, o, "create", p.todo, p.stale)
    BY <1>1, <1>3, <2>1, PhaseGoes
  <2>4. Drops(p, o) /\ o \in S!Syncing
    BY <2>2, <2>3 DEF Drops, Goes
  <2> QED
    BY <1>1, <2>2, <2>4 DEF CallStep
<1>8. CASE S!Create(r)
  <2>1. p.phase = "create" /\ UNCHANGED config
    BY <1>8 DEF S!Create, S!SyncIs
  <2>2. \/ /\ indexes' = [indexes EXCEPT ![Head(p.todo).name] = Head(p.todo).spec]
           /\ sync' = [sync EXCEPT ![r].phase = "record"]
        \/ sync' = [sync EXCEPT ![r] = S!Idle] /\ UNCHANGED indexes
    BY <1>8 DEF S!Create, S!Entry, S!WithIndex
  <2>3. CASE /\ indexes' = [indexes EXCEPT ![Head(p.todo).name] = Head(p.todo).spec]
             /\ sync' = [sync EXCEPT ![r].phase = "record"]
    <3>1. PICK o : o = [p EXCEPT !.phase = "record"]
      OBVIOUS
    <3>2. Goes(p, o, "record", p.todo, p.stale)
      BY <1>1, <1>3, <3>1, PhaseGoes
    <3>3. Creates(p, o) /\ o \in S!Syncing
      BY <2>1, <2>3, <3>2 DEF Creates, Goes
    <3>4. sync' = [sync EXCEPT ![r] = o]
      BY <1>3, <2>3, <3>1
    <3> QED
      BY <1>1, <3>3, <3>4 DEF CallStep
  <2>4. CASE sync' = [sync EXCEPT ![r] = S!Idle] /\ UNCHANGED indexes
    <3>1. Fails(p, S!Idle)
      BY <2>1, <2>4 DEF Fails
    <3> QED
      BY <1>1, <2>4, <3>1 DEF CallStep
  <2> QED
    BY <2>2, <2>3, <2>4
<1>9. CASE S!RecordSpec(r)
  <2>1. PICK o : o = S!OnTo(p, Tail(p.todo))
    OBVIOUS
  <2>2. /\ p.phase = "record" /\ UNCHANGED indexes
        /\ config' = [config EXCEPT ![Head(p.todo).name] = Head(p.todo).spec]
        /\ sync' = [sync EXCEPT ![r] = o]
    BY <1>9, <2>1 DEF S!RecordSpec, S!SyncIs, S!Entry
  <2>3. GoesOn(p, o)
    BY <1>1, <1>4, <1>5, <2>1, <2>2, OnToGoes
  <2>4. Records(p, o) /\ o \in S!Syncing
    BY <2>2, <2>3 DEF Records, GoesOn, Goes
  <2> QED
    BY <1>1, <2>2, <2>4 DEF CallStep
<1>10. CASE S!FindStale(r)
  <2>1. PICK T : T = {n \in IndexNames : config[n] # NoSpec} \ S!DesiredNames(p.of)
    OBVIOUS
  <2>2. PICK stale \in S!Cursors(T) : sync' = [sync EXCEPT ![r] = S!OnToStale(p, stale)]
    BY <1>2, <1>10, <2>1 DEF S!FindStale
  <2>3. p.phase = "find" /\ UNCHANGED <<indexes, config>>
    BY <1>10 DEF S!FindStale, S!SyncIs
  <2>4. /\ stale \in Seq(T)
        /\ \A n \in T : \E i \in 1..Len(stale) : stale[i] = n
    <3>1. PICK c : c = Cardinality(T)
      OBVIOUS
    <3>2. c \in Nat
      <4>1. IsFiniteSet(T)
        BY <2>1, FS_Subset DEF SyncInv, ConfigInv
      <4> QED
        BY <3>1, <4>1, FS_CardinalityType
    <3>3. stale \in [1..c -> T] /\ \A n \in T : \E i \in 1..c : stale[i] = n
      <4>1. S!Cardinality(T) = Cardinality(T)
        BY DEF S!Cardinality, Cardinality
      <4> QED
        BY <2>2, <3>1, <4>1 DEF S!Cursors
    <3>4. stale \in Seq(T) /\ Len(stale) = c
      BY <3>2, <3>3, SeqDef
    <3> QED
      BY <3>3, <3>4
  <2>5. stale \in Seq(IndexNames) /\ \A i \in 1..Len(stale) : stale[i] \in T
    <3>1. T \subseteq IndexNames
      BY <2>1
    <3> QED
      BY <2>4, <3>1
  <2>6. PICK o : o = S!OnToStale(p, stale)
    OBVIOUS
  <2>7. ToStale(p, o, stale)
    BY <1>1, <2>5, <2>6, OnToStaleGoes
  <2>8. Finds(p, o)
    BY <2>1, <2>3, <2>4, <2>5, <2>7 DEF Finds
  <2>9. o \in S!Syncing \cup {S!Idle, S!Synced}
    BY <2>7 DEF ToStale, Goes
  <2> QED
    BY <1>1, <2>2, <2>6, <2>8, <2>9 DEF CallStep
<1>11. CASE S!DropStale(r)
  <2>1. PICK o : o = [p EXCEPT !.phase = "delete_stale"]
    OBVIOUS
  <2>2. /\ p.phase = "drop_stale" /\ UNCHANGED config
        /\ indexes' = [indexes EXCEPT ![Head(p.stale)] = NoSpec]
        /\ sync' = [sync EXCEPT ![r] = o]
    BY <1>2, <1>3, <1>11, <2>1 DEF S!DropStale, S!SyncIs, S!WithoutIndex
  <2>3. Goes(p, o, "delete_stale", p.todo, p.stale)
    BY <1>1, <1>3, <2>1, PhaseGoes
  <2>4. DropsStale(p, o) /\ o \in S!Syncing
    BY <2>2, <2>3 DEF DropsStale, Goes
  <2> QED
    BY <1>1, <2>2, <2>4 DEF CallStep
<1>12. CASE S!DeleteStale(r)
  <2>1. PICK o : o = S!OnToStale(p, Tail(p.stale))
    OBVIOUS
  <2>2. /\ p.phase = "delete_stale" /\ UNCHANGED indexes
        /\ config' = [config EXCEPT ![Head(p.stale)] = NoSpec]
        /\ sync' = [sync EXCEPT ![r] = o]
    BY <1>2, <1>12, <2>1 DEF S!DeleteStale, S!SyncIs
  <2>3. ToStale(p, o, Tail(p.stale))
    BY <1>1, <1>4, <1>5, <2>1, <2>2, OnToStaleGoes
  <2>4. Deletes(p, o)
    BY <2>2, <2>3 DEF Deletes
  <2>5. o \in S!Syncing \cup {S!Idle, S!Synced}
    BY <2>3 DEF ToStale, Goes
  <2> QED
    BY <1>1, <2>2, <2>4, <2>5 DEF CallStep
<1> QED
  BY <1>6, <1>7, <1>8, <1>9, <1>10, <1>11, <1>12 DEF S!SyncStep

-----------------------------------------------------------------------------
(* Calls that meet *)

\* The call p is of release v: what it has left to do is what v declares, what it
\* has left to delete is what v does not.
CallOf(p, v) ==
  p \in S!Syncing =>
    /\ p.of = v
    /\ \A i \in 1..Len(p.todo) : Declares(v, p.todo[i].name, p.todo[i].spec)
    /\ \A i \in 1..Len(p.stale) : p.stale[i] \notin S!DesiredNames(v)
    /\ p.phase \in {"find", "drop_stale", "delete_stale"} => p.todo = <<>>

CallsInv ==
  /\ newest \in 1..release
  /\ \A r \in Replicas : CallOf(sync[r], image[r]) /\ (sync[r] # S!Idle => image[r] <= newest)

\* A call drops an index whose spec is not on record, unless another is beside it.
Differs(p) ==
  p.phase \in {"drop", "create"} => config[Head(p.todo).name] # Head(p.todo).spec

BesideInv ==
  /\ \A q, r \in InSync : q # r => r \in beside
  /\ \A r \in InSync \ beside : Differs(sync[r])

\* The head and the tail of the list a call has in hand.
LEMMA Parts ==
  ASSUME NEW T, NEW s \in Seq(T), s # <<>>
  PROVE  /\ Head(s) = s[1] /\ 1 \in 1..Len(s) /\ Head(s) \in T /\ Tail(s) \in Seq(T)
         /\ \A i \in 1..Len(Tail(s)) : Tail(s)[i] = s[i + 1] /\ i + 1 \in 1..Len(s)
         /\ \A i \in 1..Len(s) : i = 1 \/ (i - 1 \in 1..Len(Tail(s)) /\ Tail(s)[i - 1] = s[i])
OBVIOUS

LEMMA Calls ==
  ASSUME SyncInv, NEW r \in Replicas, NEW p, p = sync[r]
  PROVE  /\ r \in InSync <=> p \in S!Syncing
         /\ p \in S!Syncing \cup {S!Idle, S!Synced}
         /\ p.phase \in S!SyncPhases <=> p \in S!Syncing
         /\ p \in S!Syncing =>
              /\ p.todo \in Seq(S!Entries) /\ p.stale \in Seq(IndexNames)
              /\ p.phase \in {"check", "drop", "create", "record"} => p.todo # <<>>
              /\ p.phase \in {"drop_stale", "delete_stale"} => p.stale # <<>>
<1>1. sync \in [Replicas -> S!Syncing \cup {S!Idle, S!Synced}] /\ SyncOrder(p, Managed)
  BY DEF SyncInv, S!SyncTypeOK
<1>2. p \in S!Syncing => p.todo \in Seq(S!Entries) /\ p.stale \in Seq(IndexNames)
  BY DEF S!Syncing
<1> QED
  BY <1>1, <1>2, CallsApart DEF InSync, SyncOrder

LEMMA CallOfKept ==
  ASSUME SyncInv, NEW r \in Replicas, NEW p \in S!Syncing, p = sync[r], NEW o,
         CallStep(p, o), NEW v, CallOf(p, v)
  PROVE  CallOf(o, v)
<1>1. /\ p.of = v
      /\ \A i \in 1..Len(p.todo) : Declares(v, p.todo[i].name, p.todo[i].spec)
      /\ \A i \in 1..Len(p.stale) : p.stale[i] \notin S!DesiredNames(v)
      /\ p.phase \in {"find", "drop_stale", "delete_stale"} => p.todo = <<>>
  BY DEF CallOf
<1>2. /\ p.todo \in Seq(S!Entries) /\ p.stale \in Seq(IndexNames)
      /\ p.phase \in {"check", "drop", "create", "record"} => p.todo # <<>>
      /\ p.phase \in {"drop_stale", "delete_stale"} => p.stale # <<>>
  BY Calls
<1>3. p.todo # <<>> =>
        \A i \in 1..Len(Tail(p.todo)) : Declares(v, Tail(p.todo)[i].name, Tail(p.todo)[i].spec)
  BY <1>1, <1>2, Parts
<1>4. p.stale # <<>> => \A i \in 1..Len(Tail(p.stale)) : Tail(p.stale)[i] \notin S!DesiredNames(v)
  BY <1>1, <1>2, Parts
<1>5. CASE Skips(p, o) \/ Records(p, o)
  <2>1. p.todo # <<>> /\ p.phase \in {"check", "record"}
    BY <1>2, <1>5 DEF Skips, Records
  <2>2. PICK phase \in {"check", "find"} :
          Goes(p, o, phase, Tail(p.todo), p.stale) /\ (phase = "find" => Tail(p.todo) = <<>>)
    BY <1>5 DEF Skips, Records, GoesOn
  <2>3. /\ o.of = p.of /\ o.todo = Tail(p.todo) /\ o.stale = p.stale
        /\ o.phase = phase
    BY <2>2 DEF Goes
  <2> QED
    BY <1>1, <1>3, <2>1, <2>2, <2>3 DEF CallOf
<1>6. CASE Misses(p, o) \/ Drops(p, o) \/ Creates(p, o)
  <2>1. o.of = p.of /\ o.todo = p.todo /\ o.stale = p.stale /\ o.phase \in {"drop", "create", "record"}
    BY <1>6 DEF Misses, Drops, Creates, Goes
  <2> QED
    BY <1>1, <2>1 DEF CallOf
<1>7. CASE Fails(p, o)
  BY <1>7, CallsApart DEF Fails, CallOf
<1>8. ASSUME NEW stale, ToStale(p, o, stale), p.phase \in {"find", "delete_stale"},
             \A i \in 1..Len(stale) : stale[i] \notin S!DesiredNames(v)
      PROVE  CallOf(o, v)
  <2>1. CASE stale = <<>>
    BY <1>8, <2>1, CallsApart DEF ToStale, CallOf
  <2>2. CASE stale # <<>>
    <3>1. o.of = p.of /\ o.todo = p.todo /\ o.stale = stale
      BY <1>8, <2>2 DEF ToStale, Goes
    <3> QED
      BY <1>1, <1>8, <3>1 DEF CallOf
  <2> QED
    BY <2>1, <2>2
<1>9. CASE Finds(p, o)
  BY <1>1, <1>8, <1>9 DEF Finds
<1>10. CASE DropsStale(p, o)
  <2>1. /\ o.of = p.of /\ o.todo = p.todo /\ o.stale = p.stale /\ p.phase = "drop_stale"
    BY <1>10 DEF DropsStale, Goes
  <2> QED
    BY <1>1, <2>1 DEF CallOf
<1>11. CASE Deletes(p, o)
  BY <1>2, <1>4, <1>8, <1>11 DEF Deletes
<1> QED
  BY <1>5, <1>6, <1>7, <1>9, <1>10, <1>11 DEF CallStep

\* A step that makes o of the call of r, of the release of its pod.
LEMMA CallsStep ==
  ASSUME SyncInv, CallsInv, NEW r \in Replicas, NEW o, sync' = [sync EXCEPT ![r] = o],
         \A q \in Replicas \ {r} : image'[q] = image[q],
         \A q \in Replicas : image[q] \in Nat,
         newest \in Nat, newest' \in 1..release', newest <= newest',
         CallOf(o, image'[r]), o # S!Idle => image'[r] <= newest'
  PROVE  CallsInv'
<1>1. \A q \in Replicas : sync'[q] = IF q = r THEN o ELSE sync[q]
  BY DEF SyncInv, S!SyncTypeOK
<1>2. ASSUME NEW q \in Replicas
      PROVE  CallOf(sync'[q], image'[q]) /\ (sync'[q] # S!Idle => image'[q] <= newest')
  <2>1. CASE q = r
    BY <1>1, <2>1
  <2>2. CASE q # r
    <3>1. sync'[q] = sync[q] /\ image'[q] = image[q] /\ image[q] \in Nat
      BY <1>1, <2>2
    <3> QED
      BY <3>1 DEF CallsInv
  <2> QED
    BY <2>1, <2>2
<1> QED
  BY <1>2 DEF CallsInv, CallOf, Declares

LEMMA BesideStep ==
  ASSUME SyncInv, SyncInv', BesideInv, NEW r \in Replicas, NEW o, sync' = [sync EXCEPT ![r] = o],
         r \in InSync \/ (UNCHANGED config /\ o \notin S!Syncing),
         beside' = IF o \in {S!Idle, S!Synced} THEN beside \ {r} ELSE beside,
         o \in S!Syncing /\ r \notin beside /\ o.phase \in {"drop", "create"} =>
           config'[Head(o.todo).name] # Head(o.todo).spec
  PROVE  BesideInv'
<1>1. \A q \in Replicas : sync'[q] = IF q = r THEN o ELSE sync[q]
  BY DEF SyncInv, S!SyncTypeOK
<1>2. o = sync'[r] /\ (r \in InSync' <=> o \in S!Syncing)
  <2>1. o = sync'[r] /\ S!Syncing' = S!Syncing
    BY <1>1 DEF S!Syncing
  <2> QED
    BY <2>1, CallsApart DEF SyncInv, S!SyncTypeOK, InSync
<1>3. InSync' \subseteq InSync /\ \A q \in InSync' : q \in beside => q \in beside'
  BY <1>1, <1>2 DEF InSync
<1>4. \A q \in InSync' \ beside' : q \notin beside
  BY <1>3
<1>5. ASSUME NEW q \in InSync' \ beside' PROVE Differs(sync[q])'
  <2>1. q \in InSync /\ q \in Replicas /\ q \notin beside
    BY <1>3, <1>4, <1>5 DEF InSync
  <2>2. CASE q = r
    <3>1. o \in S!Syncing
      BY <1>2, <1>5, <2>2
    <3>2. sync'[q] = o
      BY <1>1, <2>2
    <3> QED
      BY <2>1, <2>2, <3>1, <3>2 DEF Differs
  <2>3. CASE q # r
    <3>1. r \notin InSync /\ UNCHANGED config
      BY <2>1, <2>3 DEF BesideInv
    <3>2. sync'[q] = sync[q]
      BY <1>1, <2>1, <2>3
    <3>3. Differs(sync[q])
      BY <2>1 DEF BesideInv
    <3> QED
      BY <3>1, <3>2, <3>3 DEF Differs
  <2> QED
    BY <2>2, <2>3
<1>6. \A q, s \in InSync' : q # s => s \in beside'
  BY <1>3 DEF BesideInv
<1> QED
  BY <1>5, <1>6 DEF BesideInv

\* The entries of a release are what it declares, one per name.
LEMMA EntriesDeclared ==
  ASSUME NEW v \in 1..Len(Releases)
  PROVE  /\ \A i \in 1..Len(Releases[v]) :
              /\ Releases[v][i] \in S!Entries
              /\ Declares(v, Releases[v][i].name, Releases[v][i].spec)
              /\ Releases[v][i].name \in S!DesiredNames(v)
         /\ DOMAIN Releases[v] = 1..Len(Releases[v])
<1>1. Releases[v] \in Seq(S!Entries) /\ v \in DOMAIN Releases
  BY ReleasesAreConfigs
<1>2. DOMAIN Releases[v] = 1..Len(Releases[v])
  BY <1>1
<1>3. ASSUME NEW i \in 1..Len(Releases[v])
      PROVE  /\ Releases[v][i] \in S!Entries
             /\ Declares(v, Releases[v][i].name, Releases[v][i].spec)
             /\ Releases[v][i].name \in S!DesiredNames(v)
  <2>1. PICK e : e = Releases[v][i]
    OBVIOUS
  <2>2. e \in S!Entries
    BY <1>1, <2>1
  <2>3. e = [name |-> e.name, spec |-> e.spec]
    BY <2>2 DEF S!Entries
  <2> QED
    BY <1>2, <2>1, <2>2, <2>3 DEF Declares, S!DesiredNames
<1> QED
  BY <1>2, <1>3

LEMMA DeclaredEntry ==
  ASSUME NEW v \in 1..Len(Releases), NEW n, NEW s, Declares(v, n, s)
  PROVE  /\ \E i \in 1..Len(Releases[v]) : Releases[v][i].name = n /\ Releases[v][i].spec = s
         /\ n \in S!DesiredNames(v) /\ s \in IndexSpecs
<1>1. PICK i \in 1..Len(Releases[v]) : Releases[v][i] = [name |-> n, spec |-> s]
  BY EntriesDeclared DEF Declares
<1>2. Releases[v][i].name = n /\ Releases[v][i].spec = s
  BY <1>1
<1>3. Releases[v][i] \in S!Entries /\ Releases[v][i].name \in S!DesiredNames(v)
  BY EntriesDeclared
<1>4. s \in IndexSpecs
  BY <1>2, <1>3 DEF S!Entries
<1> QED
  BY <1>2, <1>3, <1>4

LEMMA OneSpecPerName ==
  ASSUME NEW v \in 1..Len(Releases), NEW n, NEW s, NEW t, Declares(v, n, s), Declares(v, n, t)
  PROVE  s = t
<1>1. v \in DOMAIN Releases
  BY ReleasesAreConfigs
<1>2. PICK i \in DOMAIN Releases[v] : Releases[v][i] = [name |-> n, spec |-> s]
  BY DEF Declares
<1>3. PICK j \in DOMAIN Releases[v] : Releases[v][j] = [name |-> n, spec |-> t]
  BY DEF Declares
<1>4. Releases[v][i].name = Releases[v][j].name
  BY <1>2, <1>3
<1>5. Releases[v][i] = Releases[v][j]
  BY <1>1, <1>4, ReleasesAgree
<1> QED
  BY <1>2, <1>3, <1>5

LEMMA BeginCall ==
  ASSUME StartupInv, NEW r \in Replicas, EnterSync(r), NEW v, v = image[r]
  PROVE  /\ sync[r] = S!Idle /\ UNCHANGED <<config, vars, release, image>>
         /\ v \in 1..Len(Releases) /\ v <= release /\ release \in Nat
         /\ \E o \in S!Syncing :
              /\ sync' = [sync EXCEPT ![r] = o] /\ o.of = v
              /\ o.todo = Releases[v] /\ o.stale = <<>> /\ o.phase \in {"check", "find"}
              /\ o.phase = "find" => o.todo = <<>>
<1>1. PICK t, h : t = Releases[v] /\ h = IF t = <<>> THEN "find" ELSE "check"
  OBVIOUS
<1>2. v \in 1..Len(Releases) /\ v <= release /\ release \in Nat
  BY Images DEF StartupInv
<1>3. t \in Seq(S!Entries)
  BY <1>1, <1>2, ReleaseEntries
<1> DEFINE p == [phase |-> "check", of |-> v, todo |-> <<>>, stale |-> <<>>]
           o == [p EXCEPT !.todo = t, !.phase = h]
<1>4. S!OnTo(p, t) = o
  BY <1>1 DEF S!OnTo
<1>5. h \in S!SyncPhases /\ h \in {"find", "check"} /\ (h = "find" => t = <<>>)
  BY <1>1 DEF S!SyncPhases
<1>6. /\ o \in S!Syncing /\ o.of = v /\ o.todo = t /\ o.stale = <<>> /\ o.phase = h
  BY <1>2, <1>3, <1>5, EmptySeq DEF S!Syncing
<1>7. /\ sync[r] = S!Idle /\ UNCHANGED <<config, vars, release, image>>
      /\ sync' = [sync EXCEPT ![r] = S!OnTo(p, t)]
  BY <1>1 DEF EnterSync, S!BeginSync
<1> HIDE DEF o
<1>8. sync' = [sync EXCEPT ![r] = o]
  BY <1>4, <1>7
<1> QED
  BY <1>1, <1>2, <1>5, <1>6, <1>7, <1>8

NeedInv == StartupInv /\ CallsInv /\ BesideInv

LEMMA InitNeed == StartupInit => NeedInv
<1> SUFFICES ASSUME StartupInit PROVE NeedInv
  OBVIOUS
<1>1. StartupInv /\ newest = 1 /\ release = 1
  BY InitStartup DEF StartupInit
<1>2. \A r \in Replicas : sync[r] = S!Idle
  BY DEF StartupInit, S!SyncInit
<1>3. CallsInv
  BY <1>1, <1>2, CallsApart DEF CallsInv, CallOf
<1>4. InSync = {}
  BY <1>2 DEF InSync
<1> QED
  BY <1>1, <1>3, <1>4 DEF NeedInv, BesideInv

LEMMA BeginKeepsNeed ==
  ASSUME NeedInv, NEW r \in Replicas, EnterSync(r)
  PROVE  NeedInv'
<1>1. PICK v : v = image[r]
  OBVIOUS
<1>2. StartupInv /\ StartupInv'
  BY EnterSyncKeeps DEF NeedInv
<1>3. /\ sync[r] = S!Idle /\ UNCHANGED <<config, vars, release, image>>
      /\ v \in 1..Len(Releases) /\ v <= release /\ release \in Nat
  BY <1>1, <1>2, BeginCall
<1>4. PICK o \in S!Syncing :
        /\ sync' = [sync EXCEPT ![r] = o] /\ o.of = v
        /\ o.todo = Releases[v] /\ o.stale = <<>> /\ o.phase \in {"check", "find"}
        /\ o.phase = "find" => o.todo = <<>>
  BY <1>1, <1>2, BeginCall
<1>5. CallOf(o, v)
  <2>1. \A i \in 1..Len(o.todo) : Declares(v, o.todo[i].name, o.todo[i].spec)
    BY <1>3, <1>4, EntriesDeclared
  <2>2. Len(o.stale) = 0
    BY <1>4
  <2> QED
    BY <1>4, <2>1, <2>2 DEF CallOf
<1>6. newest' = IF v > newest THEN v ELSE newest
  BY <1>1 DEF EnterSync, Meet
<1>7. CallsInv'
  <2>1. newest \in 1..release
    BY DEF NeedInv, CallsInv
  <2>2. newest' \in 1..release' /\ newest <= newest' /\ newest \in Nat /\ v <= newest'
    BY <1>3, <1>6, <2>1
  <2>3. \A q \in Replicas : image[q] \in Nat
    BY <1>2, Images DEF StartupInv
  <2>4. image' = image
    BY <1>3
  <2> QED
    BY <1>1, <1>2, <1>4, <1>5, <2>2, <2>3, <2>4, CallsStep DEF NeedInv, StartupInv
<1>8. beside' = IF InSync = {} THEN beside ELSE beside \cup InSync \cup {r}
  BY DEF EnterSync, Meet
<1>9. \A q \in Replicas : sync'[q] = IF q = r THEN o ELSE sync[q]
  BY <1>2, <1>4 DEF StartupInv, SyncInv, S!SyncTypeOK
<1>10. InSync' \subseteq InSync \cup {r}
  BY <1>9 DEF InSync
<1>11. BesideInv'
  <2>1. ASSUME NEW q \in InSync' \ beside' PROVE Differs(sync[q])'
    <3>1. q = r
      BY <1>8, <1>10, <2>1
    <3>2. sync'[q] = o
      BY <1>9, <3>1
    <3> QED
      BY <1>4, <3>2 DEF Differs
  <2>2. \A q, s \in InSync' : q # s => s \in beside'
    BY <1>8, <1>10
  <2> QED
    BY <2>1, <2>2 DEF BesideInv
<1> QED
  BY <1>2, <1>7, <1>11 DEF NeedInv

LEMMA SyncKeepsNeed ==
  ASSUME NeedInv, NEW r \in Replicas, SyncIndexes(r)
  PROVE  NeedInv'
<1>1. PICK p : p = sync[r]
  OBVIOUS
<1>2. StartupInv /\ StartupInv' /\ SyncInv /\ SyncInv'
  BY SyncIndexesKeeps DEF NeedInv, StartupInv
<1>3. S!SyncStep(r) /\ Muddle(r) /\ UNCHANGED <<release, image>>
  BY DEF SyncIndexes
<1>4. p \in S!Syncing
  BY <1>1, <1>2, <1>3, CallSteps
<1>5. PICK o \in S!Syncing \cup {S!Idle, S!Synced} :
        sync' = [sync EXCEPT ![r] = o] /\ CallStep(p, o)
  BY <1>1, <1>2, <1>3, CallSteps
<1>6. sync'[r] = o
  BY <1>2, <1>5 DEF SyncInv, S!SyncTypeOK
<1>7. CallsInv'
  <2>1. newest \in 1..release /\ newest' = newest /\ release \in Nat
    BY <1>2, <1>3, Images DEF NeedInv, CallsInv, Muddle, StartupInv
  <2>2. \A q \in Replicas : image[q] \in Nat
    BY <1>2, Images DEF StartupInv
  <2>3. CallOf(p, image[r]) /\ image[r] <= newest
    BY <1>1, <1>4, CallsApart DEF NeedInv, CallsInv
  <2>4. CallOf(o, image[r])
    BY <1>1, <1>2, <1>4, <1>5, <2>3, CallOfKept
  <2>5. image' = image /\ newest' \in 1..release' /\ newest <= newest' /\ newest \in Nat
    BY <1>3, <2>1
  <2> QED
    BY <1>2, <1>5, <2>1, <2>2, <2>3, <2>4, <2>5, CallsStep DEF NeedInv
<1>8. r \in InSync
  BY <1>1, <1>2, <1>4, Calls
<1>9. beside' = IF o \in {S!Idle, S!Synced} THEN beside \ {r} ELSE beside
  BY <1>3, <1>6 DEF Muddle
<1>10. ASSUME o \in S!Syncing, r \notin beside, o.phase \in {"drop", "create"}
       PROVE  config'[Head(o.todo).name] # Head(o.todo).spec
  <2>1. Misses(p, o) \/ Drops(p, o)
    BY <1>5, <1>10, CallsApart DEF CallStep, Skips, GoesOn, Creates, Fails, Records, Finds, DropsStale,
      Deletes, ToStale, Goes
  <2>2. o.todo = p.todo /\ config' = config
    BY <2>1 DEF Misses, Drops, Goes
  <2>3. CASE Misses(p, o)
    BY <2>2, <2>3 DEF Misses
  <2>4. CASE Drops(p, o)
    <3>1. Differs(p)
      BY <1>1, <1>8, <1>10 DEF NeedInv, BesideInv
    <3> QED
      BY <2>2, <2>4, <3>1 DEF Differs, Drops
  <2> QED
    BY <2>1, <2>3, <2>4
<1>11. BesideInv'
  BY <1>2, <1>5, <1>8, <1>9, <1>10, BesideStep DEF NeedInv
<1> QED
  BY <1>2, <1>7, <1>11 DEF NeedInv

LEMMA GoneKeepsNeed ==
  ASSUME NeedInv, NEW r \in Replicas, Kill(r) \/ Replaced(r)
  PROVE  NeedInv'
<1>1. StartupInv /\ StartupInv' /\ SyncInv /\ SyncInv'
  BY KillKeeps, ReplacedKeeps DEF NeedInv, StartupInv
<1>2. /\ sync' = [sync EXCEPT ![r] = S!Idle] /\ Muddle(r)
      /\ UNCHANGED <<config, release>> /\ \A q \in Replicas \ {r} : image'[q] = image[q]
  BY <1>1 DEF Kill, Replaced, StartupInv, ImageInv
<1>3. sync'[r] = S!Idle
  BY <1>1, <1>2 DEF SyncInv, S!SyncTypeOK
<1>4. CallsInv'
  <2>1. newest \in 1..release /\ newest' = newest /\ release' = release /\ release \in Nat
    BY <1>1, <1>2, Images DEF NeedInv, CallsInv, Muddle, StartupInv
  <2>2. \A q \in Replicas : image[q] \in Nat
    BY <1>1, Images DEF StartupInv
  <2>3. CallOf(S!Idle, image'[r])
    BY CallsApart DEF CallOf
  <2>4. newest' \in 1..release' /\ newest <= newest' /\ newest \in Nat
    BY <2>1
  <2> QED
    BY <1>1, <1>2, <2>2, <2>3, <2>4, CallsStep DEF NeedInv
<1>5. beside' = IF S!Idle \in {S!Idle, S!Synced} THEN beside \ {r} ELSE beside
  BY <1>2, <1>3 DEF Muddle
<1>6. BesideInv'
  BY <1>1, <1>2, <1>5, CallsApart, BesideStep DEF NeedInv
<1> QED
  BY <1>1, <1>4, <1>6 DEF NeedInv

\* A step beside the calls: a pod migrates or boots, or a release is rolled out.
LEMMA OthersKeepNeed ==
  ASSUME NeedInv, StartupInv', release <= release',
         UNCHANGED <<config, sync, image, beside, newest>>
  PROVE  NeedInv'
<1>1. release \in Nat /\ release' \in Nat /\ newest \in 1..release
  BY ReleasesAreConfigs DEF NeedInv, CallsInv, StartupInv, ImageInv
<1>2. newest' \in 1..release'
  BY <1>1
<1>3. \A r \in Replicas : CallOf(sync[r], image[r])' = CallOf(sync[r], image[r])
  BY DEF CallOf, Declares
<1>4. CallsInv'
  BY <1>2, <1>3 DEF NeedInv, CallsInv
<1>5. BesideInv'
  BY DEF NeedInv, BesideInv, Differs, InSync
<1> QED
  BY <1>4, <1>5 DEF NeedInv

\* What such a step is.
LEMMA Others ==
  ASSUME StartupInv, [StartupNext]_startupVars
  PROVE  \/ \E r \in Replicas : EnterSync(r) \/ SyncIndexes(r) \/ Kill(r) \/ Replaced(r)
         \/ /\ UNCHANGED <<config, sync, image, beside, newest, muddled>>
            /\ StartupInv' /\ release <= release'
            /\ \A n \in IndexNames : indexes[n] # NoSpec => indexes'[n] = indexes[n]
<1>1. StartupInv' /\ release \in Nat
  BY StartupNextKeeps, ReleasesAreConfigs DEF StartupInv, ImageInv
<1>2. indexes \in MaybeIndexes
  BY DEF StartupInv, SyncInv, S!SyncTypeOK, S!MaybeIndexes, MaybeIndexes, S!NoSpec, NoSpec
<1>3. ASSUME NEW r \in Replicas, RunMigrations(r)
      PROVE  /\ UNCHANGED <<config, sync, image, beside, newest, muddled, release>>
             /\ \A n \in IndexNames : indexes[n] # NoSpec => indexes'[n] = indexes[n]
  BY <1>2, <1>3, MigrateIndexes DEF RunMigrations
<1>4. ASSUME NEW r \in Replicas, Boot(r)
      PROVE  UNCHANGED <<config, sync, image, beside, newest, muddled, release, indexes>>
  BY <1>4 DEF Boot, Start
<1>5. RollOut => /\ UNCHANGED <<config, sync, image, beside, newest, muddled, indexes>>
                 /\ release' = release + 1
  BY DEF RollOut, vars
<1>6. UNCHANGED startupVars =>
        UNCHANGED <<config, sync, image, beside, newest, muddled, release, indexes>>
  BY DEF startupVars, vars
<1> QED
  BY <1>1, <1>3, <1>4, <1>5, <1>6 DEF StartupNext, Lifespan

LEMMA NextKeepsNeed == NeedInv /\ [StartupNext]_startupVars => NeedInv'
<1> SUFFICES ASSUME NeedInv, [StartupNext]_startupVars PROVE NeedInv'
  OBVIOUS
<1> QED
  BY Others, BeginKeepsNeed, SyncKeepsNeed, GoneKeepsNeed, OthersKeepNeed DEF NeedInv

LEMMA NeedHolds == StartupSpec => []NeedInv
BY InitNeed, NextKeepsNeed, PTL DEF StartupSpec

\* "Sync is idempotent" (test_index_sync.py): whatever was killed and restarted, and with
\* older releases syncing, an index a release declares is dropped by a sync of it only if
\* its spec is not the one on record. The spec was read before: only a sync that had
\* another beside it may act on a record that has changed since.
THEOREM NothingIsDroppedNeedlessly == StartupSpec => NoNeedlessDrop
<1>1. ASSUME NeedInv, [StartupNext]_startupVars, NEW n \in IndexNames,
             indexes[n] # NoSpec, indexes'[n] = NoSpec
      PROVE  \/ n \notin S!DesiredNames(release) \/ beside # {}
             \/ \E r \in Replicas : image[r] # release /\ sync[r] # sync'[r]
             \/ \E i \in DOMAIN Releases[release] :
                  Releases[release][i].name = n /\ config[n] # Releases[release][i].spec
  <2>1. StartupInv /\ SyncInv /\ indexes \in MaybeIndexes /\ release \in 1..Len(Releases)
    BY <1>1 DEF NeedInv, StartupInv, SyncInv, ImageInv, S!SyncTypeOK, S!MaybeIndexes, MaybeIndexes,
      S!NoSpec, NoSpec
  <2>2. ASSUME NEW r \in Replicas, EnterSync(r) \/ Kill(r) \/ Replaced(r) PROVE UNCHANGED indexes
    BY <2>2 DEF EnterSync, S!BeginSync, Kill, Crash, Replaced
  <2>3. PICK r \in Replicas : SyncIndexes(r)
    BY <1>1, <2>1, <2>2, Others
  <2>4. PICK p : p = sync[r]
    OBVIOUS
  <2>5. S!SyncStep(r) /\ UNCHANGED release
    BY <2>3 DEF SyncIndexes
  <2>6. PICK o \in S!Syncing \cup {S!Idle, S!Synced} :
          sync' = [sync EXCEPT ![r] = o] /\ CallStep(p, o)
    BY <2>1, <2>4, <2>5, CallSteps
  <2>7. p \in S!Syncing /\ r \in InSync
    BY <2>1, <2>4, <2>5, CallSteps, Calls
  <2>8. /\ p.todo \in Seq(S!Entries) /\ p.stale \in Seq(IndexNames)
        /\ p.phase \in {"check", "drop", "create", "record"} => p.todo # <<>>
        /\ p.phase \in {"drop_stale", "delete_stale"} => p.stale # <<>>
    BY <2>1, <2>4, <2>7, Calls
  <2>9. sync'[r] = o
    BY <2>1, <2>6 DEF SyncInv, S!SyncTypeOK
  <2>10. CallOf(p, image[r])
    BY <1>1, <2>4 DEF NeedInv, CallsInv
  <2>11. \/ Drops(p, o) /\ n = Head(p.todo).name
         \/ DropsStale(p, o) /\ n = Head(p.stale)
    <3>1. ASSUME Creates(p, o) PROVE FALSE
      <4>1. Head(p.todo) \in S!Entries
        BY <2>8, <3>1, Parts DEF Creates
      <4>2. Head(p.todo).spec \in IndexSpecs
        BY <4>1 DEF S!Entries
      <4> QED
        BY <1>1, <2>1, <3>1, <4>2, SpecsAreNotNoSpec DEF Creates, MaybeIndexes, NoSpec
    <3>2. ASSUME UNCHANGED indexes PROVE FALSE
      BY <1>1, <3>2
    <3>3. Drops(p, o) \/ DropsStale(p, o)
      BY <2>6, <3>1, <3>2 DEF CallStep, Skips, Misses, Fails, Records, Finds, Deletes
    <3> QED
      BY <1>1, <2>1, <3>3 DEF Drops, DropsStale, MaybeIndexes
  <2>12. sync[r] # sync'[r]
    <3>1. p.phase # o.phase
      BY <2>11 DEF Drops, DropsStale, Goes
    <3> QED
      BY <2>4, <2>9, <3>1
  <2>13. CASE image[r] = release /\ Drops(p, o) /\ n = Head(p.todo).name
    <3>1. p.todo # <<>> /\ Head(p.todo) = p.todo[1] /\ 1 \in 1..Len(p.todo)
      BY <2>8, <2>13, Parts DEF Drops
    <3>2. Declares(release, n, Head(p.todo).spec)
      BY <2>7, <2>10, <2>13, <3>1 DEF CallOf
    <3> PICK s : s = Head(p.todo).spec
      OBVIOUS
    <3>3. DOMAIN Releases[release] = 1..Len(Releases[release])
      BY <2>1, ReleaseEntries
    <3>4. PICK i \in DOMAIN Releases[release] :
            Releases[release][i].name = n /\ Releases[release][i].spec = s
      <4>1. PICK v \in 1..Len(Releases) : v = release
        BY <2>1
      <4>2. \E i \in 1..Len(Releases[v]) : Releases[v][i].name = n /\ Releases[v][i].spec = s
        BY <3>2, <4>1, DeclaredEntry
      <4> QED
        BY <3>3, <4>1, <4>2
    <3>5. r \notin beside => config[n] # Head(p.todo).spec
      BY <1>1, <2>4, <2>7, <2>13 DEF NeedInv, BesideInv, Differs, Drops
    <3> QED
      BY <3>4, <3>5
  <2>14. CASE image[r] = release /\ DropsStale(p, o) /\ n = Head(p.stale)
    <3>1. p.stale # <<>> /\ Head(p.stale) = p.stale[1] /\ 1 \in 1..Len(p.stale)
      BY <2>8, <2>14, Parts DEF DropsStale
    <3>2. n \notin S!DesiredNames(release)
      BY <2>7, <2>10, <2>14, <3>1 DEF CallOf
    <3> QED
      BY <3>2
  <2> QED
    BY <2>11, <2>12, <2>13, <2>14
<1>2. NeedInv /\ [StartupNext]_startupVars =>
        [\A n \in IndexNames : indexes[n] # NoSpec /\ indexes'[n] = NoSpec =>
           \/ n \notin S!DesiredNames(release) \/ beside # {}
           \/ \E r \in Replicas : image[r] # release /\ sync[r] # sync'[r]
           \/ \E i \in DOMAIN Releases[release] :
                Releases[release][i].name = n /\ config[n] # Releases[release][i].spec]_startupVars
  BY <1>1
<1> QED
  BY <1>2, NeedHolds, PTL DEF StartupSpec, NoNeedlessDrop

-----------------------------------------------------------------------------
(* What is on record is there *)

\* A release declared the index, and a later one, a sync of which may have begun, does
\* not: that one may have dropped it and left the record.
GivenUp(n, s) ==
  \E u, w \in 1..newest : u <= w /\ Declares(u, n, s) /\ ~Declares(w, n, s)

\* The call p has dropped index n, and not come to build it or to delete its record.
Holding(p, n) ==
  \/ p.phase = "create" /\ Head(p.todo).name = n
  \/ p.phase = "delete_stale" /\ Head(p.stale) = n

Dropped(n) == \E r \in Replicas : Holding(sync[r], n)

DeclaredInv ==
  \A n \in IndexNames : config[n] # NoSpec => \E u \in 1..newest : Declares(u, n, config[n])

RecordInv ==
  \A n \in IndexNames : config[n] # NoSpec =>
    indexes[n] = config[n] \/ Dropped(n) \/ GivenUp(n, config[n])

\* What a call is about to record.
Ready(p) ==
  p.phase = "record" =>
    LET entry == Head(p.todo)
    IN  indexes[entry.name] = entry.spec \/ Dropped(entry.name)

\* What the call p of release v has done with is recorded, or deleted.
Done(p, v) ==
  /\ \A i \in 1..Len(Releases[v]) :
       \/ config[Releases[v][i].name] = Releases[v][i].spec
       \/ p \in S!Syncing /\ \E j \in 1..Len(p.todo) : p.todo[j] = Releases[v][i]
  /\ p = S!Synced \/ p.phase \in {"drop_stale", "delete_stale"} =>
       \A n \in IndexNames \ S!DesiredNames(v) : config[n] # NoSpec =>
         p \in S!Syncing /\ \E i \in 1..Len(p.stale) : p.stale[i] = n

NewestInv ==
  \A r \in Replicas : image[r] = newest /\ sync[r] # S!Idle =>
    Ready(sync[r]) /\ Done(sync[r], newest)

UpInv == NeedInv /\ DeclaredInv /\ (~muddled => RecordInv /\ NewestInv)

LEMMA InitUp == StartupInit => UpInv
<1> SUFFICES ASSUME StartupInit PROVE UpInv
  OBVIOUS
<1>1. NeedInv
  BY InitNeed
<1>2. \A n \in IndexNames : config[n] = NoSpec
  BY DEF StartupInit, S!SyncInit, S!NoSpec, NoSpec
<1>3. \A r \in Replicas : sync[r] = S!Idle
  BY DEF StartupInit, S!SyncInit
<1> QED
  BY <1>1, <1>2, <1>3 DEF UpInv, DeclaredInv, RecordInv, NewestInv

\* The newest release a sync of which has begun is one of the releases.
LEMMA NewestIs ==
  ASSUME NeedInv
  PROVE  newest \in 1..Len(Releases) /\ newest \in 1..newest /\ newest \in Nat
<1>1. release \in 1..Len(Releases) /\ newest \in 1..release /\ Len(Releases) \in Nat
  BY ReleasesAreConfigs DEF NeedInv, CallsInv, StartupInv, ImageInv
<1> QED
  BY <1>1

\* The call in the hand of r, with the lists it works on.
LEMMA InHandIs ==
  ASSUME NeedInv, NEW r \in Replicas, NEW p, p = sync[r], p \in S!Syncing
  PROVE  /\ r \in InSync /\ p.of = image[r] /\ image[r] <= newest /\ image[r] \in 1..newest
         /\ p.todo \in Seq(S!Entries) /\ p.stale \in Seq(IndexNames)
         /\ p.phase \in {"check", "drop", "create", "record"} =>
              /\ p.todo # <<>> /\ Head(p.todo) \in S!Entries
              /\ Declares(image[r], Head(p.todo).name, Head(p.todo).spec)
         /\ p.phase \in {"drop_stale", "delete_stale"} =>
              /\ p.stale # <<>> /\ Head(p.stale) \in IndexNames
              /\ Head(p.stale) \notin S!DesiredNames(image[r])
         /\ p.phase \in {"find", "drop_stale", "delete_stale"} => p.todo = <<>>
         /\ p.phase \in {"drop", "create"} /\ r \notin beside =>
              config[Head(p.todo).name] # Head(p.todo).spec
<1>1. StartupInv /\ SyncInv /\ CallsInv /\ BesideInv
  BY DEF NeedInv, StartupInv
<1>2. /\ r \in InSync /\ p.todo \in Seq(S!Entries) /\ p.stale \in Seq(IndexNames)
      /\ p.phase \in {"check", "drop", "create", "record"} => p.todo # <<>>
      /\ p.phase \in {"drop_stale", "delete_stale"} => p.stale # <<>>
  BY <1>1, Calls
<1>3. CallOf(p, image[r]) /\ image[r] <= newest /\ image[r] \in 1..newest
  <2>1. p # S!Idle
    BY CallsApart
  <2>2. image[r] \in 1..Len(Releases) /\ newest \in Nat /\ Len(Releases) \in Nat
    BY <1>1, Images, NewestIs, ReleasesAreConfigs DEF StartupInv
  <2> QED
    BY <1>1, <2>1, <2>2 DEF CallsInv
<1>4. p.todo # <<>> => /\ Head(p.todo) \in S!Entries
                       /\ Declares(image[r], Head(p.todo).name, Head(p.todo).spec)
  BY <1>2, <1>3, Parts DEF CallOf
<1>5. p.stale # <<>> => /\ Head(p.stale) \in IndexNames
                        /\ Head(p.stale) \notin S!DesiredNames(image[r])
  BY <1>2, <1>3, Parts DEF CallOf
<1>6. r \notin beside => Differs(p)
  BY <1>1, <1>2 DEF BesideInv
<1> QED
  BY <1>2, <1>3, <1>4, <1>5, <1>6 DEF CallOf, Differs

LEMMA DeclaredStays ==
  ASSUME DeclaredInv, newest \in Nat, newest' \in Nat, newest <= newest', UNCHANGED config
  PROVE  DeclaredInv'
BY DEF DeclaredInv, Declares

\* A call that is cut off with an index dropped was of a release that does not declare
\* what is on record of it, if no other was beside it.
LEMMA CutOff ==
  ASSUME NeedInv, DeclaredInv, NEW r \in Replicas, r \notin beside, image[r] = newest,
         NEW n \in IndexNames, Holding(sync[r], n), config[n] # NoSpec
  PROVE  GivenUp(n, config[n])
<1>1. PICK p : p = sync[r]
  OBVIOUS
<1>2. p \in S!Syncing
  <2>1. p.phase \in S!SyncPhases
    BY <1>1 DEF Holding, S!SyncPhases
  <2> QED
    BY <1>1, <2>1, Calls DEF NeedInv, StartupInv
<1>3. PICK u \in 1..newest : Declares(u, n, config[n])
  BY DEF DeclaredInv
<1>4. newest \in 1..Len(Releases) /\ newest \in 1..newest /\ newest \in Nat
  BY NewestIs
<1>5. ~Declares(newest, n, config[n])
  <2>1. CASE p.phase = "create" /\ Head(p.todo).name = n
    <3>1. Declares(newest, n, Head(p.todo).spec) /\ config[n] # Head(p.todo).spec
      BY <1>1, <1>2, <2>1, InHandIs
    <3> QED
      BY <1>4, <3>1, OneSpecPerName
  <2>2. CASE p.phase = "delete_stale" /\ Head(p.stale) = n
    <3>1. n \notin S!DesiredNames(newest)
      BY <1>1, <1>2, <2>2, InHandIs
    <3> QED
      BY <1>4, <3>1, DeclaredEntry
  <2> QED
    BY <1>1, <2>1, <2>2 DEF Holding
<1> QED
  BY <1>3, <1>4, <1>5 DEF GivenUp

LEMMA OthersKeepUp ==
  ASSUME UpInv, StartupInv', release <= release',
         UNCHANGED <<config, sync, image, beside, newest, muddled>>,
         \A n \in IndexNames : indexes[n] # NoSpec => indexes'[n] = indexes[n]
  PROVE  UpInv'
<1>1. NeedInv /\ NeedInv'
  BY OthersKeepNeed DEF UpInv
<1>2. newest' = newest /\ newest \in Nat
  BY <1>1, NewestIs
<1>3. DeclaredInv'
  BY <1>2, DeclaredStays DEF UpInv
<1>4. /\ \A n, s : GivenUp(n, s)' <=> GivenUp(n, s)
      /\ \A n : Dropped(n)' <=> Dropped(n)
  BY DEF GivenUp, Declares, Dropped, Holding
<1>5. ASSUME RecordInv PROVE RecordInv'
  BY <1>4, <1>5 DEF RecordInv
<1>6. ASSUME NewestInv PROVE NewestInv'
  <2> SUFFICES ASSUME NEW r \in Replicas, image[r] = newest, sync[r] # S!Idle
               PROVE  Ready(sync[r])' /\ Done(sync[r], newest)'
    BY DEF NewestInv
  <2>1. Ready(sync[r]) /\ Done(sync[r], newest)
    BY <1>6 DEF NewestInv
  <2>2. Done(sync[r], newest)'
    BY <2>1 DEF Done
  <2>3. PICK p, e : p = sync[r] /\ e = Head(p.todo)
    OBVIOUS
  <2>4. ASSUME p.phase = "record" PROVE indexes'[e.name] = e.spec \/ Dropped(e.name)'
    <3>1. indexes[e.name] = e.spec \/ Dropped(e.name)
      BY <2>1, <2>3, <2>4 DEF Ready
    <3>2. p \in S!Syncing
      <4>1. p.phase \in S!SyncPhases
        BY <2>4 DEF S!SyncPhases
      <4> QED
        BY <1>1, <2>3, <4>1, Calls DEF NeedInv, StartupInv
    <3>3. e \in S!Entries
      BY <1>1, <2>3, <2>4, <3>2, InHandIs
    <3>4. e.name \in IndexNames /\ e.spec \in IndexSpecs
      BY <3>3 DEF S!Entries
    <3>5. e.spec # NoSpec
      BY <3>4, SpecsAreNotNoSpec DEF NoSpec
    <3> QED
      BY <1>4, <3>1, <3>4, <3>5
  <2>5. Ready(sync[r])'
    BY <2>3, <2>4 DEF Ready
  <2> QED
    BY <2>2, <2>5
<1> QED
  BY <1>1, <1>3, <1>5, <1>6 DEF UpInv

LEMMA BeginKeepsUp ==
  ASSUME UpInv, NEW r \in Replicas, EnterSync(r)
  PROVE  UpInv'
<1>1. PICK v : v = image[r]
  OBVIOUS
<1>2. NeedInv /\ NeedInv' /\ StartupInv
  BY BeginKeepsNeed DEF UpInv, NeedInv
<1>3. /\ sync[r] = S!Idle /\ UNCHANGED <<config, vars, release, image>>
      /\ v \in 1..Len(Releases)
  BY <1>1, <1>2, BeginCall
<1>4. PICK o \in S!Syncing :
        /\ sync' = [sync EXCEPT ![r] = o] /\ o.of = v
        /\ o.todo = Releases[v] /\ o.stale = <<>> /\ o.phase \in {"check", "find"}
  BY <1>1, <1>2, BeginCall
<1>5. \A q \in Replicas : sync'[q] = IF q = r THEN o ELSE sync[q]
  BY <1>2, <1>4 DEF StartupInv, SyncInv, S!SyncTypeOK
<1>6. newest' = (IF v > newest THEN v ELSE newest) /\ muddled' = muddled
  BY <1>1 DEF EnterSync, Meet
<1>7. newest \in Nat /\ newest' \in Nat /\ newest <= newest' /\ v <= newest' /\ v \in Nat
  <2>1. newest \in Nat /\ v \in Nat
    BY <1>2, <1>3, NewestIs
  <2> QED
    BY <1>6, <2>1
<1>8. DeclaredInv' /\ UNCHANGED <<indexes, config, image>>
  BY <1>3, <1>7, DeclaredStays DEF UpInv, vars
<1>9. /\ \A n, s : GivenUp(n, s) => GivenUp(n, s)'
      /\ \A n : Dropped(n) => Dropped(n)'
  <2>1. \A n, s : GivenUp(n, s) => GivenUp(n, s)'
    BY <1>7 DEF GivenUp, Declares
  <2>2. \A n : ~Holding(sync[r], n)
    BY <1>3, CallsApart DEF Holding
  <2>3. \A n : Dropped(n) => \E q \in Replicas : q # r /\ Holding(sync[q], n)
    BY <2>2 DEF Dropped
  <2>4. ASSUME NEW n, NEW q \in Replicas, q # r, Holding(sync[q], n) PROVE Dropped(n)'
    <3>1. sync'[q] = sync[q]
      BY <1>5, <2>4
    <3> QED
      BY <2>4, <3>1 DEF Dropped, Holding
  <2> QED
    BY <2>1, <2>3, <2>4
<1>10. ASSUME RecordInv PROVE RecordInv'
  BY <1>8, <1>9, <1>10 DEF RecordInv
<1>11. ASSUME NewestInv PROVE NewestInv'
  <2> SUFFICES ASSUME NEW q \in Replicas, image'[q] = newest', sync'[q] # S!Idle
               PROVE  Ready(sync[q])' /\ Done(sync[q], newest)'
    BY DEF NewestInv
  <2>1. CASE q = r
    <3>1. sync'[q] = o /\ v = newest'
      BY <1>1, <1>5, <1>8, <2>1
    <3>2. Ready(sync[q])'
      BY <1>4, <3>1 DEF Ready
    <3>3. o \in S!Syncing' /\ o # S!Synced
      BY <1>4, CallsApart DEF S!Syncing
    <3>4. Done(sync[q], newest)'
      BY <1>4, <3>1, <3>3 DEF Done
    <3> QED
      BY <3>2, <3>4
  <2>2. CASE q # r
    <3>1. sync'[q] = sync[q] /\ image[q] = newest' /\ sync[q] # S!Idle
      BY <1>5, <1>8, <2>2
    <3>2. newest' = newest
      <4>1. image[q] <= newest
        BY <1>2, <3>1 DEF NeedInv, CallsInv
      <4> QED
        BY <1>7, <3>1, <4>1
    <3>3. Ready(sync[q]) /\ Done(sync[q], newest)
      BY <1>11, <3>1, <3>2 DEF NewestInv
    <3>4. Ready(sync[q])'
      BY <1>8, <1>9, <3>1, <3>3 DEF Ready
    <3>5. Done(sync[q], newest)'
      BY <1>8, <3>1, <3>2, <3>3 DEF Done
    <3> QED
      BY <3>4, <3>5
  <2> QED
    BY <2>1, <2>2
<1> QED
  BY <1>2, <1>6, <1>8, <1>10, <1>11 DEF UpInv

LEMMA GoneKeepsUp ==
  ASSUME UpInv, NEW r \in Replicas, Kill(r) \/ Replaced(r)
  PROVE  UpInv'
<1>1. NeedInv /\ NeedInv' /\ SyncInv /\ StartupInv
  BY GoneKeepsNeed DEF UpInv, NeedInv, StartupInv
<1>2. /\ sync' = [sync EXCEPT ![r] = S!Idle] /\ Muddle(r)
      /\ UNCHANGED <<config, indexes, release>> /\ \A q \in Replicas \ {r} : image'[q] = image[q]
  BY <1>1 DEF Kill, Crash, Replaced, StartupInv, ImageInv
<1>3. \A q \in Replicas : sync'[q] = IF q = r THEN S!Idle ELSE sync[q]
  BY <1>1, <1>2 DEF SyncInv, S!SyncTypeOK
<1>4. newest' = newest /\ newest \in Nat
  BY <1>1, <1>2, NewestIs DEF Muddle
<1>5. DeclaredInv /\ DeclaredInv'
  BY <1>2, <1>4, DeclaredStays DEF UpInv
<1>6. ASSUME ~muddled' PROVE RecordInv' /\ NewestInv'
  <2>1. RecordInv /\ NewestInv
    BY <1>2, <1>6 DEF UpInv, Muddle
  <2>2. r \notin beside /\ (r \in InSync => ~(image[r] < newest))
    BY <1>2, <1>3, <1>6 DEF Muddle
  <2>3. r \in InSync => image[r] = newest
    <3>1. ASSUME r \in InSync PROVE image[r] <= newest /\ image[r] \in Nat
      BY <1>1, <3>1, Images DEF InSync, NeedInv, CallsInv, StartupInv
    <3> QED
      BY <1>4, <2>2, <3>1
  <2>4. \A n, s : GivenUp(n, s) => GivenUp(n, s)'
    BY <1>4 DEF GivenUp, Declares
  <2>5. ASSUME NEW n, NEW q \in Replicas, q # r, Holding(sync[q], n) PROVE Dropped(n)'
    <3>1. sync'[q] = sync[q]
      BY <1>3, <2>5
    <3> QED
      BY <2>5, <3>1 DEF Dropped, Holding
  <2>6. \A n : Holding(sync[r], n) => r \in InSync
    <3>1. \A n : Holding(sync[r], n) => sync[r].phase \in S!SyncPhases
      BY DEF Holding, S!SyncPhases
    <3> QED
      BY <1>1, <3>1, Calls
  <2>7. ASSUME NEW n \in IndexNames, config[n] # NoSpec, Dropped(n)
        PROVE  Dropped(n)' \/ GivenUp(n, config[n])
    <3>1. CASE Holding(sync[r], n)
      BY <1>1, <1>5, <2>2, <2>3, <2>6, <2>7, <3>1, CutOff
    <3>2. CASE ~Holding(sync[r], n)
      BY <2>5, <2>7, <3>2 DEF Dropped
    <3> QED
      BY <3>1, <3>2
  <2>8. RecordInv'
    BY <1>2, <2>1, <2>4, <2>7 DEF RecordInv
  <2>9. NewestInv'
    <3> SUFFICES ASSUME NEW q \in Replicas, image'[q] = newest', sync'[q] # S!Idle
                 PROVE  Ready(sync[q])' /\ Done(sync[q], newest)'
      BY DEF NewestInv
    <3>1. q # r /\ sync'[q] = sync[q] /\ image[q] = newest /\ sync[q] # S!Idle
      BY <1>2, <1>3, <1>4
    <3>2. Ready(sync[q]) /\ Done(sync[q], newest)
      BY <2>1, <3>1 DEF NewestInv
    <3>3. Done(sync[q], newest)'
      BY <1>2, <1>4, <3>1, <3>2 DEF Done
    <3>4. PICK p, e : p = sync[q] /\ e = Head(p.todo)
      OBVIOUS
    <3>5. ASSUME p.phase = "record" PROVE indexes'[e.name] = e.spec \/ Dropped(e.name)'
      <4>1. q \in InSync
        <5>1. p.phase \in S!SyncPhases
          BY <3>5 DEF S!SyncPhases
        <5> QED
          BY <1>1, <3>4, <5>1, Calls
      <4>2. \A n : ~Holding(sync[r], n)
        BY <1>1, <2>2, <2>6, <3>1, <4>1 DEF NeedInv, BesideInv
      <4>3. indexes[e.name] = e.spec \/ Dropped(e.name)
        BY <3>2, <3>4, <3>5 DEF Ready
      <4> QED
        BY <1>2, <2>5, <4>2, <4>3 DEF Dropped
    <3>6. Ready(sync[q])'
      BY <3>1, <3>4, <3>5 DEF Ready
    <3> QED
      BY <3>3, <3>6
  <2> QED
    BY <2>8, <2>9
<1> QED
  BY <1>1, <1>5, <1>6 DEF UpInv

\* A step of a call of the newest release, with no call of an older one moving: what it
\* does to the records and the indexes.
LEMMA SyncKeepsRecords ==
  ASSUME NeedInv, SyncInv', DeclaredInv, RecordInv, NewestInv, NEW r \in Replicas, NEW p, p = sync[r],
         p \in S!Syncing, NEW o, sync' = [sync EXCEPT ![r] = o], CallStep(p, o),
         image[r] = newest, newest' = newest, o = S!Idle => r \notin beside
  PROVE  RecordInv'
<1>1. \A q \in Replicas : sync'[q] = IF q = r THEN o ELSE sync[q]
  BY DEF NeedInv, StartupInv, SyncInv, S!SyncTypeOK
<1>2. indexes \in MaybeIndexes /\ config \in MaybeIndexes
  BY DEF NeedInv, StartupInv, SyncInv, S!SyncTypeOK, S!MaybeIndexes, MaybeIndexes, S!NoSpec, NoSpec
<1>3. \A n, s : GivenUp(n, s) => GivenUp(n, s)'
  BY DEF GivenUp, Declares
<1>4. newest \in 1..Len(Releases) /\ newest \in 1..newest /\ newest \in Nat
  BY NewestIs
<1>5. ASSUME NEW n, Dropped(n), ~Holding(p, n) PROVE Dropped(n)'
  <2>1. PICK q \in Replicas : Holding(sync[q], n) /\ q # r
    BY <1>5 DEF Dropped
  <2>2. sync'[q] = sync[q]
    BY <1>1, <2>1
  <2> QED
    BY <2>1, <2>2 DEF Dropped, Holding
<1>6. \A n : Holding(o, n) => Dropped(n)'
  BY <1>1 DEF Dropped, Holding
<1>7. PICK e, m : e = Head(p.todo) /\ m = Head(p.stale)
  OBVIOUS
<1>8. CASE UNCHANGED <<indexes, config>> /\ \A n : ~Holding(p, n)
  BY <1>3, <1>5, <1>8 DEF RecordInv
<1>9. CASE Skips(p, o) \/ Misses(p, o) \/ Finds(p, o)
  <2>1. UNCHANGED <<indexes, config>> /\ \A n : ~Holding(p, n)
    BY <1>9 DEF Skips, Misses, Finds, Holding
  <2> QED
    BY <1>8, <2>1
<1>10. CASE Drops(p, o)
  <2>1. /\ indexes' = [indexes EXCEPT ![e.name] = NoSpec] /\ config' = config
        /\ \A n : ~Holding(p, n) /\ Holding(o, e.name)
    BY <1>7, <1>10 DEF Drops, Goes, Holding
  <2>2. \A n \in IndexNames : n # e.name => indexes'[n] = indexes[n]
    BY <1>2, <2>1 DEF MaybeIndexes
  <2> QED
    BY <1>3, <1>5, <1>6, <2>1, <2>2 DEF RecordInv
<1>11. CASE DropsStale(p, o)
  <2>1. /\ indexes' = [indexes EXCEPT ![m] = NoSpec] /\ config' = config
        /\ \A n : ~Holding(p, n) /\ Holding(o, m)
    BY <1>7, <1>11 DEF DropsStale, Goes, Holding
  <2>2. \A n \in IndexNames : n # m => indexes'[n] = indexes[n]
    BY <1>2, <2>1 DEF MaybeIndexes
  <2> QED
    BY <1>3, <1>5, <1>6, <2>1, <2>2 DEF RecordInv
<1>12. CASE Creates(p, o)
  <2>1. /\ indexes' = [indexes EXCEPT ![e.name] = e.spec] /\ config' = config
        /\ p.phase = "create" /\ \A n : Holding(p, n) => n = e.name
    BY <1>7, <1>12 DEF Creates, Holding
  <2>2. \A n \in IndexNames : n # e.name => indexes'[n] = indexes[n]
    BY <1>2, <2>1 DEF MaybeIndexes
  <2>3. e \in S!Entries /\ Declares(newest, e.name, e.spec)
    BY <1>7, <2>1, InHandIs
  <2>4. indexes'[e.name] = e.spec
    BY <1>2, <2>1, <2>3 DEF MaybeIndexes, S!Entries
  <2>5. ASSUME e.name \in IndexNames, config[e.name] # NoSpec
        PROVE  indexes'[e.name] = config[e.name] \/ GivenUp(e.name, config[e.name])
    <3>1. CASE Declares(newest, e.name, config[e.name])
      BY <1>4, <2>3, <2>4, <3>1, OneSpecPerName
    <3>2. CASE ~Declares(newest, e.name, config[e.name])
      <4>1. PICK u \in 1..newest : Declares(u, e.name, config[e.name])
        BY <2>5 DEF DeclaredInv
      <4> QED
        BY <1>4, <3>2, <4>1 DEF GivenUp
    <3> QED
      BY <3>1, <3>2
  <2> QED
    BY <1>3, <1>5, <2>1, <2>2, <2>5 DEF RecordInv
<1>13. CASE Fails(p, o)
  <2>1. UNCHANGED <<indexes, config>> /\ r \notin beside
    BY <1>13 DEF Fails
  <2>2. \A n \in IndexNames : Holding(p, n) /\ config[n] # NoSpec => GivenUp(n, config[n])
    BY <2>1, CutOff
  <2> QED
    BY <1>3, <1>5, <2>1, <2>2 DEF RecordInv
<1>14. CASE Records(p, o)
  <2>1. /\ config' = [config EXCEPT ![e.name] = e.spec] /\ indexes' = indexes
        /\ p.phase = "record" /\ \A n : ~Holding(p, n)
    BY <1>7, <1>14 DEF Records, Holding
  <2>2. \A n \in IndexNames : n # e.name => config'[n] = config[n]
    BY <1>2, <2>1 DEF MaybeIndexes
  <2>3. e \in S!Entries
    BY <1>7, <2>1, InHandIs
  <2>4. config'[e.name] = e.spec
    BY <1>2, <2>1, <2>3 DEF MaybeIndexes, S!Entries
  <2>5. indexes[e.name] = e.spec \/ Dropped(e.name)
    <3>1. Ready(p)
      BY CallsApart DEF NewestInv
    <3> QED
      BY <1>7, <2>1, <3>1 DEF Ready
  <2> QED
    BY <1>3, <1>5, <2>1, <2>2, <2>4, <2>5 DEF RecordInv
<1>15. CASE Deletes(p, o)
  <2>1. /\ config' = [config EXCEPT ![m] = NoSpec] /\ indexes' = indexes
        /\ \A n : Holding(p, n) => n = m
    BY <1>7, <1>15 DEF Deletes, Holding
  <2>2. \A n \in IndexNames : n # m => config'[n] = config[n]
    BY <1>2, <2>1 DEF MaybeIndexes
  <2>3. m \in IndexNames => config'[m] = NoSpec
    BY <1>2, <2>1 DEF MaybeIndexes
  <2> QED
    BY <1>3, <1>5, <2>1, <2>2, <2>3 DEF RecordInv
<1> QED
  BY <1>9, <1>10, <1>11, <1>12, <1>13, <1>14, <1>15 DEF CallStep

\* What the calls beside it have in hand to record.
LEMMA SyncKeepsReady ==
  ASSUME NeedInv, SyncInv', NewestInv, NEW r \in Replicas, NEW p, p = sync[r],
         p \in S!Syncing, NEW o, sync' = [sync EXCEPT ![r] = o], CallStep(p, o),
         image[r] = newest, o = S!Idle => r \notin beside,
         NEW q \in Replicas, image[q] = newest, sync[q] # S!Idle, q # r
  PROVE  Ready(sync[q])'
<1>1. PICK c, e, f, m : c = sync[q] /\ f = Head(c.todo) /\ e = Head(p.todo) /\ m = Head(p.stale)
  OBVIOUS
<1>2. \A s \in Replicas : sync'[s] = IF s = r THEN o ELSE sync[s]
  BY DEF NeedInv, StartupInv, SyncInv, S!SyncTypeOK
<1>3. indexes \in MaybeIndexes
  BY DEF NeedInv, StartupInv, SyncInv, S!SyncTypeOK, S!MaybeIndexes, MaybeIndexes, S!NoSpec, NoSpec
<1>4. SUFFICES ASSUME c.phase = "record" PROVE indexes'[f.name] = f.spec \/ Dropped(f.name)'
  BY <1>1, <1>2 DEF Ready
<1>5. c \in S!Syncing
  <2>1. c.phase \in S!SyncPhases
    BY <1>4 DEF S!SyncPhases
  <2> QED
    BY <1>1, <2>1, Calls DEF NeedInv, StartupInv
<1>6. f \in S!Entries /\ Declares(newest, f.name, f.spec) /\ q \in InSync
  BY <1>1, <1>4, <1>5, InHandIs
<1>7. f.name \in IndexNames /\ newest \in 1..Len(Releases)
  BY <1>6, NewestIs DEF S!Entries
<1>8. r \in InSync /\ r \in beside
  BY <1>6, InHandIs DEF NeedInv, BesideInv
<1>9. indexes[f.name] = f.spec \/ Dropped(f.name)
  BY <1>1, <1>4 DEF NewestInv, Ready
<1>10. ASSUME NEW n, Dropped(n), ~Holding(p, n) PROVE Dropped(n)'
  <2>1. PICK s \in Replicas : Holding(sync[s], n) /\ s # r
    BY <1>10 DEF Dropped
  <2>2. sync'[s] = sync[s]
    BY <1>2, <2>1
  <2> QED
    BY <2>1, <2>2 DEF Dropped, Holding
<1>11. \A n : Holding(o, n) => Dropped(n)'
  BY <1>2 DEF Dropped, Holding
<1>12. CASE Skips(p, o) \/ Misses(p, o) \/ Finds(p, o) \/ Records(p, o)
  <2>1. UNCHANGED indexes /\ \A n : ~Holding(p, n)
    BY <1>12 DEF Skips, Misses, Finds, Records, Holding
  <2> QED
    BY <1>9, <1>10, <2>1
<1>13. CASE Drops(p, o)
  <2>1. /\ indexes' = [indexes EXCEPT ![e.name] = NoSpec]
        /\ \A n : ~Holding(p, n) /\ Holding(o, e.name)
    BY <1>1, <1>13 DEF Drops, Goes, Holding
  <2>2. f.name # e.name => indexes'[f.name] = indexes[f.name]
    BY <1>3, <1>7, <2>1 DEF MaybeIndexes
  <2> QED
    BY <1>9, <1>10, <1>11, <2>1, <2>2
<1>14. CASE DropsStale(p, o)
  <2>1. /\ indexes' = [indexes EXCEPT ![m] = NoSpec]
        /\ \A n : ~Holding(p, n) /\ Holding(o, m)
    BY <1>1, <1>14 DEF DropsStale, Goes, Holding
  <2>2. f.name # m => indexes'[f.name] = indexes[f.name]
    BY <1>3, <1>7, <2>1 DEF MaybeIndexes
  <2> QED
    BY <1>9, <1>10, <1>11, <2>1, <2>2
<1>15. CASE Creates(p, o)
  <2>1. /\ indexes' = [indexes EXCEPT ![e.name] = e.spec]
        /\ p.phase = "create" /\ \A n : Holding(p, n) => n = e.name
    BY <1>1, <1>15 DEF Creates, Holding
  <2>2. f.name # e.name => indexes'[f.name] = indexes[f.name]
    BY <1>3, <1>7, <2>1 DEF MaybeIndexes
  <2>3. Declares(newest, e.name, e.spec)
    BY <1>1, <2>1, InHandIs
  <2>4. CASE f.name = e.name
    <3>1. e.spec = f.spec
      BY <1>6, <1>7, <2>3, <2>4, OneSpecPerName
    <3>2. indexes'[f.name] = f.spec
      BY <1>3, <1>7, <2>1, <2>4, <3>1 DEF MaybeIndexes
    <3> QED
      BY <3>2
  <2> QED
    BY <1>9, <1>10, <2>1, <2>2, <2>4
<1>16. CASE Fails(p, o)
  BY <1>8, <1>16 DEF Fails
<1>17. CASE Deletes(p, o)
  <2>1. /\ indexes' = indexes /\ p.phase = "delete_stale" /\ \A n : Holding(p, n) => n = m
    BY <1>1, <1>17 DEF Deletes, Holding
  <2>2. m \notin S!DesiredNames(newest)
    BY <1>1, <2>1, InHandIs
  <2>3. f.name \in S!DesiredNames(newest)
    BY <1>6, <1>7, DeclaredEntry
  <2> QED
    BY <1>9, <1>10, <2>1, <2>2, <2>3
<1> QED
  BY <1>12, <1>13, <1>14, <1>15, <1>16, <1>17 DEF CallStep

\* What a call of the newest release does to the records: those of the release stay.
RecordsStay(v) ==
  /\ \A i \in 1..Len(Releases[v]) :
       config[Releases[v][i].name] = Releases[v][i].spec =>
         config'[Releases[v][i].name] = Releases[v][i].spec
  /\ \A n \in IndexNames \ S!DesiredNames(v) : config'[n] # NoSpec => config[n] # NoSpec

LEMMA CallRecords ==
  ASSUME NeedInv, NEW r \in Replicas, NEW p, p = sync[r], p \in S!Syncing, NEW o, CallStep(p, o),
         NEW v \in 1..Len(Releases), image[r] = v
  PROVE  RecordsStay(v)
<1>1. config \in MaybeIndexes
  BY DEF NeedInv, StartupInv, SyncInv, S!SyncTypeOK, S!MaybeIndexes, MaybeIndexes, S!NoSpec, NoSpec
<1>2. PICK e, m : e = Head(p.todo) /\ m = Head(p.stale)
  OBVIOUS
<1>3. CASE UNCHANGED config
  BY <1>3 DEF RecordsStay
<1>4. CASE Records(p, o)
  <2>1. config' = [config EXCEPT ![e.name] = e.spec] /\ p.phase = "record"
    BY <1>2, <1>4 DEF Records
  <2>2. e \in S!Entries /\ Declares(v, e.name, e.spec)
    BY <1>2, <2>1, InHandIs
  <2>3. config'[e.name] = e.spec /\ \A n \in IndexNames : n # e.name => config'[n] = config[n]
    BY <1>1, <2>1, <2>2 DEF MaybeIndexes, S!Entries
  <2>4. e.name \in S!DesiredNames(v)
    BY <2>2, DeclaredEntry
  <2>5. ASSUME NEW i \in 1..Len(Releases[v]), config[Releases[v][i].name] = Releases[v][i].spec
        PROVE  config'[Releases[v][i].name] = Releases[v][i].spec
    <3>1. PICK d : d = Releases[v][i]
      OBVIOUS
    <3>2. d \in S!Entries /\ Declares(v, d.name, d.spec)
      BY <3>1, EntriesDeclared
    <3>3. d.name \in IndexNames
      BY <3>2 DEF S!Entries
    <3>4. d.name = e.name => d.spec = e.spec
      BY <2>2, <3>2, OneSpecPerName
    <3> QED
      BY <2>3, <2>5, <3>1, <3>3, <3>4
  <2> QED
    BY <2>3, <2>4, <2>5 DEF RecordsStay
<1>5. CASE Deletes(p, o)
  <2>1. config' = [config EXCEPT ![m] = NoSpec] /\ p.phase = "delete_stale"
    BY <1>2, <1>5 DEF Deletes
  <2>2. m \in IndexNames /\ m \notin S!DesiredNames(v)
    BY <1>2, <2>1, InHandIs
  <2>3. config'[m] = NoSpec /\ \A n \in IndexNames : n # m => config'[n] = config[n]
    BY <1>1, <2>1, <2>2 DEF MaybeIndexes
  <2>4. ASSUME NEW i \in 1..Len(Releases[v]), config[Releases[v][i].name] = Releases[v][i].spec
        PROVE  config'[Releases[v][i].name] = Releases[v][i].spec
    <3>1. PICK d : d = Releases[v][i]
      OBVIOUS
    <3>2. d \in S!Entries /\ d.name \in S!DesiredNames(v)
      BY <3>1, EntriesDeclared
    <3>3. d.name \in IndexNames
      BY <3>2 DEF S!Entries
    <3> QED
      BY <2>2, <2>3, <2>4, <3>1, <3>2, <3>3
  <2> QED
    BY <2>3, <2>4 DEF RecordsStay
<1> QED
  BY <1>3, <1>4, <1>5 DEF CallStep, Skips, Misses, Drops, Creates, Fails, Finds, DropsStale

\* What the call itself has done with.
LEMMA SyncKeepsDone ==
  ASSUME NeedInv, SyncInv', NEW r \in Replicas, NEW p, p = sync[r], p \in S!Syncing, NEW o,
         CallStep(p, o), NEW v \in 1..Len(Releases), image[r] = v, Done(p, v),
         o # S!Idle
  PROVE  Done(o, v)'
<1>1. PICK e, m, t, u : e = Head(p.todo) /\ m = Head(p.stale) /\ t = p.todo /\ u = p.stale
  OBVIOUS
<1>2. RecordsStay(v)
  BY CallRecords
<1>3. /\ t \in Seq(S!Entries) /\ u \in Seq(IndexNames)
      /\ p.phase \in {"check", "drop", "create", "record"} => t # <<>>
      /\ p.phase \in {"drop_stale", "delete_stale"} => u # <<>>
      /\ p.phase \in {"find", "drop_stale", "delete_stale"} => t = <<>>
  BY <1>1, InHandIs
<1>4. \A i \in 1..Len(Releases[v]) :
        \/ config[Releases[v][i].name] = Releases[v][i].spec
        \/ \E j \in 1..Len(t) : t[j] = Releases[v][i]
  BY <1>1 DEF Done
<1>5. S!Syncing' = S!Syncing
  BY DEF S!Syncing
<1>6. config \in MaybeIndexes
  BY DEF NeedInv, StartupInv, SyncInv, S!SyncTypeOK, S!MaybeIndexes, MaybeIndexes, S!NoSpec, NoSpec
<1>7. CASE Misses(p, o) \/ Drops(p, o) \/ Creates(p, o)
  <2>1. /\ o \in S!Syncing /\ o.todo = t /\ o.phase \in {"drop", "create", "record"} /\ o # S!Synced
    BY <1>1, <1>7, CallsApart DEF Misses, Drops, Creates, Goes
  <2> QED
    BY <1>2, <1>4, <1>5, <2>1 DEF Done, RecordsStay
<1>8. CASE Skips(p, o) \/ Records(p, o)
  <2>1. /\ o \in S!Syncing /\ o.todo = Tail(t) /\ o.phase \in {"check", "find"} /\ o # S!Synced
    BY <1>1, <1>8, CallsApart DEF Skips, Records, GoesOn, Goes
  <2>2. t # <<>> /\ p.phase \in {"check", "record"}
    BY <1>3, <1>8 DEF Skips, Records
  <2>3. config'[e.name] = e.spec
    <3>1. CASE Skips(p, o)
      BY <1>1, <3>1 DEF Skips
    <3>2. CASE Records(p, o)
      <4>1. config' = [config EXCEPT ![e.name] = e.spec]
        BY <1>1, <3>2 DEF Records
      <4>2. e \in S!Entries
        BY <1>1, <1>3, <2>2, Parts
      <4> QED
        BY <1>6, <4>1, <4>2 DEF MaybeIndexes, S!Entries
    <3> QED
      BY <1>8, <3>1, <3>2
  <2>4. e = t[1] /\ \A j \in 1..Len(t) : j = 1 \/ (j - 1 \in 1..Len(Tail(t)) /\ Tail(t)[j - 1] = t[j])
    BY <1>1, <1>3, <2>2, Parts
  <2>5. ASSUME NEW i \in 1..Len(Releases[v])
        PROVE  \/ config'[Releases[v][i].name] = Releases[v][i].spec
               \/ \E j \in 1..Len(o.todo) : o.todo[j] = Releases[v][i]
    <3>1. CASE config[Releases[v][i].name] = Releases[v][i].spec
      BY <1>2, <3>1 DEF RecordsStay
    <3>2. ASSUME NEW j \in 1..Len(t), t[j] = Releases[v][i]
          PROVE  \/ config'[Releases[v][i].name] = Releases[v][i].spec
                 \/ \E k \in 1..Len(o.todo) : o.todo[k] = Releases[v][i]
      BY <2>1, <2>3, <2>4, <3>2
    <3> QED
      BY <1>4, <3>1, <3>2
  <2> QED
    BY <1>5, <2>1, <2>5 DEF Done
<1>9. ASSUME t = <<>>
      PROVE  \A i \in 1..Len(Releases[v]) : config'[Releases[v][i].name] = Releases[v][i].spec
  <2>1. \A j \in 1..Len(t) : FALSE
    BY <1>9
  <2> QED
    BY <1>2, <1>4, <2>1 DEF RecordsStay
<1>10. ASSUME NEW stale, ToStale(p, o, stale), t = <<>>, stale \in Seq(IndexNames),
              \A n \in IndexNames \ S!DesiredNames(v) : config'[n] # NoSpec =>
                \E i \in 1..Len(stale) : stale[i] = n
       PROVE  Done(o, v)'
  <2>1. CASE stale = <<>>
    <3>1. \A n \in IndexNames \ S!DesiredNames(v) : config'[n] = NoSpec
      BY <1>10, <2>1
    <3> QED
      BY <1>9, <1>10, <3>1 DEF Done
  <2>2. CASE stale # <<>>
    <3>1. o \in S!Syncing /\ o.stale = stale /\ o # S!Synced
      BY <1>10, <2>2, CallsApart DEF ToStale, Goes
    <3> QED
      BY <1>5, <1>9, <1>10, <3>1 DEF Done
  <2> QED
    BY <2>1, <2>2
<1>11. CASE Finds(p, o)
  <2>1. p.of = v /\ t = <<>> /\ UNCHANGED config
    BY <1>3, <1>11, InHandIs DEF Finds
  <2> QED
    BY <1>10, <1>11, <2>1 DEF Finds
<1>12. CASE DropsStale(p, o)
  <2>1. /\ o \in S!Syncing /\ o.stale = u /\ o.phase = "delete_stale" /\ p.phase = "drop_stale"
        /\ o # S!Synced /\ t = <<>> /\ UNCHANGED config
    BY <1>1, <1>3, <1>12, CallsApart DEF DropsStale, Goes
  <2>2. \A n \in IndexNames \ S!DesiredNames(v) : config[n] # NoSpec => \E i \in 1..Len(u) : u[i] = n
    BY <1>1, <2>1 DEF Done
  <2> QED
    BY <1>5, <1>9, <2>1, <2>2 DEF Done
<1>13. CASE Deletes(p, o)
  <2>1. /\ ToStale(p, o, Tail(u)) /\ p.phase = "delete_stale" /\ t = <<>> /\ u # <<>>
        /\ config' = [config EXCEPT ![m] = NoSpec]
    BY <1>1, <1>3, <1>13 DEF Deletes
  <2>2. \A n \in IndexNames \ S!DesiredNames(v) : config[n] # NoSpec => \E i \in 1..Len(u) : u[i] = n
    BY <1>1, <2>1 DEF Done
  <2>3. /\ m = u[1] /\ m \in IndexNames /\ Tail(u) \in Seq(IndexNames)
        /\ \A j \in 1..Len(u) : j = 1 \/ (j - 1 \in 1..Len(Tail(u)) /\ Tail(u)[j - 1] = u[j])
    BY <1>1, <1>3, <2>1, Parts
  <2>4. config'[m] = NoSpec /\ \A n \in IndexNames : n # m => config'[n] = config[n]
    BY <1>6, <2>1, <2>3 DEF MaybeIndexes
  <2>5. ASSUME NEW n \in IndexNames \ S!DesiredNames(v), config'[n] # NoSpec
        PROVE  \E i \in 1..Len(Tail(u)) : Tail(u)[i] = n
    <3>1. n # m /\ config[n] # NoSpec
      BY <2>4, <2>5
    <3>2. PICK j \in 1..Len(u) : u[j] = n
      BY <2>2, <3>1
    <3> QED
      BY <2>3, <3>1, <3>2
  <2> QED
    BY <1>10, <2>1, <2>3, <2>5
<1>14. CASE Fails(p, o)
  BY <1>14 DEF Fails
<1> QED
  BY <1>7, <1>8, <1>11, <1>12, <1>13, <1>14 DEF CallStep

LEMMA SyncKeepsUp ==
  ASSUME UpInv, NEW r \in Replicas, SyncIndexes(r)
  PROVE  UpInv'
<1>1. PICK p : p = sync[r]
  OBVIOUS
<1>2. NeedInv /\ NeedInv' /\ SyncInv /\ SyncInv' /\ StartupInv
  BY SyncKeepsNeed DEF UpInv, NeedInv, StartupInv
<1>3. S!SyncStep(r) /\ Muddle(r) /\ UNCHANGED <<release, image>>
  BY DEF SyncIndexes
<1>4. p \in S!Syncing
  BY <1>1, <1>2, <1>3, CallSteps
<1>5. PICK o \in S!Syncing \cup {S!Idle, S!Synced} :
        sync' = [sync EXCEPT ![r] = o] /\ CallStep(p, o)
  BY <1>1, <1>2, <1>3, CallSteps
<1>6. \A q \in Replicas : sync'[q] = IF q = r THEN o ELSE sync[q]
  BY <1>2, <1>5 DEF SyncInv, S!SyncTypeOK
<1>7. newest' = newest /\ newest \in Nat /\ newest \in 1..Len(Releases)
  BY <1>2, <1>3, NewestIs DEF Muddle
<1>8. config \in MaybeIndexes
  BY <1>2 DEF SyncInv, S!SyncTypeOK, S!MaybeIndexes, MaybeIndexes, S!NoSpec, NoSpec
<1>9. DeclaredInv'
  <2>1. DeclaredInv
    BY DEF UpInv
  <2>2. CASE Records(p, o)
    <3>1. PICK e : e = Head(p.todo)
      OBVIOUS
    <3>2. config' = [config EXCEPT ![e.name] = e.spec] /\ p.phase = "record"
      BY <2>2, <3>1 DEF Records
    <3>3. e \in S!Entries /\ Declares(image[r], e.name, e.spec) /\ image[r] \in 1..newest
      BY <1>1, <1>2, <1>4, <3>1, <3>2, InHandIs
    <3>4. config'[e.name] = e.spec /\ \A n \in IndexNames : n # e.name => config'[n] = config[n]
      BY <1>8, <3>2, <3>3 DEF MaybeIndexes, S!Entries
    <3> QED
      BY <1>7, <2>1, <3>3, <3>4 DEF DeclaredInv, Declares
  <2>3. CASE Deletes(p, o)
    <3>1. \A n \in IndexNames : config'[n] = config[n] \/ config'[n] = NoSpec
      BY <1>8, <2>3 DEF Deletes, MaybeIndexes
    <3> QED
      BY <1>7, <2>1, <3>1 DEF DeclaredInv, Declares
  <2>4. CASE UNCHANGED config
    BY <1>7, <2>1, <2>4, DeclaredStays
  <2> QED
    BY <1>5, <2>2, <2>3, <2>4 DEF CallStep, Skips, Misses, Drops, Creates, Fails, Finds, DropsStale
<1>10. ASSUME ~muddled' PROVE RecordInv' /\ NewestInv'
  <2>1. RecordInv /\ NewestInv /\ DeclaredInv
    BY <1>3, <1>10 DEF UpInv, Muddle
  <2>2. r \in InSync /\ image[r] <= newest /\ image[r] \in Nat
    BY <1>1, <1>2, <1>4, InHandIs, Images DEF StartupInv
  <2>3. image[r] = newest
    <3>1. ~(image[r] < newest)
      BY <1>3, <1>10, <2>2 DEF Muddle
    <3> QED
      BY <1>7, <2>2, <3>1
  <2>4. o = S!Idle => r \notin beside
    BY <1>3, <1>6, <1>10 DEF Muddle
  <2>5. RecordInv'
    BY <1>1, <1>2, <1>4, <1>5, <1>7, <2>1, <2>3, <2>4, SyncKeepsRecords
  <2>6. NewestInv'
    <3> SUFFICES ASSUME NEW q \in Replicas, image'[q] = newest', sync'[q] # S!Idle
                 PROVE  Ready(sync[q])' /\ Done(sync[q], newest)'
      BY DEF NewestInv
    <3>1. CASE q = r
      <4>1. sync'[q] = o /\ o # S!Idle
        BY <1>6, <3>1
      <4>2. Done(p, newest)
        BY <1>1, <1>4, <2>1, <2>3, CallsApart DEF NewestInv
      <4>3. Done(o, newest)'
        <5>1. PICK v \in 1..Len(Releases) : v = newest
          BY <1>7
        <5>2. Done(o, v)'
          BY <1>1, <1>2, <1>4, <1>5, <2>3, <4>1, <4>2, <5>1, SyncKeepsDone
        <5> QED
          BY <1>7, <5>1, <5>2 DEF Done
      <4>4. Ready(sync[q])'
        <5>1. ASSUME o.phase = "record" PROVE indexes'[Head(o.todo).name] = Head(o.todo).spec
          <6>1. PICK e : e = Head(p.todo)
            OBVIOUS
          <6>2. Creates(p, o)
            BY <1>5, <5>1, CallsApart DEF CallStep, Skips, Misses, Drops, Fails, Records, GoesOn, Finds,
              DropsStale, Deletes, ToStale, Goes
          <6>3. /\ indexes' = [indexes EXCEPT ![e.name] = e.spec]
                /\ o.todo = p.todo /\ p.phase = "create"
            BY <6>1, <6>2 DEF Creates, Goes
          <6>4. e \in S!Entries
            BY <1>1, <1>2, <1>4, <6>1, <6>3, InHandIs
          <6>5. indexes \in MaybeIndexes
            BY <1>2 DEF SyncInv, S!SyncTypeOK, S!MaybeIndexes, MaybeIndexes, S!NoSpec, NoSpec
          <6> QED
            BY <6>1, <6>3, <6>4, <6>5 DEF MaybeIndexes, S!Entries
        <5> QED
          BY <4>1, <5>1 DEF Ready
      <4> QED
        BY <4>1, <4>3, <4>4 DEF Done
    <3>2. CASE q # r
      <4>1. sync'[q] = sync[q] /\ image[q] = newest /\ sync[q] # S!Idle
        BY <1>3, <1>6, <1>7, <3>2
      <4>2. Ready(sync[q])'
        BY <1>1, <1>2, <1>4, <1>5, <2>1, <2>3, <2>4, <3>2, <4>1, SyncKeepsReady
      <4>3. PICK c, v : c = sync[q] /\ v = newest /\ v \in 1..Len(Releases)
        BY <1>7
      <4>4. RecordsStay(v)
        BY <1>1, <1>2, <1>4, <1>5, <2>3, <4>3, CallRecords
      <4>5. Done(c, v)
        BY <2>1, <4>1, <4>3 DEF NewestInv
      <4>6. S!Syncing' = S!Syncing /\ S!Synced' = S!Synced
        BY DEF S!Syncing, S!Synced
      <4>7. Done(sync[q], newest)'
        BY <1>7, <4>1, <4>3, <4>4, <4>5, <4>6 DEF Done, RecordsStay
      <4> QED
        BY <4>2, <4>7
    <3> QED
      BY <3>1, <3>2
  <2> QED
    BY <2>5, <2>6
<1> QED
  BY <1>2, <1>9, <1>10 DEF UpInv

LEMMA NextKeepsUp == UpInv /\ [StartupNext]_startupVars => UpInv'
<1> SUFFICES ASSUME UpInv, [StartupNext]_startupVars PROVE UpInv'
  OBVIOUS
<1> QED
  BY Others, BeginKeepsUp, SyncKeepsUp, GoneKeepsUp, OthersKeepUp DEF UpInv, NeedInv

\* What UpHasItsIndexes says of the run, for any releases, replicas and kills: when a pod
\* of the release is up and none is starting, the records are those of the release and
\* every index it declares is there, however the syncs before it were cut off, met or
\* repeated; with the exceptions the property names.
THEOREM UpHasIndexes == StartupSpec => []UpHasItsIndexes
<1>1. UpInv => UpHasItsIndexes
  <2> SUFFICES ASSUME UpInv, ~muddled, StartingUp = {}, NEW r \in Replicas, Up(r), image[r] = release
               PROVE  /\ \A i \in DOMAIN Releases[release] :
                           LET n == Releases[release][i].name
                               spec == Releases[release][i].spec
                           IN  /\ config[n] = spec
                               /\ indexes[n] = spec \/ BroughtBack(release, n, spec)
                      /\ \A n \in IndexNames \ S!DesiredNames(release) : config[n] = NoSpec
    BY DEF UpHasItsIndexes
  <2>1. NeedInv /\ StartupInv /\ RecordInv /\ NewestInv
    BY DEF UpInv, NeedInv
  <2>2. sync[r] = S!Synced /\ sync[r] # S!Idle /\ S!Synced \notin S!Syncing
    BY CallsApart DEF Up
  <2>3. newest = release
    <3>1. newest \in 1..release /\ release \in Nat /\ image[r] <= newest
      BY <2>1, <2>2, Images DEF NeedInv, CallsInv, StartupInv
    <3> QED
      BY <3>1
  <2>4. PICK v \in 1..Len(Releases) : v = release
    BY <2>1 DEF StartupInv, ImageInv
  <2>5. Done(S!Synced, v)
    BY <2>1, <2>2, <2>3, <2>4 DEF NewestInv
  <2>6. \A n : ~Dropped(n)
    <3>1. ASSUME NEW n, NEW q \in Replicas, Holding(sync[q], n) PROVE FALSE
      <4>1. sync[q].phase \in S!SyncPhases
        BY <3>1 DEF Holding, S!SyncPhases
      <4>2. sync[q] \in S!Syncing
        BY <2>1, <4>1, Calls DEF StartupInv
      <4>3. pod[q] = Serving /\ sync[q] # S!Synced
        BY <2>1, <4>2, CallsApart DEF StartupInv, ImageInv
      <4>4. Serving # Down
        BY PodsApart
      <4> QED
        BY <4>3, <4>4 DEF StartingUp, Up
    <3> QED
      BY <3>1 DEF Dropped
  <2>7. ASSUME NEW i \in 1..Len(Releases[v])
        PROVE  /\ config[Releases[v][i].name] = Releases[v][i].spec
               /\ \/ indexes[Releases[v][i].name] = Releases[v][i].spec
                  \/ BroughtBack(v, Releases[v][i].name, Releases[v][i].spec)
    <3>1. PICK n, s : n = Releases[v][i].name /\ s = Releases[v][i].spec
      OBVIOUS
    <3>2. Declares(v, n, s) /\ n \in IndexNames /\ s \in IndexSpecs
      BY <3>1, EntriesDeclared DEF S!Entries
    <3>3. config[n] = s
      BY <2>2, <2>5, <3>1 DEF Done
    <3>4. s # NoSpec
      BY <3>2, SpecsAreNotNoSpec DEF NoSpec
    <3>5. indexes[n] = s \/ GivenUp(n, s)
      BY <2>1, <2>6, <3>2, <3>3, <3>4 DEF RecordInv
    <3>6. ASSUME GivenUp(n, s) PROVE BroughtBack(v, n, s)
      <4>1. PICK u, w \in 1..newest : u <= w /\ Declares(u, n, s) /\ ~Declares(w, n, s)
        BY <3>6 DEF GivenUp
      <4>2. u # w /\ w # v
        BY <3>2, <4>1
      <4>3. u \in 1..v /\ w \in 1..v /\ u < w /\ w < v
        BY <2>3, <2>4, <4>1, <4>2
      <4> QED
        BY <4>1, <4>3 DEF BroughtBack
    <3> QED
      BY <3>1, <3>3, <3>5, <3>6
  <2>8. \A n \in IndexNames \ S!DesiredNames(v) : config[n] = NoSpec
    BY <2>2, <2>5 DEF Done
  <2>9. DOMAIN Releases[v] = 1..Len(Releases[v])
    BY EntriesDeclared
  <2> QED
    BY <2>4, <2>7, <2>8, <2>9
<1> QED
  BY <1>1, InitUp, NextKeepsUp, PTL DEF StartupSpec

=============================================================================
