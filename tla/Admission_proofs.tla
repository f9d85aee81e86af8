-------------------------- MODULE Admission_proofs --------------------------
(***************************************************************************)
(* Proofs about Admission, for any hooks, documents, ids and requests.     *)
(***************************************************************************)
EXTENDS Admission, FiniteSetTheorems, WellFoundedInduction, TLAPS

-----------------------------------------------------------------------------
(* Induction over the natural numbers, for sets, and recursive functions.  *)

\* A set of natural numbers has a least element.
LEMMA Least ==
    ASSUME NEW T, T \subseteq Nat, T # {}
    PROVE  \E n \in T : \A m \in T : n <= m
<1>1. IsWellFoundedOn(OpToRel(<, Nat), Nat)
  BY NatLessThanWellFounded
<1>2. PICK n \in T : \A m \in T : ~(<<m, n>> \in OpToRel(<, Nat))
  BY <1>1, WFMin
<1>3. \A m \in T : ~(m < n)
  BY <1>2 DEF OpToRel
<1> QED
  BY <1>3

\* Induction up to n, over the set of numbers that have a property.
LEMMA UpTo ==
    ASSUME NEW n \in Nat, NEW S, 0 \in S, \A i \in 0..(n - 1) : i \in S => i + 1 \in S
    PROVE  \A i \in 0..n : i \in S
<1> SUFFICES ASSUME (0..n) \ S # {} PROVE FALSE
  OBVIOUS
<1>1. PICK i \in (0..n) \ S : \A j \in (0..n) \ S : i <= j
  <2>1. (0..n) \ S \subseteq Nat
    OBVIOUS
  <2> QED
    BY <2>1, Least
<1>2. i # 0 /\ i - 1 \in 0..(n - 1) /\ i - 1 \in S
  BY <1>1
<1> QED
  BY <1>1, <1>2

\* A set of positions has a last one.
LEMMA LastPosition ==
    ASSUME NEW n \in Nat, NEW S, S \subseteq 1..n, S # {}
    PROVE  Max(S) \in S /\ \A i \in S : i <= Max(S)
<1> DEFINE T == {n - i : i \in S}
<1>1. T \subseteq Nat /\ T # {}
  <2>1. PICK i \in S : TRUE
    OBVIOUS
  <2>2. n - i \in T
    OBVIOUS
  <2>3. T \subseteq Nat
    OBVIOUS
  <2> QED
    BY <2>2, <2>3
<1>2. PICK m \in T : \A k \in T : m <= k
  BY <1>1, Least
<1>3. n - m \in S /\ \A i \in S : n - m >= i
  BY <1>2
<1>4. \E x \in S : \A y \in S : x >= y
  BY <1>3
<1>5. Max(S) \in S /\ \A y \in S : Max(S) >= y
  BY <1>4 DEF Max
<1> QED
  BY <1>5

\* The values of f follow from base, one by one.
Unfolds(f, n, base, step) == f[0] = base /\ \A i \in 1..n : f[i] = step[i][f[i - 1]]

\* A function that is defined by recursion over 0..n exists: D holds its values, and the
\* value at i is made by step from the value before it.
LEMMA Recursion ==
    ASSUME NEW n \in Nat, NEW D, NEW base \in D, NEW step \in [1..n -> [D -> D]]
    PROVE  \E f \in [0..n -> D] : Unfolds(f, n, base, step)
<1> DEFINE P(m, f) == f[0] = base /\ \A i \in 1..m : f[i] = step[i][f[i - 1]]
           S == {m \in 0..n : \E f \in [0..n -> D] : P(m, f)}
<1>1. 0 \in S
  <2>1. [i \in 0..n |-> base] \in [0..n -> D] /\ P(0, [i \in 0..n |-> base])
    OBVIOUS
  <2>2. \E f \in [0..n -> D] : P(0, f)
    <3> HIDE DEF P
    <3> QED
      BY <2>1
  <2> QED
    BY <2>2
<1>2. ASSUME NEW m \in 0..(n - 1), m \in S PROVE m + 1 \in S
  <2>1. PICK f \in [0..n -> D] : P(m, f)
    BY <1>2
  <2> DEFINE g == [f EXCEPT ![m + 1] = step[m + 1][f[m]]]
  <2>2. m + 1 \in 0..n /\ m \in 0..n
    OBVIOUS
  <2>3. step[m + 1][f[m]] \in D
    BY <2>2
  <2>4. g \in [0..n -> D]
    BY <2>3
  <2>5. g[0] = base
    BY <2>1, <2>2
  <2>6. ASSUME NEW i \in 1..(m + 1) PROVE g[i] = step[i][g[i - 1]]
    BY <2>1, <2>2
  <2> QED
    BY <2>2, <2>4, <2>5, <2>6
<1>3. n \in S
  <2> HIDE DEF S
  <2>1. \A m \in 0..n : m \in S
    BY <1>1, <1>2, UpTo, Zenon
  <2> QED
    BY <2>1
<1> QED
  BY <1>3 DEF Unfolds

-----------------------------------------------------------------------------
(* The operators of HookConfig.                                            *)

\* MergeArrays makes no names up.
LEMMA MergeArraysNames ==
    ASSUME NEW E, NEW a1 \in Seq(E), NEW a2 \in Seq(E)
    PROVE  MergeArrays(a1, a2) \in Seq(E)
<1> DEFINE n == Len(a2)
           Value(i, s) == IF Contains(s, a2[i]) THEN s ELSE Append(s, a2[i])
           Body(f) == [i \in 0..n |-> IF i = 0 THEN a1 ELSE Value(i, f[i - 1])]
           step == [i \in 1..n |-> [s \in Seq(E) |-> Value(i, s)]]
           m == CHOOSE f : f = Body(f)
           S == {i \in 0..n : m[i] \in Seq(E)}
<1>1. n \in Nat
  OBVIOUS
<1>2. \A i \in 1..n, s \in Seq(E) : Value(i, s) \in Seq(E)
  OBVIOUS
<1>3. step \in [1..n -> [Seq(E) -> Seq(E)]]
  <2> HIDE DEF Value, n
  <2> QED
    BY <1>2
<1>4. PICK f \in [0..n -> Seq(E)] : Unfolds(f, n, a1, step)
  <2> HIDE DEF step, n
  <2> QED
    BY <1>1, <1>3, Recursion
<1>5. f = Body(f)
  <2>1. ASSUME NEW i \in 0..n PROVE f[i] = IF i = 0 THEN a1 ELSE Value(i, f[i - 1])
    <3> HIDE DEF Value, n
    <3>1. CASE i = 0
      BY <1>4, <3>1 DEF Unfolds
    <3>2. CASE i # 0
      <4>1. i \in 1..n /\ i - 1 \in 0..n
        BY <1>1, <3>2
      <4>2. f[i] = step[i][f[i - 1]]
        BY <1>4, <4>1, <3>2 DEF Unfolds
      <4> QED
        BY <4>1, <4>2, <3>2
    <3> QED
      BY <3>1, <3>2
  <2>2. f = [i \in 0..n |-> f[i]]
    BY <1>4
  <2> HIDE DEF Value, n
  <2> QED
    BY <2>1, <2>2
<1>6. m = Body(m)
  <2> HIDE DEF Body
  <2> QED
    BY <1>5
<1>7. MergeArrays(a1, a2) = m[n]
  BY DEF MergeArrays
<1> HIDE DEF m, n, Value
<1>8. 0 \in S
  BY <1>1, <1>6
<1>9. ASSUME NEW i \in 0..(n - 1), i \in S PROVE i + 1 \in S
  <2>1. i + 1 \in 1..n /\ i + 1 \in 0..n /\ i + 1 # 0 /\ (i + 1) - 1 = i
    BY <1>1
  <2>2. m[i + 1] = Value(i + 1, m[i])
    BY <1>6, <2>1
  <2> QED
    BY <2>1, <2>2, <1>2, <1>9
<1>10. \A i \in 0..n : i \in S
  <2> HIDE DEF S
  <2> QED
    BY <1>1, <1>8, <1>9, UpTo, Zenon
<1>11. n \in 0..n
  BY <1>1
<1>12. n \in S
  BY <1>10, <1>11
<1> QED
  BY <1>7, <1>12

\* Kept keeps elements of the sequence.
LEMMA KeptElements ==
    ASSUME NEW E, NEW w \in Seq(E), NEW I
    PROVE  Kept(w, I) \in Seq(E)
<1> DEFINE n == Len(w)
           Value(i, s) == IF i \in I THEN Append(s, w[i]) ELSE s
           Body(f) == [i \in 0..n |-> IF i = 0 THEN <<>> ELSE Value(i, f[i - 1])]
           step == [i \in 1..n |-> [s \in Seq(E) |-> Value(i, s)]]
           m == CHOOSE f : f = Body(f)
           S == {i \in 0..n : m[i] \in Seq(E)}
<1>1. n \in Nat
  OBVIOUS
<1>2. \A i \in 1..n, s \in Seq(E) : Value(i, s) \in Seq(E)
  OBVIOUS
<1>3. step \in [1..n -> [Seq(E) -> Seq(E)]]
  <2> HIDE DEF Value, n
  <2> QED
    BY <1>2
<1>4. PICK f \in [0..n -> Seq(E)] : Unfolds(f, n, <<>>, step)
  <2> HIDE DEF step, n
  <2>1. <<>> \in Seq(E)
    OBVIOUS
  <2> QED
    BY <1>1, <1>3, <2>1, Recursion
<1>5. f = Body(f)
  <2>1. ASSUME NEW i \in 0..n PROVE f[i] = IF i = 0 THEN <<>> ELSE Value(i, f[i - 1])
    <3> HIDE DEF Value, n
    <3>1. CASE i = 0
      BY <1>4, <3>1 DEF Unfolds
    <3>2. CASE i # 0
      <4>1. i \in 1..n /\ i - 1 \in 0..n
        BY <1>1, <3>2
      <4>2. f[i] = step[i][f[i - 1]]
        BY <1>4, <4>1, <3>2 DEF Unfolds
      <4> QED
        BY <4>1, <4>2, <3>2
    <3> QED
      BY <3>1, <3>2
  <2>2. f = [i \in 0..n |-> f[i]]
    BY <1>4
  <2> HIDE DEF Value, n
  <2> QED
    BY <2>1, <2>2
<1>6. m = Body(m)
  <2> HIDE DEF Body
  <2> QED
    BY <1>5
<1>7. Kept(w, I) = m[n]
  BY DEF Kept
<1> HIDE DEF m, n, Value
<1>8. 0 \in S
  BY <1>1, <1>6
<1>9. ASSUME NEW i \in 0..(n - 1), i \in S PROVE i + 1 \in S
  <2>1. i + 1 \in 1..n /\ i + 1 \in 0..n /\ i + 1 # 0 /\ (i + 1) - 1 = i
    BY <1>1
  <2>2. m[i + 1] = Value(i + 1, m[i])
    BY <1>6, <2>1
  <2> QED
    BY <2>1, <2>2, <1>2, <1>9
<1>10. \A i \in 0..n : i \in S
  <2> HIDE DEF S
  <2> QED
    BY <1>1, <1>8, <1>9, UpTo, Zenon
<1>11. n \in 0..n
  BY <1>1
<1>12. n \in S
  BY <1>10, <1>11
<1> QED
  BY <1>7, <1>12

\* The names of snapshots a configuration has.
NamesIn(kubes) == {kubes[i].name : i \in DOMAIN kubes}

\* The snapshots of a group exist.
LEMMA GroupSnapshotsNames ==
    ASSUME NEW kubes, IsSequence(kubes), NEW g
    PROVE  GroupSnapshots(kubes, g) \in Seq(NamesIn(kubes))
<1> DEFINE I == {i \in DOMAIN kubes : kubes[i].group = g}
           K == Kept(kubes, I)
<1>1. K \in Seq(ToSet(kubes))
  BY KeptElements DEF IsSequence
<1>2. GroupSnapshots(kubes, g) = [i \in DOMAIN K |-> K[i].name]
  BY DEF GroupSnapshots
<1> HIDE DEF K
<1>3. \A i \in 1..Len(K) : K[i].name \in NamesIn(kubes)
  BY <1>1 DEF ToSet, NamesIn
<1>4. DOMAIN K = 1..Len(K) /\ Len(K) \in Nat
  BY <1>1
<1>5. [i \in 1..Len(K) |-> K[i].name] \in Seq(NamesIn(kubes))
  BY <1>3, <1>4
<1> QED
  BY <1>2, <1>4, <1>5

\* A binding is a record with a name and names of snapshots, which can be replaced.
IsBinding(b) == \A v : [b EXCEPT !.includes = v].name = b.name /\ [b EXCEPT !.includes = v].includes = v

\* Grouping keeps the names of bindings, and adds no names of snapshots that do not exist.
LEMMA GroupedBindings ==
    ASSUME NEW kubes, IsSequence(kubes), NEW bindings, IsSequence(bindings),
           \A i \in DOMAIN bindings : IsBinding(bindings[i]) /\ bindings[i].includes \in Seq(NamesIn(kubes))
    PROVE  /\ DOMAIN Grouped(kubes, bindings) = DOMAIN bindings
           /\ \A i \in DOMAIN bindings : /\ Grouped(kubes, bindings)[i].name = bindings[i].name
                                         /\ Grouped(kubes, bindings)[i].includes \in Seq(NamesIn(kubes))
<1> DEFINE Merged(i) == MergeArrays(bindings[i].includes, GroupSnapshots(kubes, bindings[i].group))
<1>1. DOMAIN Grouped(kubes, bindings) = DOMAIN bindings
  BY DEF Grouped
<1>2. ASSUME NEW i \in DOMAIN bindings
      PROVE  /\ Grouped(kubes, bindings)[i].name = bindings[i].name
             /\ Grouped(kubes, bindings)[i].includes \in Seq(NamesIn(kubes))
  <2>1. Merged(i) \in Seq(NamesIn(kubes))
    BY GroupSnapshotsNames, MergeArraysNames
  <2>2. CASE bindings[i].group = NoGroup
    <3>1. Grouped(kubes, bindings)[i] = bindings[i]
      BY <2>2 DEF Grouped
    <3> QED
      BY <3>1
  <2>3. CASE bindings[i].group # NoGroup
    <3>1. Grouped(kubes, bindings)[i] = [bindings[i] EXCEPT !.includes = Merged(i)]
      BY <2>3 DEF Grouped
    <3> HIDE DEF Merged
    <3> QED
      BY <2>1, <3>1 DEF IsBinding
  <2> QED
    BY <2>2, <2>3
<1> QED
  BY <1>1, <1>2

\* Names that pass the check exist.
LEMMA CheckedNames ==
    ASSUME NEW kubes, NEW part, IsSequence(part), \A b \in ToSet(part) : IsSequence(b.includes), Checked(kubes, part),
           NEW i \in DOMAIN part
    PROVE  part[i].includes \in Seq(NamesIn(kubes))
<1> DEFINE inc == part[i].includes
<1>1. part[i] \in ToSet(part)
  BY DEF ToSet
<1>2. IsSequence(inc) /\ CheckIncludeSnapshots(kubes, inc)
  BY <1>1 DEF Checked
<1> HIDE DEF inc
<1>3. ASSUME NEW n \in ToSet(inc) PROVE n \in NamesIn(kubes)
  <2>1. Cardinality({k \in DOMAIN kubes : kubes[k].name = n}) = 1
    BY <1>2 DEF CheckIncludeSnapshots
  <2>2. {k \in DOMAIN kubes : kubes[k].name = n} # {}
    BY <2>1, FS_EmptySet
  <2> QED
    BY <2>2 DEF NamesIn
<1>4. inc \in Seq(NamesIn(kubes))
  BY <1>2, <1>3 DEF IsSequence
<1> QED
  BY <1>4 DEF inc

LEMMA BindingShapes ==
    \A b : IsBinding(KubernetesV1(b)) /\ IsBinding(ScheduleV1(b)) /\ IsBinding(Webhook(b))
BY DEF IsBinding, KubernetesV1, ScheduleV1, Webhook

\* A function over the positions of a sequence is a sequence.
LEMMA SequenceLike ==
    ASSUME NEW s, NEW f, IsSequence(s), f = [i \in DOMAIN s |-> f[i]]
    PROVE  IsSequence(f)
<1>1. DOMAIN s = 1..Len(s) /\ Len(s) \in Nat
  BY DEF IsSequence
<1>2. f = [i \in 1..Len(s) |-> f[i]]
  BY <1>1
<1>3. \A i \in 1..Len(s) : f[i] \in ToSet(f)
  BY <1>2 DEF ToSet
<1>4. [i \in 1..Len(s) |-> f[i]] \in Seq(ToSet(f))
  BY <1>1, <1>3
<1> QED
  BY <1>2, <1>4 DEF IsSequence

\* What is known of the bindings of a type: a sequence, and snapshots that exist.
Sound(bindings, names) ==
    IsSequence(bindings) /\ \A i \in DOMAIN bindings : bindings[i].includes \in Seq(names)

LEMMA GroupedSound ==
    ASSUME NEW kubes, IsSequence(kubes), NEW bindings, Sound(bindings, NamesIn(kubes)),
           \A i \in DOMAIN bindings : IsBinding(bindings[i])
    PROVE  Sound(Grouped(kubes, bindings), NamesIn(kubes)) /\ NamesIn(Grouped(kubes, bindings)) = NamesIn(bindings)
<1> DEFINE G == Grouped(kubes, bindings)
<1>1. /\ DOMAIN G = DOMAIN bindings
      /\ \A i \in DOMAIN bindings : G[i].name = bindings[i].name /\ G[i].includes \in Seq(NamesIn(kubes))
  BY GroupedBindings DEF Sound
<1>2. IsSequence(G)
  <2>1. G = [i \in DOMAIN bindings |-> G[i]]
    BY DEF Grouped
  <2> HIDE DEF G
  <2> QED
    BY <2>1, SequenceLike DEF Sound
<1> HIDE DEF G
<1>3. Sound(G, NamesIn(kubes))
  BY <1>1, <1>2 DEF Sound
<1>4. NamesIn(G) = NamesIn(bindings)
  BY <1>1 DEF NamesIn
<1> QED
  BY <1>3, <1>4 DEF G

\* A document whose bindings are arrays, as AdmissionAssumption has it.
HasArrays(doc) ==
    \A part \in {doc.kubernetes, doc.schedule, doc.validating, doc.mutating, doc.conversion} :
        IsSequence(part) /\ \A b \in ToSet(part) : IsSequence(b.includes)

GoodConfig(cfg) == \A t \in BindingTypes \ {"onStartup"} : Sound(cfg[t], NamesIn(cfg["kubernetes"]))

LEMMA ConfigV1Sound ==
    ASSUME NEW doc, HasArrays(doc), Version(doc) # "v0", GoodV1(doc)
    PROVE  GoodConfig(ConfigV1(doc))
<1> DEFINE kubes == KubernetesBindings(doc)
           schedules == ScheduleBindings(doc)
           N == NamesIn(kubes)
<1>1. \A part \in {doc.kubernetes, doc.schedule, doc.validating, doc.mutating, doc.conversion} :
         /\ IsSequence(part) /\ \A b \in ToSet(part) : IsSequence(b.includes)
         /\ \A i \in DOMAIN part : part[i].includes \in Seq(N)
  <2>1. ASSUME NEW part \in {doc.kubernetes, doc.schedule, doc.validating, doc.mutating, doc.conversion}
        PROVE  /\ IsSequence(part) /\ \A b \in ToSet(part) : IsSequence(b.includes)
               /\ \A i \in DOMAIN part : part[i].includes \in Seq(N)
    <3>1. IsSequence(part) /\ \A b \in ToSet(part) : IsSequence(b.includes)
      BY DEF HasArrays
    <3>2. Checked(kubes, part)
      BY DEF GoodV1
    <3> HIDE DEF kubes
    <3> QED
      BY <3>1, <3>2, CheckedNames
  <2> QED
    BY <2>1
<1>2. /\ kubes = [i \in DOMAIN doc.kubernetes |-> KubernetesV1(doc.kubernetes[i])]
      /\ schedules = [i \in DOMAIN doc.schedule |-> ScheduleV1(doc.schedule[i])]
  BY DEF KubernetesBindings, ScheduleBindings
<1> HIDE DEF kubes, schedules
<1>3. IsSequence(kubes) /\ IsSequence(schedules)
  <2>1. IsSequence(doc.kubernetes) /\ IsSequence(doc.schedule)
    BY <1>1
  <2>2. kubes = [i \in DOMAIN doc.kubernetes |-> kubes[i]] /\ schedules = [i \in DOMAIN doc.schedule |-> schedules[i]]
    BY <1>2
  <2> QED
    BY <2>1, <2>2, SequenceLike
<1>4. Sound(kubes, N) /\ \A i \in DOMAIN kubes : IsBinding(kubes[i])
  <2>1. \A i \in DOMAIN kubes : kubes[i].includes = doc.kubernetes[i].includes /\ IsBinding(kubes[i])
    BY <1>2, BindingShapes DEF KubernetesV1
  <2>2. DOMAIN kubes = DOMAIN doc.kubernetes
    BY <1>2
  <2> QED
    BY <1>1, <1>3, <2>1, <2>2 DEF Sound
<1>5. Sound(schedules, N) /\ \A i \in DOMAIN schedules : IsBinding(schedules[i])
  <2>1. \A i \in DOMAIN schedules : schedules[i].includes = doc.schedule[i].includes /\ IsBinding(schedules[i])
    BY <1>2, BindingShapes DEF ScheduleV1
  <2>2. DOMAIN schedules = DOMAIN doc.schedule
    BY <1>2
  <2> QED
    BY <1>1, <1>3, <2>1, <2>2 DEF Sound
<1>6. ASSUME NEW part \in {doc.validating, doc.mutating, doc.conversion}
      PROVE  Sound(WebhookBindings(part), N) /\ \A i \in DOMAIN part : IsBinding(WebhookBindings(part)[i])
  <2> DEFINE W == WebhookBindings(part)
  <2>1. W = [i \in DOMAIN part |-> Webhook(part[i])]
    BY DEF WebhookBindings
  <2> HIDE DEF W
  <2>2. W = [i \in DOMAIN part |-> W[i]]
    BY <2>1
  <2>3. IsSequence(part) /\ \A i \in DOMAIN part : part[i].includes \in Seq(N)
    BY <1>1
  <2>4. IsSequence(W)
    BY <2>2, <2>3, SequenceLike
  <2>5. \A i \in DOMAIN part : W[i].includes = part[i].includes /\ IsBinding(W[i])
    BY <2>1, BindingShapes DEF Webhook
  <2>6. Sound(W, N)
    BY <2>1, <2>3, <2>4, <2>5 DEF Sound
  <2> QED
    BY <2>5, <2>6 DEF W
<1>7. \A part \in {doc.validating, doc.mutating, doc.conversion} : DOMAIN WebhookBindings(part) = DOMAIN part
  BY DEF WebhookBindings
<1>8. /\ Sound(Grouped(kubes, kubes), N) /\ NamesIn(Grouped(kubes, kubes)) = N
      /\ Sound(Grouped(kubes, schedules), N)
      /\ \A part \in {doc.validating, doc.mutating, doc.conversion} : Sound(Grouped(kubes, WebhookBindings(part)), N)
  <2>1. Sound(Grouped(kubes, kubes), N) /\ NamesIn(Grouped(kubes, kubes)) = N
    BY <1>3, <1>4, GroupedSound
  <2>2. Sound(Grouped(kubes, schedules), N)
    BY <1>3, <1>5, GroupedSound
  <2>3. ASSUME NEW part \in {doc.validating, doc.mutating, doc.conversion}
        PROVE  Sound(Grouped(kubes, WebhookBindings(part)), N)
    <3>1. Sound(WebhookBindings(part), N) /\ \A i \in DOMAIN WebhookBindings(part) : IsBinding(WebhookBindings(part)[i])
      BY <1>6, <1>7
    <3> QED
      BY <1>3, <3>1, GroupedSound
  <2> QED
    BY <2>1, <2>2, <2>3
<1> DEFINE cfg == ConfigV1(doc)
<1>9. /\ cfg["kubernetes"] = Grouped(kubes, kubes)
      /\ cfg["schedule"] = Grouped(kubes, schedules)
      /\ cfg["kubernetesValidating"] = Grouped(kubes, WebhookBindings(doc.validating))
      /\ cfg["kubernetesMutating"] = Grouped(kubes, WebhookBindings(doc.mutating))
      /\ cfg["kubernetesCustomResourceConversion"] = Grouped(kubes, WebhookBindings(doc.conversion))
  BY DEF ConfigV1, kubes, schedules
<1> HIDE DEF cfg, N
<1>10. ASSUME NEW t \in BindingTypes \ {"onStartup"} PROVE Sound(cfg[t], NamesIn(cfg["kubernetes"]))
  BY <1>8, <1>9 DEF BindingTypes
<1> QED
  BY <1>10 DEF GoodConfig, cfg

LEMMA ConfigV0Sound ==
    ASSUME NEW doc, HasArrays(doc), Version(doc) = "v0"
    PROVE  GoodConfig(ConfigV0(doc))
<1> DEFINE kubes == KubernetesBindings(doc)
           schedules == ScheduleBindings(doc)
           N == NamesIn(kubes)
           cfg == ConfigV0(doc)
<1>1. /\ kubes = [i \in DOMAIN doc.kubernetes |-> KubernetesV0(doc.kubernetes[i])]
      /\ schedules = [i \in DOMAIN doc.schedule |-> ScheduleV0(doc.schedule[i])]
  BY DEF KubernetesBindings, ScheduleBindings
<1>2. /\ cfg["kubernetes"] = kubes
      /\ cfg["schedule"] = schedules
      /\ cfg["kubernetesValidating"] = <<>>
      /\ cfg["kubernetesMutating"] = <<>>
      /\ cfg["kubernetesCustomResourceConversion"] = <<>>
  BY DEF ConfigV0
<1> HIDE DEF kubes, schedules, cfg, N
<1>3. IsSequence(kubes) /\ IsSequence(schedules)
  <2>1. IsSequence(doc.kubernetes) /\ IsSequence(doc.schedule)
    BY DEF HasArrays
  <2>2. kubes = [i \in DOMAIN doc.kubernetes |-> kubes[i]] /\ schedules = [i \in DOMAIN doc.schedule |-> schedules[i]]
    BY <1>1
  <2> QED
    BY <2>1, <2>2, SequenceLike
<1>4. <<>> \in Seq(N)
  OBVIOUS
<1>5. Sound(kubes, N) /\ Sound(schedules, N)
  <2>1. \A i \in DOMAIN kubes : kubes[i].includes = <<>>
    BY <1>1 DEF KubernetesV0
  <2>2. \A i \in DOMAIN schedules : schedules[i].includes = <<>>
    BY <1>1 DEF ScheduleV0
  <2> QED
    BY <1>3, <1>4, <2>1, <2>2 DEF Sound
<1>6. Sound(<<>>, N)
  BY DEF Sound, IsSequence
<1>7. ASSUME NEW t \in BindingTypes \ {"onStartup"} PROVE Sound(cfg[t], NamesIn(cfg["kubernetes"]))
  <2>1. N = NamesIn(cfg["kubernetes"])
    BY <1>2 DEF N
  <2> QED
    BY <1>2, <1>5, <1>6, <2>1 DEF BindingTypes
<1> QED
  BY <1>7 DEF GoodConfig, cfg

\* A hook that is loaded has a sound configuration.
LEMMA LoadedSound ==
    ASSUME NEW doc \in Documents, Loads(doc)
    PROVE  GoodConfig(Config(doc))
<1>1. HasArrays(doc)
  BY AdmissionAssumption DEF HasArrays, Loads, Unreadable
<1>2. CASE Version(doc) = "v0"
  BY <1>1, <1>2, ConfigV0Sound DEF Config
<1>3. CASE Version(doc) # "v0"
  <2>1. GoodV1(doc)
    BY <1>3 DEF Loads, Accepted
  <2> QED
    BY <1>1, <1>3, <2>1, ConfigV1Sound DEF Config
<1> QED
  BY <1>2, <1>3

\* Sound configurations include only snapshots that exist.
LEMMA SoundIncludes ==
    ASSUME NEW cfg, GoodConfig(cfg), NEW b \in AllBindings(cfg), NEW n \in ToSet(b.includes)
    PROVE  \E k \in ToSet(cfg.kubernetes) : k.name = n
<1>1. PICK t \in BindingTypes \ {"onStartup"} : b \in ToSet(cfg[t])
  BY DEF AllBindings
<1>2. PICK i \in DOMAIN cfg[t] : b = cfg[t][i]
  BY <1>1 DEF ToSet
<1>3. b.includes \in Seq(NamesIn(cfg["kubernetes"]))
  BY <1>2 DEF GoodConfig, Sound
<1>4. n \in NamesIn(cfg["kubernetes"])
  BY <1>3 DEF ToSet
<1>5. PICK k \in DOMAIN cfg["kubernetes"] : n = cfg["kubernetes"][k].name
  BY <1>4 DEF NamesIn
<1> QED
  BY <1>5 DEF ToSet

-----------------------------------------------------------------------------
(* The inductive invariant.                                                *)

IndexOK(ix) ==
    /\ ix.names \in Seq(Hooks)
    /\ DOMAIN ix.hooksByName \subseteq Hooks
    /\ \A h \in DOMAIN ix.hooksByName : GoodConfig(ix.hooksByName[h])
    /\ \A t \in WebhookTypes : ix.hooksInOrder[t] \in Seq(DOMAIN ix.hooksByName)

NoLinks == [h \in Hooks |-> Nothing]
LinksNow == [h \in Hooks |-> IF Contains(HooksToEnable, h) THEN LinksOf(h) ELSE Nothing]
ResourcesNow ==
    [t \in WebhookTypes |->
        [id \in UNION {IdsOf(GetHook(h)[t]) : h \in ToSet(HooksToEnable)} |-> Entry(HooksToEnable, t, id)]]

\* Hooks have bindings with an id; what RegistrantAnswers and FailClosed say of one request.
DeclaredBy(h, id) == \E t \in WebhookTypes : \E b \in ToSet(GetHook(h)[t]) : SafeURLString[b.name] = id
AnswersAsRegistered(r) ==
    /\ r.id \in DOMAIN resources[r.type]
    /\ r.id \notin DOMAIN resources[CHOOSE u \in WebhookTypes : u # r.type]
    => /\ r.hook = resources[r.type][r.id].hook
       /\ NamesUnique(r.hook, r.type)
          => r.name = resources[r.type][r.id].name /\ r.includes = resources[r.type][r.id].includes

RequestOK(r) ==
    /\ r.at \in {"route", "run", "answered"} => r.type \in WebhookTypes
    /\ r.at = "run" => DeclaredBy(r.hook, r.id) /\ AnswersAsRegistered(r)
    /\ r.at = "answered" /\ r.allowed => \E h \in r.hook : DeclaredBy(h, r.id)

\* Hooks are loaded into indexes of their own; until they are enabled nothing is linked and
\* nobody is served; then links and resources are those of the hooks in the index.
Loaded == documents \in [Hooks -> Documents] /\ IndexOK(loaded) /\ IndexOK(index)
Quiet == phase \in {"load", "enable"} => links = NoLinks /\ \A q \in Requests : request[q] = Idle
Linked == links = NoLinks \/ (links = LinksNow /\ resources = ResourcesNow)
Served == request = [q \in Requests |-> request[q]] /\ \A q \in Requests : RequestOK(request[q])
Inv == Loaded /\ Quiet /\ Linked /\ Served

-----------------------------------------------------------------------------
(* The routing of a review.                                                *)

\* The hooks asked are in the index.
LEMMA AskedAreIndexed ==
    ASSUME Loaded
    PROVE  /\ AskedHooks \in Seq(DOMAIN index.hooksByName)
           /\ AskedHooks = HooksToEnable
           /\ DOMAIN AskedHooks = 1..Len(AskedHooks) /\ Len(AskedHooks) \in Nat
           /\ \A i \in DOMAIN AskedHooks : AskedHooks[i] \in DOMAIN index.hooksByName /\ AskedHooks[i] \in Hooks
<1>1. /\ GetHooksInOrder(Validating) \in Seq(DOMAIN index.hooksByName)
      /\ GetHooksInOrder(Mutating) \in Seq(DOMAIN index.hooksByName)
      /\ DOMAIN index.hooksByName \subseteq Hooks
  BY DEF Loaded, IndexOK, GetHooksInOrder, WebhookTypes
<1>2. AskedHooks = HooksToEnable
  BY DEF AskedHooks, HooksToEnable
<1>3. AskedHooks \in Seq(DOMAIN index.hooksByName)
  BY <1>1 DEF AskedHooks
<1> QED
  BY <1>1, <1>2, <1>3

\* When some hook can handle an id, links and resources are those of the index.
LEMMA HandledIsLinked ==
    ASSUME Loaded, Linked, NEW id, HandlersOf(id) # {}
    PROVE  links = LinksNow /\ resources = ResourcesNow
<1>1. PICK i \in DOMAIN AskedHooks : CanHandleEvent(AskedHooks[i], id)
  BY DEF HandlersOf
<1>2. AskedHooks[i] \in Hooks
  BY AskedAreIndexed
<1>3. links # NoLinks
  BY <1>1, <1>2 DEF CanHandleEvent, NoLinks, Nothing
<1> QED
  BY <1>3 DEF Linked

\* The position of the last binding with an id.
LEMMA LastWithPosition ==
    ASSUME NEW bs, IsSequence(bs), NEW id \in IdsOf(bs)
    PROVE  \E i \in DOMAIN bs : LastWith(bs, id) = bs[i] /\ SafeURLString[bs[i].name] = id
<1> DEFINE S == {i \in DOMAIN bs : SafeURLString[bs[i].name] = id}
<1>1. S # {}
  BY DEF IdsOf, ToSet
<1>2. DOMAIN bs = 1..Len(bs) /\ Len(bs) \in Nat
  BY DEF IsSequence
<1>3. Max(S) \in S
  <2>1. S \subseteq 1..Len(bs)
    BY <1>2
  <2> HIDE DEF S
  <2> QED
    BY <1>1, <1>2, <2>1, LastPosition
<1>4. LastWith(bs, id) = bs[Max(S)]
  BY DEF LastWith
<1> QED
  BY <1>3, <1>4

\* With names that are unique, the first binding with a name is the one that has it.
LEMMA IncludesOfUnique ==
    ASSUME NEW h, NEW link, IsSequence(GetHook(h)[link.type]), ValidWebhooks(GetHook(h)[link.type]),
           NEW i \in DOMAIN GetHook(h)[link.type], GetHook(h)[link.type][i].name = link.name
    PROVE  IncludesFor(h, link) = GetHook(h)[link.type][i].includes
<1> DEFINE bs == GetHook(h)[link.type]
           P(k) == bs[k].name = link.name /\ \A j \in 1..(k - 1) : bs[j].name # link.name
<1>1. DOMAIN bs = 1..Len(bs) /\ Len(bs) \in Nat
  BY DEF IsSequence
<1>2. \A j \in DOMAIN bs : bs[j].name = link.name => j = i
  BY DEF ValidWebhooks
<1>3. IncludesFor(h, link) = bs[CHOOSE k \in DOMAIN bs : P(k)].includes
  BY DEF IncludesFor
<1>4. P(i)
  BY <1>1, <1>2
<1>5. \A k \in DOMAIN bs : P(k) => k = i
  BY <1>2
<1>6. (CHOOSE k \in DOMAIN bs : P(k)) = i
  <2> HIDE DEF P, bs
  <2>1. i \in DOMAIN bs
    BY DEF bs
  <2> QED
    BY <2>1, <1>4, <1>5
<1> QED
  BY <1>3, <1>6

\* The hook a review is given to has a binding with its id, and is the one the resource has
\* for the id: links and resources were made of the same hooks in the same order.
LEMMA Routing ==
    ASSUME Loaded, Linked, NEW t \in WebhookTypes, NEW id, HandlersOf(id) # {},
           NEW h, h = AskedHooks[Max(HandlersOf(id))], NEW link, link = links[h][id],
           NEW r, r.type = t, r.id = id, r.hook = h, r.name = link.name, r.includes = IncludesFor(h, link)
    PROVE  DeclaredBy(h, id) /\ AnswersAsRegistered(r)
<1> DEFINE order == AskedHooks
           cfg(i) == GetHook(order[i])
           last == Max(HandlersOf(id))
<1>1. /\ order = HooksToEnable
      /\ DOMAIN order = 1..Len(order) /\ Len(order) \in Nat
      /\ \A i \in DOMAIN order : order[i] \in DOMAIN index.hooksByName /\ order[i] \in Hooks
  BY AskedAreIndexed
<1>2. links = LinksNow /\ resources = ResourcesNow
  BY HandledIsLinked
<1>3. last \in HandlersOf(id)
  <2>1. HandlersOf(id) \subseteq 1..Len(order)
    BY <1>1 DEF HandlersOf
  <2> QED
    BY <1>1, <2>1, LastPosition
<1>4. last \in DOMAIN order /\ CanHandleEvent(order[last], id) /\ h = order[last]
  BY <1>3 DEF HandlersOf
<1>5. \A i \in DOMAIN order : links[order[i]] = LinksOf(order[i])
  <2>1. \A i \in DOMAIN order : Contains(HooksToEnable, order[i])
    BY <1>1 DEF Contains
  <2> QED
    BY <1>1, <1>2, <2>1 DEF LinksNow
<1>6. \A i \in DOMAIN order : CanHandleEvent(order[i], id) <=> id \in IdsOf(cfg(i)[Validating]) \cup IdsOf(cfg(i)[Mutating])
  BY <1>5 DEF CanHandleEvent, LinksOf
<1>7. \A i \in DOMAIN order : \A u \in WebhookTypes : IsSequence(cfg(i)[u])
  <2>1. \A i \in DOMAIN order : GoodConfig(cfg(i))
    BY <1>1 DEF Loaded, IndexOK, GetHook
  <2> QED
    BY <2>1 DEF GoodConfig, Sound, WebhookTypes, BindingTypes, Validating, Mutating
<1>8. DeclaredBy(h, id)
  BY <1>4, <1>6 DEF DeclaredBy, IdsOf, WebhookTypes
<1>9. ASSUME id \in DOMAIN resources[t], id \notin DOMAIN resources[CHOOSE u \in WebhookTypes : u # t]
      PROVE  /\ h = resources[t][id].hook
             /\ NamesUnique(h, t) => link.name = resources[t][id].name /\ IncludesFor(h, link) = resources[t][id].includes
  <2> DEFINE other == CHOOSE u \in WebhookTypes : u # t
             best == LastWith(GetHook(h)[t], id)
  <2>1. other \in WebhookTypes /\ other # t
    BY DEF WebhookTypes, Validating, Mutating
  <2> HIDE DEF other
  <2>2. \A u \in WebhookTypes : DOMAIN resources[u] = UNION {IdsOf(GetHook(g)[u]) : g \in ToSet(HooksToEnable)}
    BY <1>2 DEF ResourcesNow
  <2>3. \A i \in DOMAIN order : id \notin IdsOf(cfg(i)[other])
    <3>1. id \notin DOMAIN resources[other]
      BY <1>9 DEF other
    <3>2. \A i \in DOMAIN order : order[i] \in ToSet(HooksToEnable)
      BY <1>1 DEF ToSet
    <3> QED
      BY <2>1, <2>2, <3>1, <3>2
  <2>4. \A i \in DOMAIN order : CanHandleEvent(order[i], id) <=> id \in IdsOf(cfg(i)[t])
    BY <1>6, <2>1, <2>3 DEF WebhookTypes
  <2>5. HandlersOf(id) = {i \in DOMAIN HooksToEnable : id \in IdsOf(GetHook(HooksToEnable[i])[t])}
    BY <1>1, <2>4 DEF HandlersOf
  <2>6. resources[t][id] = Entry(HooksToEnable, t, id)
    BY <1>2, <1>9 DEF ResourcesNow
  <2>7. Entry(HooksToEnable, t, id) = [hook |-> h, name |-> best.name, includes |-> best.includes]
    BY <1>1, <1>4, <2>5 DEF Entry
  <2>8. id \in IdsOf(GetHook(h)[t]) /\ id \notin IdsOf(GetHook(h)[other]) /\ IsSequence(GetHook(h)[t])
    BY <1>4, <1>7, <2>3, <2>4
  <2>9. link.type = t /\ link.name = best.name
    <3>1. link = LinksOf(h)[id]
      BY <1>4, <1>5
    <3>2. (IF id \in IdsOf(GetHook(h)[Mutating]) THEN Mutating ELSE Validating) = t
      BY <2>1, <2>8 DEF WebhookTypes
    <3>3. link = [type |-> t, name |-> best.name]
      BY <2>1, <2>8, <3>1, <3>2 DEF LinksOf, WebhookTypes
    <3> QED
      BY <3>3
  <2>10. ASSUME NamesUnique(h, t) PROVE IncludesFor(h, link) = best.includes
    <3>1. PICK i \in DOMAIN GetHook(h)[t] : best = GetHook(h)[t][i]
      BY <2>8, LastWithPosition
    <3> QED
      BY <2>8, <2>9, <2>10, <3>1, IncludesOfUnique DEF NamesUnique
  <2> QED
    BY <2>6, <2>7, <2>9, <2>10
<1>10. AnswersAsRegistered(r)
  BY <1>9 DEF AnswersAsRegistered
<1> QED
  BY <1>8, <1>10

-----------------------------------------------------------------------------
(* Preservation.                                                           *)

LEMMA EmptyIndexOK == IndexOK(EmptyIndex)
BY DEF IndexOK, EmptyIndex, Nothing, WebhookTypes, BindingTypes, Validating, Mutating

LEMMA IndexedOK ==
    ASSUME NEW ix, IndexOK(ix), NEW h \in Hooks, NEW cfg, GoodConfig(cfg)
    PROVE  IndexOK(Indexed(ix, h, cfg))
<1> DEFINE new == Indexed(ix, h, cfg)
<1>1. /\ new.names = Append(ix.names, h)
      /\ new.hooksByName = [g \in DOMAIN ix.hooksByName \cup {h} |-> IF g = h THEN cfg ELSE ix.hooksByName[g]]
      /\ \A t \in BindingTypes : new.hooksInOrder[t] = IF HasBinding(cfg, t) THEN Append(ix.hooksInOrder[t], h)
                                                       ELSE ix.hooksInOrder[t]
  BY DEF Indexed
<1> HIDE DEF new
<1>2. DOMAIN new.hooksByName = DOMAIN ix.hooksByName \cup {h}
  BY <1>1
<1>3. new.names \in Seq(Hooks) /\ DOMAIN new.hooksByName \subseteq Hooks
  BY <1>1, <1>2 DEF IndexOK
<1>4. \A g \in DOMAIN new.hooksByName : GoodConfig(new.hooksByName[g])
  BY <1>1 DEF IndexOK
<1>5. ASSUME NEW t \in WebhookTypes PROVE new.hooksInOrder[t] \in Seq(DOMAIN new.hooksByName)
  <2>1. t \in BindingTypes
    BY DEF WebhookTypes, BindingTypes, Validating, Mutating
  <2>2. ix.hooksInOrder[t] \in Seq(DOMAIN ix.hooksByName \cup {h})
    BY DEF IndexOK
  <2>3. Append(ix.hooksInOrder[t], h) \in Seq(DOMAIN ix.hooksByName \cup {h})
    BY <2>2
  <2>4. new.hooksInOrder[t] \in {ix.hooksInOrder[t], Append(ix.hooksInOrder[t], h)}
    BY <1>1, <2>1
  <2> QED
    BY <1>2, <2>2, <2>3, <2>4
<1>6. IndexOK(new)
  BY <1>3, <1>4, <1>5 DEF IndexOK
<1> QED
  BY <1>6 DEF new

LEMMA InitInv == Init => Inv
<1> SUFFICES ASSUME Init PROVE Inv
  OBVIOUS
<1>1. Loaded
  BY EmptyIndexOK DEF Init, Loaded
<1>2. Quiet /\ Linked
  BY DEF Init, Quiet, Linked, NoLinks
<1>3. Served
  BY DEF Init, Served, RequestOK, Idle
<1> QED
  BY <1>1, <1>2, <1>3 DEF Inv

LEMMA LoadHookInv == Inv /\ LoadHook => Inv'
<1> SUFFICES ASSUME Inv, LoadHook PROVE Inv'
  OBVIOUS
<1> USE DEF Inv
<1> DEFINE h == HookPaths[Len(loaded.names) + 1]
<1>1. UNCHANGED <<documents, index, links, resources, request>> /\ phase = "load" /\ phase' \in {"load", "failed"}
  BY DEF LoadHook
<1>2. h \in Hooks
  <2>1. Len(loaded.names) \in Nat
    BY DEF Loaded, IndexOK
  <2>2. HookPaths \in Seq(Hooks)
    BY AdmissionAssumption DEF IsSequence, Hooks
  <2> QED
    <3>1. Len(loaded.names) + 1 \in 1..Len(HookPaths)
      BY <2>1, <2>2 DEF LoadHook
    <3> QED
      BY <2>2, <3>1
<1>3. IndexOK(loaded')
  <2>1. CASE Loads(documents[h])
    <3>1. documents[h] \in Documents
      BY <1>2 DEF Loaded
    <3>2. GoodConfig(Config(documents[h]))
      BY <2>1, <3>1, LoadedSound
    <3>3. loaded' = Indexed(loaded, h, Config(documents[h]))
      BY <2>1 DEF LoadHook
    <3> HIDE DEF h
    <3> QED
      BY <1>2, <3>2, <3>3, IndexedOK DEF Loaded
  <2>2. CASE ~Loads(documents[h])
    BY <2>2 DEF LoadHook, Loaded
  <2> QED
    BY <2>1, <2>2
<1>4. Loaded'
  BY <1>1, <1>3 DEF Loaded
<1>5. Quiet'
  BY <1>1 DEF Quiet, NoLinks
<1>6. Linked'
  BY <1>1 DEF Linked, Quiet, NoLinks
<1>7. Served'
  BY <1>1 DEF Served, Quiet, RequestOK, Idle
<1> QED
  BY <1>4, <1>5, <1>6, <1>7

\* The indexes are replaced while nothing is linked and nobody is served.
LEMMA SwapIndexInv == Inv /\ SwapIndex => Inv'
<1> SUFFICES ASSUME Inv, SwapIndex PROVE Inv'
  OBVIOUS
<1> USE DEF Inv
<1>1. UNCHANGED <<documents, loaded, links, request>> /\ index' = loaded /\ phase = "load" /\ phase' = "enable"
  BY DEF SwapIndex
<1>2. Loaded'
  BY <1>1 DEF Loaded
<1>3. Quiet' /\ Linked'
  BY <1>1 DEF Quiet, Linked, NoLinks
<1>4. Served'
  BY <1>1 DEF Served, Quiet, RequestOK, Idle
<1> QED
  BY <1>2, <1>3, <1>4

LEMMA EnableAdmissionBindingsInv == Inv /\ EnableAdmissionBindings => Inv'
<1> SUFFICES ASSUME Inv, EnableAdmissionBindings PROVE Inv'
  OBVIOUS
<1> USE DEF Inv
<1>1. /\ UNCHANGED <<documents, loaded, index, request>>
      /\ phase = "enable" /\ phase' \notin {"load", "enable"}
      /\ UNCHANGED <<links, resources>> \/ EnableAll(HooksToEnable)
  BY DEF EnableAdmissionBindings
<1>2. Loaded' /\ Quiet'
  BY <1>1 DEF Loaded, Quiet
<1>3. Linked'
  <2>1. CASE UNCHANGED <<links, resources>>
    BY <1>1, <2>1 DEF Linked, Quiet, NoLinks
  <2>2. CASE EnableAll(HooksToEnable)
    <3>1. links' = LinksNow /\ resources' = ResourcesNow
      BY <2>2 DEF EnableAll, LinksNow, ResourcesNow
    <3>2. LinksNow' = LinksNow /\ ResourcesNow' = ResourcesNow
      BY <1>1 DEF LinksNow, ResourcesNow, HooksToEnable, GetHooksInOrder, LinksOf, GetHook, Entry
    <3> QED
      BY <3>1, <3>2 DEF Linked
  <2> QED
    BY <1>1, <2>1, <2>2
<1>4. Served'
  BY <1>1 DEF Served, Quiet, RequestOK, Idle
<1> QED
  BY <1>2, <1>3, <1>4

\* What a request may be depends on the indexes and the resources only.
LEMMA RequestFrame ==
    ASSUME UNCHANGED <<index, resources>>, NEW r, RequestOK(r)
    PROVE  RequestOK(r)'
BY DEF RequestOK, DeclaredBy, AnswersAsRegistered, NamesUnique, GetHook

LEMMA LinkedFrame ==
    ASSUME UNCHANGED <<index, links, resources>>, Linked
    PROVE  Linked'
<1>1. LinksNow' = LinksNow /\ ResourcesNow' = ResourcesNow
  BY DEF LinksNow, ResourcesNow, HooksToEnable, GetHooksInOrder, LinksOf, GetHook, Entry
<1> QED
  BY <1>1 DEF Linked, NoLinks

\* Steps after the hooks are enabled: all that may change is who is served.
LEMMA RequestStep ==
    ASSUME Inv, UNCHANGED <<documents, loaded, index, links, resources>>,
           request' = [q \in Requests |-> request'[q]],
           \A q \in Requests : request'[q] = request[q] \/ RequestOK(request'[q]),
           phase' \in {"load", "enable"} => phase' = phase /\ request' = request
    PROVE  Inv'
<1> USE DEF Inv
<1>1. Loaded'
  BY DEF Loaded
<1>2. Quiet'
  BY DEF Quiet, NoLinks
<1>3. Linked'
  BY LinkedFrame
<1>4. Served'
  <2>1. ASSUME NEW q \in Requests PROVE RequestOK(request[q])'
    <3>1. RequestOK(request'[q])
      BY DEF Served
    <3>2. \A r : RequestOK(r) => RequestOK(r)'
      BY RequestFrame
    <3> QED
      BY <3>1, <3>2
  <2> QED
    BY <2>1 DEF Served
<1> QED
  BY <1>1, <1>2, <1>3, <1>4

\* The server starts and resources are submitted: nobody's review changes.
LEMMA StartingInv == Inv /\ (StartServer \/ SubmitList \/ SubmitWrite \/ Backoff) => Inv'
<1> SUFFICES ASSUME Inv, StartServer \/ SubmitList \/ SubmitWrite \/ Backoff PROVE Inv'
  OBVIOUS
<1>1. UNCHANGED <<documents, loaded, index, links, resources, request>>
  BY DEF StartServer, SubmitList, SubmitWrite, Backoff, SubmitFails, setup
<1>2. phase' \notin {"load", "enable"}
  BY DEF StartServer, SubmitList, SubmitWrite, Backoff, SubmitFails, ProceedAfter
<1>3. request' = [q \in Requests |-> request'[q]]
  BY <1>1 DEF Inv, Served
<1> QED
  BY <1>1, <1>2, <1>3, RequestStep

\* A step of one request.
LEMMA OneRequest ==
    ASSUME Inv, NEW q \in Requests, NEW new, request' = [request EXCEPT ![q] = new], RequestOK(new),
           UNCHANGED <<documents, loaded, index, links, resources, phase>>,
           request[q] # Idle \/ phase \notin {"load", "enable"}
    PROVE  Inv'
<1>1. DOMAIN request = Requests
  BY DEF Inv, Served
<1>2. request' = [p \in Requests |-> request'[p]]
  BY <1>1
<1>3. \A p \in Requests : request'[p] = request[p] \/ RequestOK(request'[p])
  BY <1>1
<1>4. phase \notin {"load", "enable"}
  BY DEF Inv, Quiet
<1> QED
  BY <1>2, <1>3, <1>4, RequestStep

LEMMA ReceiveReviewInv == ASSUME NEW q \in Requests PROVE Inv /\ ReceiveReview(q) => Inv'
<1> SUFFICES ASSUME Inv, ReceiveReview(q) PROVE Inv'
  OBVIOUS
<1>1. PICK t, id :
         /\ t \in WebhookTypes
         /\ \/ request' = [request EXCEPT ![q] = [at |-> "route", type |-> t, id |-> id]]
            \/ request' = [request EXCEPT ![q] = [at |-> "answered", type |-> t, id |-> id,
                                                  hook |-> {}, allowed |-> FALSE, outcome |-> "bad request"]]
  BY DEF ReceiveReview
<1>2. UNCHANGED <<documents, loaded, index, links, resources, phase>> /\ phase \notin {"load", "enable"}
  BY DEF ReceiveReview, Listening, setup
<1>3. RequestOK([at |-> "route", type |-> t, id |-> id])
  BY <1>1 DEF RequestOK
<1>4. RequestOK([at |-> "answered", type |-> t, id |-> id, hook |-> {}, allowed |-> FALSE, outcome |-> "bad request"])
  BY <1>1 DEF RequestOK
<1> QED
  BY <1>1, <1>2, <1>3, <1>4, OneRequest

LEMMA RouteReviewInv == ASSUME NEW q \in Requests PROVE Inv /\ RouteReview(q) => Inv'
<1> SUFFICES ASSUME Inv, RouteReview(q) PROVE Inv'
  OBVIOUS
<1> DEFINE id == request[q].id
           t == request[q].type
           h == AskedHooks[Max(HandlersOf(id))]
           link == links[h][id]
           none == [at |-> "answered", type |-> t, id |-> id, hook |-> {}, allowed |-> FALSE, outcome |-> "error"]
           run == [at |-> "run", type |-> t, id |-> id, hook |-> h, name |-> link.name, includes |-> IncludesFor(h, link)]
<1>1. request[q].at = "route" /\ UNCHANGED <<documents, loaded, index, links, resources, phase>>
  BY DEF RouteReview, setup
<1>2. request[q] # Idle
  BY <1>1 DEF Idle
<1>3. DOMAIN request = Requests /\ t \in WebhookTypes
  BY <1>1 DEF Inv, Served, RequestOK
<1>4. CASE NoHookFound(q)
  <2>1. request' = [request EXCEPT ![q] = none]
    BY <1>3, <1>4 DEF NoHookFound, Answer
  <2>2. RequestOK(none)
    BY <1>3 DEF RequestOK
  <2> HIDE DEF none
  <2> QED
    BY <1>1, <1>2, <2>1, <2>2, OneRequest
<1>5. CASE HandlersOf(id) # {} /\ request' = [request EXCEPT ![q] = run]
  <2>1. run.at = "run" /\ run.type = t /\ run.id = id /\ run.hook = h /\ run.name = link.name
        /\ run.includes = IncludesFor(h, link)
    OBVIOUS
  <2> HIDE DEF run
  <2>2. DeclaredBy(h, id) /\ AnswersAsRegistered(run)
    <3> HIDE DEF id, t, h, link
    <3>1. h = AskedHooks[Max(HandlersOf(id))] /\ link = links[h][id]
      BY DEF h, link
    <3> QED
      BY <1>3, <1>5, <2>1, <3>1, Routing DEF Inv
  <2>3. RequestOK(run)
    BY <1>3, <2>1, <2>2 DEF RequestOK
  <2> QED
    BY <1>1, <1>2, <1>5, <2>3, OneRequest
<1>6. NoHookFound(q) \/ (HandlersOf(id) # {} /\ request' = [request EXCEPT ![q] = run])
  BY <1>3 DEF RouteReview
<1> QED
  BY <1>4, <1>5, <1>6

LEMMA FinishReviewInv == ASSUME NEW q \in Requests PROVE Inv /\ FinishReview(q) => Inv'
<1> SUFFICES ASSUME Inv, FinishReview(q) PROVE Inv'
  OBVIOUS
<1>1. request[q].at = "run" /\ UNCHANGED <<documents, loaded, index, links, resources, phase>>
  BY DEF FinishReview, setup
<1>2. PICK outcome \in {"failed", "error", "denied", "allowed"} : Answer(q, {request[q].hook}, outcome)
  BY DEF FinishReview
<1> DEFINE done == [at |-> "answered", type |-> request[q].type, id |-> request[q].id, hook |-> {request[q].hook},
                    allowed |-> outcome = "allowed", outcome |-> outcome]
<1>3. DOMAIN request = Requests /\ RequestOK(request[q])
  BY DEF Inv, Served
<1>4. request' = [request EXCEPT ![q] = done]
  BY <1>2, <1>3 DEF Answer
<1>5. RequestOK(done)
  BY <1>1, <1>3 DEF RequestOK
<1> HIDE DEF done
<1>6. request[q] # Idle
  BY <1>1 DEF Idle
<1> QED
  BY <1>1, <1>4, <1>5, <1>6, OneRequest

LEMMA CrashInv == Inv /\ Crash => Inv'
<1> SUFFICES ASSUME Inv, Crash PROVE Inv'
  OBVIOUS
<1>1. UNCHANGED <<documents, loaded, index, links, resources>> /\ phase' = "failed" /\ request' = [q \in Requests |-> Idle]
  BY DEF Crash, setup
<1>2. RequestOK(Idle)
  BY DEF RequestOK, Idle
<1>3. request' = [q \in Requests |-> request'[q]] /\ \A q \in Requests : RequestOK(request'[q])
  BY <1>1, <1>2
<1> QED
  BY <1>1, <1>3, RequestStep

\* A process that starts has nothing of the one before.
LEMMA StartInv == Inv /\ (Restart \/ Redeploy) => Inv'
<1> SUFFICES ASSUME Inv, Restart \/ Redeploy PROVE Inv'
  OBVIOUS
<1>1. Fresh /\ phase' = "load"
  BY DEF Restart, Redeploy
<1>2. documents' \in [Hooks -> Documents]
  BY DEF Inv, Loaded, Restart, Redeploy
<1>3. Loaded'
  BY <1>1, <1>2, EmptyIndexOK DEF Loaded, Fresh
<1>4. Quiet' /\ Linked'
  BY <1>1 DEF Quiet, Linked, Fresh, NoLinks
<1>5. Served'
  BY <1>1 DEF Served, Fresh, RequestOK, Idle
<1> QED
  BY <1>3, <1>4, <1>5 DEF Inv

\* Indexes hold sound configurations, links and resources are those of the hooks in the
\* index, and reviews are given to hooks that declared them (Manager.Init,
\* EnableAdmissionBindings, HandleAdmissionEvent), for any hooks, documents and requests.
THEOREM AdmissionInvariant == Spec => []Inv
<1>1. Init => Inv
  BY InitInv
<1>2. Inv /\ [Next]_vars => Inv'
  <2> SUFFICES ASSUME Inv, [Next]_vars PROVE Inv'
    OBVIOUS
  <2>1. CASE Main
    BY <2>1, LoadHookInv, SwapIndexInv, EnableAdmissionBindingsInv, StartingInv DEF Main
  <2>2. CASE Crash \/ Restart \/ Redeploy
    BY <2>2, CrashInv, StartInv
  <2>3. CASE \E q \in Requests : ReceiveReview(q) \/ Serve(q)
    BY <2>3, ReceiveReviewInv, RouteReviewInv, FinishReviewInv DEF Serve
  <2>4. CASE UNCHANGED vars
    <3>1. UNCHANGED <<documents, loaded, index, links, resources, phase, request>>
      BY <2>4 DEF vars, setup
    <3>2. request' = [q \in Requests |-> request'[q]]
      BY <3>1 DEF Inv, Served
    <3> QED
      BY <3>1, <3>2, RequestStep
  <2> QED
    BY <2>1, <2>2, <2>3, <2>4 DEF Next
<1> QED
  BY <1>1, <1>2, PTL DEF Spec

\* Whatever documents the hooks print, a hook that is accepted includes only snapshots of its
\* own bindings on objects: the names CheckIncludeSnapshots passes and those ConvertAndCheck
\* adds for groups (SnapshotsExist).
THEOREM AcceptedSnapshotsExist == Spec => []SnapshotsExist
<1>1. Inv => SnapshotsExist
  <2> SUFFICES ASSUME Inv, NEW h \in DOMAIN index.hooksByName, NEW b \in AllBindings(GetHook(h)), NEW n \in ToSet(b.includes)
               PROVE  \E k \in ToSet(GetHook(h).kubernetes) : k.name = n
    BY DEF SnapshotsExist
  <2>1. GoodConfig(GetHook(h))
    BY DEF Inv, Loaded, IndexOK, GetHook
  <2> QED
    BY <2>1, SoundIncludes
<1> QED
  BY <1>1, AdmissionInvariant, PTL

\* The hook that serves a review is the one whose rules were registered for its id, with the
\* snapshots of that binding, however ids collide within a type (RegistrantAnswers).
THEOREM ReviewsGoToRegistrants == Spec => []RegistrantAnswers
<1>1. Inv => RegistrantAnswers
  BY DEF Inv, Served, RequestOK, AnswersAsRegistered, RegistrantAnswers
<1> QED
  BY <1>1, AdmissionInvariant, PTL

\* Nothing is let through but by a loaded hook that declared the webhook and ran for the
\* review (FailClosed).
THEOREM AdmissionFailsClosed == Spec => []FailClosed
<1>1. Inv => FailClosed
  BY DEF Inv, Served, RequestOK, DeclaredBy, FailClosed
<1> QED
  BY <1>1, AdmissionInvariant, PTL
=============================================================================
