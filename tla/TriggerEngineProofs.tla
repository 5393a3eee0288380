-------------------------- MODULE TriggerEngineProofs --------------------------
(***************************************************************************)
(* Safety of TriggerEngine for any triggers, actions, events from outside  *)
(* and reloads, and any number of each.                                    *)
(***************************************************************************)
EXTENDS TriggerEngine, FiniteSetTheorems, SequenceTheorems,
        WellFoundedInduction, TLAPS

\* A nonempty set of naturals has a least element.
LEMMA LeastNatural ==
  ASSUME NEW T \in SUBSET Nat, T # {}
  PROVE  \E x \in T : \A y \in T : x <= y
<1>1. PICK x \in T : \A y \in T : ~ (<<y, x>> \in OpToRel(<, Nat))
  BY NatLessThanWellFounded, WFMin
<1>2. \A y \in T : ~ (y < x)
  BY <1>1 DEF OpToRel
<1> QED BY <1>2

\* A sequence without its first n elements.
LEMMA Suffix ==
  ASSUME NEW S, NEW s \in Seq(S), NEW n \in Nat, n <= Len(s)
  PROVE  LET v == SubSeq(s, n + 1, Len(s))
         IN  /\ v \in Seq(S) /\ Len(v) = Len(s) - n
             /\ \A i \in 1 .. Len(s) - n : v[i] = s[i + n]
<1> DEFINE v == SubSeq(s, n + 1, Len(s))
<1>0. Len(s) \in Nat
  BY LenProperties
<1>1. \A i \in n + 1 .. Len(s) : s[i] \in S
  BY <1>0, ElementOfSeq
<1>2. /\ v \in Seq(S) /\ Len(v) = IF n + 1 <= Len(s) THEN Len(s) - (n + 1) + 1 ELSE 0
      /\ \A i \in 1 .. Len(s) - (n + 1) + 1 : v[i] = s[(n + 1) + i - 1]
  BY <1>0, <1>1, SubSeqProperties
<1>3. \A k, m \in Nat : k <= m => /\ (IF k + 1 <= m THEN m - (k + 1) + 1 ELSE 0) = m - k
                                 /\ m - (k + 1) + 1 = m - k
  OBVIOUS
<1>4. \A k, i \in Nat : (k + 1) + i - 1 = i + k
  OBVIOUS
<1> HIDE DEF v
<1>5. Len(v) = Len(s) - n
  BY <1>0, <1>2, <1>3
<1>6. \A i \in 1 .. Len(s) - n : v[i] = s[i + n]
  <2>1. \A i \in 1 .. Len(s) - n : i \in Nat
    BY <1>0
  <2> QED BY <1>0, <1>2, <1>3, <1>4, <2>1
<1> QED BY <1>2, <1>5, <1>6 DEF v

\* A sequence without its n-th element.
LEMMA CuttingOut ==
  ASSUME NEW S, NEW s \in Seq(S), NEW n \in 1 .. Len(s)
  PROVE  LET t == SubSeq(s, 1, n - 1) \o SubSeq(s, n + 1, Len(s))
         IN  /\ t \in Seq(S) /\ Len(t) = Len(s) - 1
             /\ \A i \in 1 .. Len(s) - 1 : t[i] = s[IF i < n THEN i ELSE i + 1]
<1> DEFINE u == SubSeq(s, 1, n - 1)
           v == SubSeq(s, n + 1, Len(s))
           t == u \o v
           f(i) == IF i < n THEN i ELSE i + 1
<1>0. Len(s) \in Nat /\ n \in Nat /\ 1 <= n /\ n <= Len(s)
  BY LenProperties
<1>1. u \in Seq(S) /\ Len(u) = n - 1 /\ \A i \in 1 .. n - 1 : u[i] = s[i]
  BY <1>0, SubSeqProperties, ElementOfSeq
<1>2. v \in Seq(S) /\ Len(v) = Len(s) - n /\ \A i \in 1 .. Len(s) - n : v[i] = s[i + n]
  BY <1>0, Suffix
<1> HIDE DEF f, u, v
<1>3. /\ t \in Seq(S) /\ Len(t) = Len(u) + Len(v)
      /\ \A i \in 1 .. Len(u) + Len(v) : t[i] = IF i <= Len(u) THEN u[i] ELSE v[i - Len(u)]
  BY ONLY <1>1, <1>2, ConcatProperties
<1> HIDE DEF t
<1>4. Len(t) = Len(s) - 1 /\ Len(u) + Len(v) = Len(s) - 1
  BY <1>0, <1>1, <1>2, <1>3
<1>5. ASSUME NEW i \in 1 .. Len(s) - 1 PROVE t[i] = s[f(i)]
  <2>1. CASE i < n
    <3>1. i \in 1 .. n - 1 /\ i \in 1 .. Len(u) + Len(v) /\ i <= Len(u)
      BY ONLY <1>0, <1>1, <1>2, <2>1, i \in 1 .. Len(s) - 1
    <3>2. t[i] = u[i]
      BY <1>3, <3>1
    <3> QED BY <1>1, <2>1, <3>1, <3>2 DEF f
  <2>2. CASE ~ (i < n)
    <3>1. /\ i - (n - 1) \in 1 .. Len(s) - n /\ i - (n - 1) + n = i + 1
          /\ ~ (i <= Len(u)) /\ i - Len(u) = i - (n - 1)
      BY ONLY <1>0, <1>1, <2>2, i \in 1 .. Len(s) - 1
    <3>2. t[i] = v[i - (n - 1)]
      BY <1>3, <1>4, <3>1
    <3> QED BY <1>2, <2>2, <3>1, <3>2 DEF f
  <2> QED BY <2>1, <2>2
<1> QED BY <1>3, <1>4, <1>5 DEF f, t, u, v

-----------------------------------------------------------------------------
(* What TriggerSubscriptions::reconcile relies on: replacing the requested     *)
(* patterns by their covering set loses no event and delivers none twice, for  *)
(* any set of patterns, however long their segments' sequences.                *)

\* Prefixes are sequences, and a pattern is known by its prefix and its star.
LEMMA PatternType ==
  ASSUME NEW p \in Patterns
  PROVE  /\ p = [prefix |-> p.prefix, star |-> p.star]
         /\ p.prefix \in Seq(Segments) /\ Len(p.prefix) \in Nat
         /\ p.star \in BOOLEAN
<1>1. p \in [prefix : Seq(Segments), star : BOOLEAN]
  BY DEF Patterns, Kinds
<1> QED BY <1>1

\* A pattern that covers another matches whatever the other matches.
LEMMA CoversMatches ==
  ASSUME NEW p \in Patterns, NEW q \in Patterns, Covers(p, q),
         NEW k \in Kinds, Matches(q, k)
  PROVE  Matches(p, k)
<1>1. p.prefix \in Seq(Segments) /\ q.prefix \in Seq(Segments) /\ k \in Seq(Segments)
  BY DEF Patterns, Kinds
<1> QED BY <1>1 DEF Covers, Matches, Below

\* No requested event is missed: what some requested pattern matches, some
\* receiver's pattern matches too.
THEOREM CoveringComplete ==
  ASSUME NEW patterns \in SUBSET Patterns, NEW k \in Kinds,
         NEW p \in patterns, Matches(p, k)
  PROVE  \E q \in Covering(patterns) : Matches(q, k)
<1> DEFINE matching == {q \in patterns : Matches(q, k)}
           lengths == {Len(q.prefix) : q \in matching}
<1>1. lengths \in SUBSET Nat /\ lengths # {}
  <2>1. p \in matching
    OBVIOUS
  <2> QED BY <2>1, PatternType
<1>2. PICK q \in matching : \A r \in matching : Len(q.prefix) <= Len(r.prefix)
  <2>1. PICK m \in lengths : \A n \in lengths : m <= n
    BY <1>1, LeastNatural
  <2> QED BY <2>1
<1>3. ASSUME NEW other \in patterns, Covers(other, q) PROVE FALSE
  <2>1. other \in matching
    BY <1>2, <1>3, CoversMatches
  <2>2. Len(other.prefix) < Len(q.prefix)
    BY <1>3 DEF Covers, Below
  <2> QED BY <1>2, <2>1, <2>2, PatternType
<1> QED BY <1>2, <1>3 DEF Covering

\* No event is delivered twice: two receivers' patterns match no common kind.
THEOREM CoveringDisjoint ==
  ASSUME NEW patterns \in SUBSET Patterns, NEW k \in Kinds,
         NEW p \in Covering(patterns), NEW q \in Covering(patterns),
         Matches(p, k), Matches(q, k)
  PROVE  p = q
<1>1. p \in patterns /\ q \in patterns /\ (p # q => ~ Covers(p, q) /\ ~ Covers(q, p))
  BY DEF Covering
<1>2. /\ p.prefix \in Seq(Segments) /\ q.prefix \in Seq(Segments)
      /\ k \in Seq(Segments)
  BY <1>1 DEF Patterns, Kinds
<1>3. CASE p.star /\ q.star
  <2>1. Len(p.prefix) < Len(q.prefix) => Covers(p, q)
    BY <1>2, <1>3 DEF Matches, Covers, Below
  <2>2. Len(q.prefix) < Len(p.prefix) => Covers(q, p)
    BY <1>2, <1>3 DEF Matches, Covers, Below
  <2>3. Len(p.prefix) = Len(q.prefix) => p.prefix = q.prefix
    BY <1>2, <1>3 DEF Matches, Below
  <2>4. p.prefix = q.prefix
    BY <1>1, <1>2, <2>1, <2>2, <2>3
  <2> QED BY <1>1, <1>3, <2>4, PatternType
<1>4. CASE p.star /\ ~ q.star
  BY <1>1, <1>4 DEF Matches, Covers
<1>5. CASE ~ p.star /\ q.star
  BY <1>1, <1>5 DEF Matches, Covers
<1>6. CASE ~ p.star /\ ~ q.star
  BY <1>1, <1>6, PatternType DEF Matches
<1> QED BY <1>3, <1>4, <1>5, <1>6
-----------------------------------------------------------------------------
(* The inductive invariant *)

\* The lock, and what a stage of pump_all finds in the batch.
CompletionsFirst(events) ==
  \A j, k \in DOMAIN events : j < k /\ IsCompletion(events[k]) => IsCompletion(events[j])

Phases ==
  /\ stage # "drain" => undrained = {}
  /\ holder = "free" => stage = "idle"
  /\ watcher \in {"reconcile", "subscribe"} => holder = "watcher" /\ stage = "idle"
  /\ stage \in {"match", "fire"} => batch # <<>>
  /\ stage \in {"promote", "match", "fire"} => CompletionsFirst(batch)

\* No kind has two receivers, because no pattern covers another.
Receivers ==
  /\ Covering(DOMAIN subs) = DOMAIN subs
  /\ watcher = "subscribe" => DOMAIN subs \subseteq Needed(loaded)

\* Events wait in one receiver or in the batch.
Queued == UNION {{subs[p][j] : j \in DOMAIN subs[p]} : p \in DOMAIN subs}
Batched == {batch[k] : k \in DOMAIN batch}

OneSlot ==
  /\ \A e \in Queued \cup Batched : e.id < nextId
  /\ \A p, q \in DOMAIN subs : \A j \in DOMAIN subs[p], k \in DOMAIN subs[q] :
       subs[p][j].id = subs[q][k].id => p = q /\ j = k
  /\ \A j, k \in DOMAIN batch : batch[j].id = batch[k].id => j = k
  /\ \A e \in Queued, f \in Batched : e.id # f.id

\* Only what came from outside is tainted.
Clean ==
  \A e \in Queued \cup Batched :
    (e.tainted => e.origin = "external") /\ (e.source = "action" => e.origin = "internal")

\* The events whose dispatch is still to come.
Coming == Queued \cup {batch[k] : k \in {j \in DOMAIN batch : j = 1 => stage \notin {"match", "fire"}}}

\* Its runs publish a completion each.
Announces(a) == a \notin SilentActions /\ Modes[a] # "spawn"

\* A run has one completion to come, from the moment it is over until it is
\* settled.
Completions ==
  /\ \A i \in DOMAIN runs : runs[i].status = "running" => Modes[runs[i].action] # "spawn"
  /\ \A e \in Coming : e.source = "action" =>
       /\ e.ref \in DOMAIN runs /\ runs[e.ref].status = "published"
       /\ Announces(runs[e.ref].action)
       /\ e.kind \in {Completed(runs[e.ref].action), Failed(runs[e.ref].action)}
  /\ \A e, f \in Coming : e.source = "action" /\ f.source = "action" /\ e.ref = f.ref => e = f

Owners(pool) == {pool[k].run : k \in DOMAIN pool}
OwnersDiffer(pool) == \A j, k \in DOMAIN pool : pool[j].run = pool[k].run => j = k
Fits(a) ==
  /\ a.run \in DOMAIN runs /\ runs[a.run].action = a.action
  /\ runs[a.run].awaited = 0 /\ ~ a.tainted

\* An await is in one pool, or on its way to the bus, or announced.
Awaits ==
  /\ OwnersDiffer(preflight) /\ OwnersDiffer(pending) /\ OwnersDiffer(timedOut)
  /\ Owners(preflight) \cap Owners(pending) = {}
  /\ Owners(preflight) \cap Owners(timedOut) = {}
  /\ Owners(pending) \cap Owners(timedOut) = {}
  /\ \A k \in DOMAIN preflight : Fits(preflight[k])
  /\ \A k \in DOMAIN pending : Fits(pending[k])
  /\ \A k \in DOMAIN timedOut : Fits(timedOut[k])
  /\ \A i \in DOMAIN runs : runs[i].awaited \in {0, 1}

WaitingFor(a) == {preflight[k].run : k \in {j \in DOMAIN preflight : preflight[j].action = a}}

\* Every completion takes a preflight away, if there is one; so as long as no
\* runs of an action overlap, a run that awaits has not been settled.
Overlaps ==
  /\ \A i, j \in DOMAIN runs :
       /\ i # j /\ runs[i].action = runs[j].action
       /\ runs[i].status # "settled" /\ runs[j].status # "settled"
       => runs[i].crowded
  /\ \A a \in DOMAIN Modes : Announces(a) => Cardinality(WaitingFor(a)) <= Cardinality(Unsettled(a))
  /\ \A k \in DOMAIN preflight : Announces(preflight[k].action) =>
       runs[preflight[k].run].crowded \/ runs[preflight[k].run].status # "settled"

IInv ==
  /\ TypeOK /\ Phases /\ Receivers /\ OneSlot /\ Clean /\ Completions /\ Awaits /\ Overlaps
  /\ UntrustedNeverFires /\ CorrelatesAlone

-----------------------------------------------------------------------------
(* The operators of the model *)

\* t has the elements of s at the positions kept, each once.
Thins(t, s, kept) ==
  \E f \in [DOMAIN t -> kept] :
    /\ \A m, n \in DOMAIN t : f[m] = f[n] => m = n
    /\ \A i \in kept : \E n \in DOMAIN t : f[n] = i
    /\ \A n \in DOMAIN t : t[n] = s[f[n]]

\* At takes each of the positions once: they are numbered by their rank.
LEMMA Picking ==
  ASSUME NEW S, NEW s \in Seq(S), NEW kept \in SUBSET DOMAIN s
  PROVE  At(s, kept) \in Seq(S) /\ Thins(At(s, kept), s, kept)
<1> DEFINE size == Cardinality(kept)
           upTo(i) == {j \in kept : j <= i}
           rank == [i \in kept |-> Cardinality(upTo(i))]
           f == [n \in 1 .. size |-> CHOOSE i \in kept : Cardinality(upTo(i)) = n]
           t == At(s, kept)
<1>0. Len(s) \in Nat /\ DOMAIN s = 1 .. Len(s)
  BY LenProperties
<1>1. IsFiniteSet(kept) /\ size \in Nat
  <2>1. IsFiniteSet(1 .. Len(s))
    <3>1. 1 \in Int /\ Len(s) \in Int
      BY <1>0
    <3> QED BY <3>1, FS_Interval
  <2> QED BY <1>0, <2>1, FS_Subset, FS_CardinalityType
<1>2. \A i \in kept : /\ IsFiniteSet(upTo(i)) /\ Cardinality(upTo(i)) \in Nat
                      /\ Cardinality(upTo(i)) <= size /\ Cardinality(upTo(i)) # 0
  <2> TAKE i \in kept
  <2>1. IsFiniteSet(upTo(i)) /\ Cardinality(upTo(i)) <= size /\ Cardinality(upTo(i)) \in Nat
    BY <1>1, FS_Subset, FS_CardinalityType
  <2>2. i \in upTo(i)
    BY <1>0
  <2> QED BY <2>1, <2>2, FS_EmptySet
<1>3. rank \in [kept -> 1 .. size]
  BY <1>1, <1>2
<1>4. ASSUME NEW i \in kept, NEW j \in kept, i < j PROVE rank[i] < rank[j]
  <2>1. upTo(i) \in SUBSET upTo(j) /\ j \in upTo(j) /\ j \notin upTo(i)
    BY <1>0, <1>4
  <2>2. upTo(i) # upTo(j)
    BY <2>1
  <2>3. Cardinality(upTo(i)) <= Cardinality(upTo(j)) /\ Cardinality(upTo(i)) # Cardinality(upTo(j))
    BY <1>2, <2>1, <2>2, FS_Subset
  <2> QED BY <1>2, <2>3
<1>5. \A i, j \in kept : rank[i] = rank[j] => i = j
  <2> TAKE i \in kept, j \in kept
  <2>1. i < j \/ j < i \/ i = j
    BY <1>0
  <2>2. rank[i] \in Nat /\ rank[j] \in Nat
    BY <1>1, <1>3
  <2>3. i < j => rank[i] < rank[j]
    BY <1>4
  <2>4. j < i => rank[j] < rank[i]
    BY <1>4
  <2> HIDE DEF rank
  <2> QED BY <2>1, <2>2, <2>3, <2>4
<1> HIDE DEF rank, size
<1>6. \A n \in 1 .. size : \E i \in kept : rank[i] = n
  <2>1. IsFiniteSet(1 .. size) /\ Cardinality(1 .. size) = size
    <3>1. 1 \in Int /\ size \in Int /\ (IF 1 > size THEN 0 ELSE size - 1 + 1) = size
      BY <1>1
    <3> QED BY <3>1, FS_Interval
  <2>2. rank \in Injection(kept, 1 .. size)
    BY <1>3, <1>5 DEF Injection, IsInjective
  <2>3. rank \in Surjection(kept, 1 .. size)
    BY <2>1, <2>2, FS_Injection DEF size
  <2> QED BY <2>3 DEF Surjection
<1>7. f \in [1 .. size -> kept] /\ \A n \in 1 .. size : rank[f[n]] = n
  <2>1. \A n \in 1 .. size : \E i \in kept : Cardinality(upTo(i)) = n
    BY <1>6 DEF rank
  <2> HIDE DEF upTo
  <2>2. \A n \in 1 .. size : f[n] \in kept /\ Cardinality(upTo(f[n])) = n
    BY <2>1
  <2> QED BY <2>2 DEF rank
<1>8. t = [n \in 1 .. size |-> s[f[n]]]
  <2>1. t = [n \in 1 .. size |-> s[CHOOSE i \in kept : Cardinality(upTo(i)) = n]]
    BY DEF At, size
  <2> HIDE DEF upTo, t
  <2> QED BY <2>1
<1> HIDE DEF f, t
<1>9. t \in Seq(S) /\ DOMAIN t = 1 .. size
  <2>1. \A n \in 1 .. size : s[f[n]] \in S
    BY <1>0, <1>7, ElementOfSeq
  <2> QED BY <1>1, <1>8, <2>1
<1>10. \A i \in kept : \E n \in DOMAIN t : f[n] = i
  BY <1>3, <1>5, <1>7, <1>9
<1>11. \A m, n \in DOMAIN t : f[m] = f[n] => m = n
  BY <1>7, <1>9
<1>12. Thins(t, s, kept)
  BY <1>7, <1>8, <1>9, <1>10, <1>11 DEF Thins
<1> QED BY <1>9, <1>12 DEF t

\* So do Without and Tail.
LEMMA Cutting ==
  ASSUME NEW S, NEW s \in Seq(S), NEW i \in DOMAIN s
  PROVE  Without(s, i) \in Seq(S) /\ Thins(Without(s, i), s, DOMAIN s \ {i})
<1> DEFINE t == Without(s, i)
           f == [k \in DOMAIN t |-> IF k < i THEN k ELSE k + 1]
<1>0. Len(s) \in Nat /\ DOMAIN s = 1 .. Len(s)
  BY LenProperties
<1>1. /\ t \in Seq(S) /\ Len(t) = Len(s) - 1
      /\ \A k \in 1 .. Len(s) - 1 : t[k] = s[IF k < i THEN k ELSE k + 1]
  BY <1>0, CuttingOut DEF Without
<1>2. DOMAIN t = 1 .. Len(s) - 1
  BY <1>1, LenProperties
<1> HIDE DEF t
<1>3. f \in [DOMAIN t -> DOMAIN s \ {i}]
  BY <1>0, <1>2
<1>4. \A m, n \in DOMAIN t : f[m] = f[n] => m = n
  BY <1>0, <1>2
<1>5. \A j \in DOMAIN s \ {i} : \E n \in DOMAIN t : f[n] = j
  <2> TAKE j \in DOMAIN s \ {i}
  <2>1. CASE j < i
    <3>1. j \in DOMAIN t /\ f[j] = j
      BY <1>0, <1>2, <2>1
    <3> QED BY <3>1
  <2>2. CASE j > i
    <3>1. j - 1 \in DOMAIN t /\ f[j - 1] = j
      BY <1>0, <1>2, <2>2
    <3> QED BY <3>1
  <2> QED BY <1>0, <2>1, <2>2
<1>6. \A n \in DOMAIN t : t[n] = s[f[n]]
  BY <1>1, <1>2
<1> HIDE DEF f
<1> QED BY <1>1, <1>3, <1>4, <1>5, <1>6 DEF Thins, t

\* Dropping the head keeps the order of the rest.
LEMMA TailThins ==
  ASSUME NEW S, NEW s \in Seq(S), s # <<>>
  PROVE  Tail(s) \in Seq(S) /\ Thins(Tail(s), s, DOMAIN s \ {1})
<1> DEFINE f == [k \in DOMAIN Tail(s) |-> k + 1]
<1>0. Len(s) \in Nat /\ Len(s) > 0 /\ DOMAIN s = 1 .. Len(s)
  BY LenProperties, EmptySeq
<1>1. /\ Tail(s) \in Seq(S) /\ Len(Tail(s)) = Len(s) - 1
      /\ \A k \in 1 .. Len(Tail(s)) : Tail(s)[k] = s[k + 1]
  BY HeadTailProperties
<1>2. DOMAIN Tail(s) = 1 .. Len(s) - 1
  BY <1>1, LenProperties
<1>3. f \in [DOMAIN Tail(s) -> DOMAIN s \ {1}]
  BY <1>0, <1>2
<1>4. \A j \in DOMAIN s \ {1} : \E n \in DOMAIN Tail(s) : f[n] = j
  <2> TAKE j \in DOMAIN s \ {1}
  <2>1. j - 1 \in DOMAIN Tail(s) /\ f[j - 1] = j
    BY <1>0, <1>2
  <2> QED BY <2>1
<1>5. \A m, n \in DOMAIN Tail(s) : f[m] = f[n] => m = n
  BY <1>2
<1>6. \A n \in DOMAIN Tail(s) : Tail(s)[n] = s[f[n]]
  BY <1>1, <1>2
<1> HIDE DEF f
<1> QED BY <1>1, <1>3, <1>4, <1>5, <1>6 DEF Thins

\* A subsequence of awaits with distinct runs has distinct runs, those of its members.
LEMMA ThinOwners ==
  ASSUME NEW s, NEW t, NEW kept \in SUBSET DOMAIN s, Thins(t, s, kept), OwnersDiffer(s)
  PROVE  OwnersDiffer(t) /\ Owners(t) = {s[k].run : k \in kept}
<1>1. PICK f \in [DOMAIN t -> kept] :
        /\ \A m, n \in DOMAIN t : f[m] = f[n] => m = n
        /\ \A i \in kept : \E n \in DOMAIN t : f[n] = i
        /\ \A n \in DOMAIN t : t[n] = s[f[n]]
  BY DEF Thins
<1>2. OwnersDiffer(t)
  BY <1>1 DEF OwnersDiffer
<1>3. Owners(t) = {s[k].run : k \in kept}
  BY <1>1 DEF Owners
<1> QED BY <1>2, <1>3

-----------------------------------------------------------------------------
(* The types *)

\* The events the daemon publishes.
LEMMA EventTypes ==
  ASSUME BusTypes
  PROVE  /\ \A i \in Nat, a \in DOMAIN Modes, ok \in BOOLEAN : CompletionEvent(i, a, ok) \in Event
         /\ \A a \in Await, tainted \in BOOLEAN : AwaitedEvent(a, tainted) \in Event
<1>1. \A a \in Segments, b \in Segments : <<a, b>> \in Kinds
  BY DEF Kinds
<1>2. /\ DOMAIN Modes \subseteq Segments
      /\ {"completed", "failed", "awaited"} \subseteq Segments
  BY NamesAssumption
<1>3. \A a \in Await : a.name \in Segments /\ a.run \in Nat
  BY DEF Await
<1> QED BY <1>1, <1>2, <1>3 DEF CompletionEvent, AwaitedEvent, Completed, Failed, Awaited, Event,
        BusTypes

\* What an outside source publishes is an event.
LEMMA OutsideEvents ==
  ASSUME BusTypes, NEW o \in Outside, NEW r \in Nat
  PROVE  [id |-> nextId, kind |-> o.kind, source |-> "other", origin |-> o.origin, ref |-> r,
          tainted |-> o.origin = "external"] \in Event
<1>1. o.kind \in Kinds /\ o.origin \in {"internal", "external"}
  BY OutsideAssumption
<1> QED BY <1>1 DEF Event, BusTypes

\* A run of a that is started: the runs of a that are not settled crowd it,
\* and it crowds them.
Launches(a, status) ==
  /\ runs' \in Seq(RunRecord) /\ Len(runs') = Len(runs) + 1
  /\ \A i \in DOMAIN runs :
       runs'[i] = IF i \in Unsettled(a) THEN [runs[i] EXCEPT !.crowded = TRUE] ELSE runs[i]
  /\ LET r == runs'[Len(runs) + 1] IN
       /\ r.action = a /\ r.status = status /\ r.awaited = 0 /\ r.by = 0 /\ ~ r.tainted
       /\ r.crowded <=> Unsettled(a) # {}

\* A run stays a run under every update the engine makes to it.
LEMMA RunUpdates ==
  ASSUME NEW r \in RunRecord
  PROVE  /\ [r EXCEPT !.crowded = TRUE] \in RunRecord
         /\ \A s \in Statuses : [r EXCEPT !.status = s] \in RunRecord
         /\ \A s \in Statuses, b \in BOOLEAN : [r EXCEPT !.status = s, !.late = b] \in RunRecord
         /\ \A b \in BOOLEAN : [r EXCEPT !.late = b] \in RunRecord
         /\ [r EXCEPT !.awaited = @ + 1] \in RunRecord
         /\ \A i \in Nat : [r EXCEPT !.by = i] \in RunRecord
<1>1. [r EXCEPT !.crowded = TRUE] \in RunRecord
  BY DEF RunRecord
<1>2. \A s \in Statuses : [r EXCEPT !.status = s] \in RunRecord
  BY DEF RunRecord
<1>3. \A b \in BOOLEAN : [r EXCEPT !.late = b] \in RunRecord
  BY DEF RunRecord
<1>4. \A s \in Statuses, b \in BOOLEAN : [r EXCEPT !.status = s, !.late = b] \in RunRecord
  BY DEF RunRecord
<1>5. [r EXCEPT !.awaited = @ + 1] \in RunRecord
  BY DEF RunRecord
<1>6. \A i \in Nat : [r EXCEPT !.by = i] \in RunRecord
  BY DEF RunRecord
<1> QED BY <1>1, <1>2, <1>3, <1>4, <1>5, <1>6

\* A new run is appended; those of the action that are not settled become crowded.
LEMMA Starting ==
  ASSUME RunTypes, NEW a \in DOMAIN Modes, NEW status \in Statuses, NEW awaits \in BOOLEAN
  PROVE  LET rs == Started(a, status, awaits, FALSE) IN
           /\ rs \in Seq(RunRecord) /\ Len(rs) = Len(runs) + 1
           /\ \A i \in DOMAIN runs :
                rs[i] = IF i \in Unsettled(a) THEN [runs[i] EXCEPT !.crowded = TRUE] ELSE runs[i]
           /\ rs[Len(runs) + 1] = [action |-> a, status |-> status, awaits |-> awaits,
                                   awaited |-> 0, by |-> 0, crowded |-> Unsettled(a) # {},
                                   late |-> FALSE, tainted |-> FALSE]
<1> DEFINE old == [i \in DOMAIN runs |->
                     IF i \in Unsettled(a) THEN [runs[i] EXCEPT !.crowded = TRUE] ELSE runs[i]]
           new == [action |-> a, status |-> status, awaits |-> awaits,
                   awaited |-> 0, by |-> 0, crowded |-> Unsettled(a) # {},
                   late |-> FALSE, tainted |-> FALSE]
<1>1. runs \in Seq(RunRecord) /\ Len(runs) \in Nat /\ DOMAIN runs = 1 .. Len(runs)
  BY LenProperties DEF RunTypes
<1>2. \A i \in DOMAIN runs : runs[i] \in RunRecord /\ [runs[i] EXCEPT !.crowded = TRUE] \in RunRecord
  <2>1. \A i \in DOMAIN runs : runs[i] \in RunRecord
    BY <1>1, ElementOfSeq
  <2> QED BY <2>1, RunUpdates
<1>3. old \in Seq(RunRecord) /\ Len(old) = Len(runs)
  BY <1>1, <1>2
<1>4. new \in RunRecord
  BY DEF RunRecord
<1>5. Started(a, status, awaits, FALSE) = Append(old, new)
  BY DEF Started
<1> HIDE DEF new
<1>6. \A i \in DOMAIN runs : Append(old, new)[i] = old[i]
  BY <1>1, <1>3, <1>4, AppendProperties
<1>7. /\ Append(old, new) \in Seq(RunRecord) /\ Len(Append(old, new)) = Len(runs) + 1
      /\ Append(old, new)[Len(runs) + 1] = new
  BY <1>1, <1>3, <1>4, AppendProperties
<1> QED BY <1>5, <1>6, <1>7 DEF new

\* Head and the elements of a list.
LEMMA Heads ==
  ASSUME NEW S, NEW s \in Seq(S), s # <<>>
  PROVE  /\ Head(s) \in S /\ 1 \in DOMAIN s /\ Head(s) = s[1] /\ DOMAIN s = 1 .. Len(s)
         /\ Len(s) \in Nat /\ Len(s) # 0
BY HeadTailProperties, EmptySeq, LenProperties

\* A trigger that fires starts one untainted run, may register one await of
\* it, and announces it if it is over.
Fire == FireQueued \/ FireInline \/ FireSpawn

Registers(a) ==
  \/ preflight' = preflight
  \/ \E w \in Await :
       /\ w.run = Len(runs) + 1 /\ w.action = a /\ ~ w.tainted
       /\ preflight' = Append(preflight, w)

\* What the dispatch of one trigger changes, however its action runs.
LEMMA Firing ==
  ASSUME TypeOK, Phases, Clean, Fire
  PROVE  /\ stage = "fire" /\ todo # <<>> /\ todo' = Tail(todo)
         /\ UNCHANGED <<triggers, pending, holder, stage, undrained, batch, pump, timedOut,
                        watcherVars, outside>>
         /\ \E a \in DOMAIN Modes, status \in Statuses :
              /\ Launches(a, status) /\ Registers(a)
              /\ \/ status = "running" /\ Modes[a] # "spawn" /\ UNCHANGED <<subs, nextId>>
                 \/ status = "settled" /\ ~ Announces(a) /\ UNCHANGED <<subs, nextId>>
                 \/ /\ status = "published" /\ Announces(a)
                    /\ \E ok \in BOOLEAN : Publish(CompletionEvent(Len(runs) + 1, a, ok))
<1>0. /\ RunTypes /\ BusTypes /\ todo \in Seq(Trigger) /\ batch \in Seq(Event)
      /\ Len(runs) \in Nat
  BY LenProperties DEF TypeOK, PumpTypes, RunTypes
<1>1. ASSUME NEW t, NEW e, Fires(t, e)
      PROVE  /\ stage = "fire" /\ todo # <<>> /\ t \in Trigger /\ Tainted(t, e) = FALSE
  <2>1. stage = "fire" /\ todo # <<>> /\ t = Head(todo) /\ e = Head(batch) /\ Eligible(t, e)
    BY <1>1 DEF Fires
  <2>2. t \in Trigger
    BY <1>0, <2>1, Heads
  <2>3. batch # <<>> /\ e \in Batched /\ e \in Event
    BY <1>0, <2>1, Heads DEF Batched, Phases
  <2>4. e.tainted => e.origin = "external"
    BY <2>3 DEF Clean
  <2> QED BY <2>1, <2>2, <2>4, <2>3 DEF Tainted, Eligible, Event, Trigger
<1>2. ASSUME NEW t \in Trigger, NEW e, Tainted(t, e) = FALSE,
             RegisterPreflight(t, e, Len(runs) + 1)
      PROVE  Registers(t.action)
  <2>1. CASE t.await = NoAwait
    BY <1>2, <2>1 DEF RegisterPreflight, Registers
  <2>2. CASE t.await # NoAwait
    <3> DEFINE w == [run |-> Len(runs) + 1, name |-> t.name, action |-> t.action, on |-> t.await,
                     keyed |-> t.keyed, fires |-> t.firesOnTimeout, left |-> Timeout,
                     tainted |-> FALSE, by |-> 0]
    <3>1. w \in Await
      BY <1>0, <2>2, TimeoutAssumption DEF Await, Trigger
    <3>2. preflight' = Append(preflight, w)
      BY <1>2, <2>2 DEF RegisterPreflight
    <3> QED BY <3>1, <3>2 DEF Registers
  <2> QED BY <2>1, <2>2
<1>3. ASSUME NEW a \in DOMAIN Modes, NEW status \in Statuses, NEW awaits \in BOOLEAN,
             runs' = Started(a, status, awaits, FALSE)
      PROVE  Launches(a, status)
  <2>1. /\ runs' \in Seq(RunRecord) /\ Len(runs') = Len(runs) + 1
        /\ \A i \in DOMAIN runs :
             runs'[i] = IF i \in Unsettled(a) THEN [runs[i] EXCEPT !.crowded = TRUE] ELSE runs[i]
        /\ runs'[Len(runs) + 1] = [action |-> a, status |-> status, awaits |-> awaits,
                                awaited |-> 0, by |-> 0, crowded |-> Unsettled(a) # {},
                                late |-> FALSE, tainted |-> FALSE]
    BY <1>0, <1>3, Starting, Zenon
  <2> DEFINE r == runs'[Len(runs) + 1]
  <2>2. r.action = a /\ r.status = status /\ r.awaited = 0 /\ r.by = 0 /\ ~ r.tainted
    BY <2>1
  <2>3. r.crowded = (Unsettled(a) # {})
    BY <2>1
  <2> QED BY <2>1, <2>2, <2>3, Zenon DEF Launches
<1>4. CASE FireQueued
  <2>1. PICK t, e : /\ Fires(t, e) /\ Modes[t.action] \in {"blocking", "forward"}
                    /\ runs' = Started(t.action, "running", t.await # NoAwait, Tainted(t, e))
                    /\ RegisterPreflight(t, e, Len(runs) + 1) /\ NextTrigger
                    /\ UNCHANGED <<triggers, pending, subs, holder, stage, undrained, batch, pump,
                                   timedOut, watcherVars, outside, nextId>>
    BY <1>4 DEF FireQueued
  <2>2. /\ stage = "fire" /\ todo # <<>> /\ t \in Trigger /\ Tainted(t, e) = FALSE
        /\ t.action \in DOMAIN Modes
    <3>1. stage = "fire" /\ todo # <<>> /\ t \in Trigger /\ Tainted(t, e) = FALSE
      BY <1>1, <2>1
    <3>2. t.action \in DOMAIN Modes
      BY <3>1 DEF Trigger
    <3> QED BY <2>1, <3>1, <3>2
  <2>3. Launches(t.action, "running") /\ Registers(t.action) /\ "running" \in Statuses
    BY <1>2, <1>3, <2>1, <2>2 DEF Statuses
  <2> QED BY <2>1, <2>2, <2>3 DEF NextTrigger
<1>5. CASE FireSpawn
  <2>1. PICK t, e : /\ Fires(t, e) /\ Modes[t.action] = "spawn"
                    /\ runs' = Started(t.action, "settled", t.await # NoAwait, Tainted(t, e))
                    /\ RegisterPreflight(t, e, Len(runs) + 1) /\ NextTrigger
                    /\ UNCHANGED <<triggers, pending, subs, holder, stage, undrained, batch, pump,
                                   timedOut, watcherVars, outside, nextId>>
    BY <1>5 DEF FireSpawn
  <2>2. /\ stage = "fire" /\ todo # <<>> /\ t \in Trigger /\ Tainted(t, e) = FALSE
        /\ t.action \in DOMAIN Modes /\ ~ Announces(t.action)
    <3>1. stage = "fire" /\ todo # <<>> /\ t \in Trigger /\ Tainted(t, e) = FALSE
      BY <1>1, <2>1
    <3>2. t.action \in DOMAIN Modes
      BY <3>1 DEF Trigger
    <3> QED BY <2>1, <3>1, <3>2 DEF Announces
  <2>3. Launches(t.action, "settled") /\ Registers(t.action) /\ "settled" \in Statuses
    BY <1>2, <1>3, <2>1, <2>2 DEF Statuses
  <2> QED BY <2>1, <2>2, <2>3 DEF NextTrigger
<1>6. CASE FireInline
  <2>1. PICK t \in TriggersOf(todo), e \in TriggersOf(batch), ok \in BOOLEAN :
          /\ Fires(t, e) /\ Inline(t, e, ok) /\ NextTrigger
          /\ UNCHANGED <<triggers, pending, holder, stage, undrained, batch, pump, timedOut,
                         watcherVars, outside>>
    BY <1>6 DEF FireInline
  <2> DEFINE status == IF t.action \in SilentActions THEN "settled" ELSE "published"
             accepted == ok \/ Modes[t.action] = "blocking"
             late == \E j \in SameAction(t.action) : runs[j].status \in {"running", "lost"}
             started == Started(t.action, status, accepted /\ t.await # NoAwait, FALSE)
             i == Len(runs) + 1
  <2>2. /\ stage = "fire" /\ todo # <<>> /\ t \in Trigger /\ Tainted(t, e) = FALSE
        /\ t.action \in DOMAIN Modes /\ status \in Statuses
        /\ Announces(t.action) <=> t.action \notin SilentActions
    <3>1. stage = "fire" /\ todo # <<>> /\ t \in Trigger /\ Tainted(t, e) = FALSE
      BY <1>1, <2>1
    <3>2. t.action \in DOMAIN Modes
      BY <3>1 DEF Trigger
    <3>3. Modes[t.action] # "spawn"
      BY <2>1 DEF Inline
    <3> QED BY <3>1, <3>2, <3>3 DEF Announces, Statuses
  <2>3. Registers(t.action)
    BY <1>2, <2>1, <2>2 DEF Registers, Inline
  <2>4. runs' = [started EXCEPT ![i].late = late]
    BY <2>1, <2>2 DEF Inline
  <2>5. Launches(t.action, status)
    <3> DEFINE new == [action |-> t.action, status |-> status,
                       awaits |-> accepted /\ t.await # NoAwait, awaited |-> 0, by |-> 0,
                       crowded |-> Unsettled(t.action) # {}, late |-> FALSE, tainted |-> FALSE]
    <3> HIDE DEF late
    <3>1. /\ started \in Seq(RunRecord) /\ Len(started) = i /\ started[i] = new
          /\ \A j \in DOMAIN runs :
               started[j] = IF j \in Unsettled(t.action)
                            THEN [runs[j] EXCEPT !.crowded = TRUE] ELSE runs[j]
      <4>1. (accepted /\ t.await # NoAwait) \in BOOLEAN
        OBVIOUS
      <4> HIDE DEF status, accepted
      <4> QED BY <1>0, <2>2, <4>1, Starting, Zenon
    <3> HIDE DEF started
    <3>2. late \in BOOLEAN
      BY DEF late
    <3>3. new \in RunRecord
      BY <2>2 DEF RunRecord
    <3>4. [new EXCEPT !.late = late] \in RunRecord
      BY <3>2, <3>3, RunUpdates
    <3>5. DOMAIN started = 1 .. i /\ i \in 1 .. i /\ DOMAIN runs = 1 .. Len(runs)
      BY <1>0, <3>1, LenProperties DEF RunTypes
    <3>6. runs' \in Seq(RunRecord) /\ Len(runs') = i /\ runs'[i] = [new EXCEPT !.late = late]
      BY <2>4, <3>1, <3>4, <3>5
    <3>7. \A j \in DOMAIN runs : runs'[j] = started[j]
      BY <1>0, <2>4, <3>1, <3>5
    <3>8. \A j \in DOMAIN runs :
               runs'[j] = IF j \in Unsettled(t.action)
                            THEN [runs[j] EXCEPT !.crowded = TRUE] ELSE runs[j]
      BY <3>1, <3>7
    <3> QED BY <3>6, <3>8 DEF Launches
  <2>6. \/ status = "settled" /\ ~ Announces(t.action) /\ UNCHANGED <<subs, nextId>>
        \/ status = "published" /\ Announces(t.action) /\ Publish(CompletionEvent(i, t.action, ok))
    BY <2>1, <2>2 DEF Inline
  <2> HIDE DEF status
  <2> QED BY <2>1, <2>2, <2>3, <2>5, <2>6 DEF NextTrigger
<1> QED BY <1>4, <1>5, <1>6 DEF Fire

-----------------------------------------------------------------------------
(* Who writes what *)

\* What a publish does to the receivers.
LEMMA Publishing ==
  ASSUME BusTypes, NEW e \in Event, Publish(e)
  PROVE  /\ BusTypes' /\ DOMAIN subs' = DOMAIN subs /\ nextId' = nextId + 1
         /\ \A p \in DOMAIN subs : \A j \in DOMAIN subs[p] :
              j \in DOMAIN subs'[p] /\ subs'[p][j] = subs[p][j]
         /\ \A p \in DOMAIN subs : \A j \in DOMAIN subs'[p] :
              \/ j \in DOMAIN subs[p]
              \/ subs'[p][j] = e /\ j = Len(subs[p]) + 1 /\ Matches(p, e.kind)
<1>1. subs' = Delivered(subs, e) /\ nextId' = nextId + 1
  BY DEF Publish
<1>2. DOMAIN subs' = DOMAIN subs
  BY <1>1 DEF Delivered
<1>3. ASSUME NEW p \in DOMAIN subs
      PROVE  /\ subs'[p] \in Seq(Event)
             /\ \A j \in DOMAIN subs[p] : j \in DOMAIN subs'[p] /\ subs'[p][j] = subs[p][j]
             /\ \A j \in DOMAIN subs'[p] :
                  \/ j \in DOMAIN subs[p]
                  \/ subs'[p][j] = e /\ j = Len(subs[p]) + 1 /\ Matches(p, e.kind)
  <2>1. subs[p] \in Seq(Event) /\ Len(subs[p]) \in Nat /\ DOMAIN subs[p] = 1 .. Len(subs[p])
    BY <1>3, LenProperties DEF BusTypes
  <2>2. subs'[p] = IF Matches(p, e.kind) THEN Append(subs[p], e) ELSE subs[p]
    BY <1>1, <1>3 DEF Delivered
  <2>3. CASE ~ Matches(p, e.kind)
    BY <2>1, <2>2, <2>3
  <2>4. CASE Matches(p, e.kind)
    <3>1. /\ subs'[p] \in Seq(Event) /\ Len(subs'[p]) = Len(subs[p]) + 1
          /\ \A j \in 1 .. Len(subs[p]) : subs'[p][j] = subs[p][j]
          /\ subs'[p][Len(subs[p]) + 1] = e
      BY <2>1, <2>2, <2>4, AppendProperties
    <3>2. DOMAIN subs'[p] = 1 .. Len(subs[p]) + 1
      BY <3>1, LenProperties
    <3>3. \A j \in 1 .. Len(subs[p]) + 1 : j \in 1 .. Len(subs[p]) \/ j = Len(subs[p]) + 1
      BY <2>1
    <3> QED BY <2>1, <2>4, <3>1, <3>2, <3>3
  <2> QED BY <2>3, <2>4
<1>4. subs' \in [DOMAIN subs' -> Seq(Event)]
  BY <1>1, <1>2, <1>3 DEF Delivered
<1> QED BY <1>1, <1>2, <1>3, <1>4 DEF BusTypes

\* What the daemon and others publish.
CleanEvent(e) ==
  (e.tainted => e.origin = "external") /\ (e.source = "action" => e.origin = "internal")

\* The pools hold awaits.
LEMMA AwaitElements ==
  ASSUME EngineTypes
  PROVE  /\ \A k \in DOMAIN preflight : preflight[k] \in Await
         /\ \A k \in DOMAIN pending : pending[k] \in Await
         /\ \A k \in DOMAIN timedOut : timedOut[k] \in Await
BY ElementOfSeq, LenProperties DEF EngineTypes

\* The first of some positions is one of them, and 0 if there are none.
LEMMA FirstOne ==
  ASSUME NEW S, NEW s \in Seq(S), NEW indices \in SUBSET DOMAIN s
  PROVE  /\ First(indices) = 0 <=> indices = {}
         /\ First(indices) # 0 => First(indices) \in indices
<1>1. DOMAIN s = 1 .. Len(s) /\ Len(s) \in Nat
  BY LenProperties
<1>2. indices # {} => \E i \in indices : \A j \in indices : i <= j
  <2>1. indices \in SUBSET Nat
    BY <1>1
  <2> QED BY <2>1, LeastNatural
<1>3. indices # {} => First(indices) \in indices
  BY <1>2 DEF First
<1>4. 0 \notin indices
  BY <1>1
<1> QED BY <1>3, <1>4 DEF First

\* What matching one event of the batch against the pending awaits changes.
LEMMA Matching ==
  ASSUME TypeOK, Phases, Clean, Match
  PROVE  /\ stage' = "fire" /\ stage = "match" /\ batch # <<>> /\ todo' = triggers
         /\ UNCHANGED <<triggers, preflight, holder, undrained, batch, pump, timedOut, watcherVars,
                        outside>>
         /\ \/ UNCHANGED <<pending, runs, subs, nextId>>
            \/ \E k \in DOMAIN pending, e \in Event :
                 /\ pending' = Without(pending, k)
                 /\ runs' = [runs EXCEPT ![pending[k].run].awaited = @ + 1]
                 /\ Publish(e) /\ e.id = nextId /\ e.source = "await" /\ ~ e.tainted
<1> DEFINE e == Head(batch)
           fitting == {k \in DOMAIN pending : Satisfies(e, pending[k])}
           i == IF Trusted(e) THEN First(fitting) ELSE 0
<1>1. /\ stage = "match" /\ stage' = "fire" /\ todo' = triggers
      /\ UNCHANGED <<triggers, preflight, holder, undrained, batch, pump, timedOut, watcherVars,
                     outside>>
      /\ IF i = 0
         THEN UNCHANGED <<pending, runs, subs, nextId>>
         ELSE /\ pending' = Without(pending, i)
              /\ runs' = [runs EXCEPT ![pending[i].run].awaited = @ + 1]
              /\ Publish(AwaitedEvent(pending[i], e.tainted))
  BY DEF Match
<1>2. batch # <<>>
  BY <1>1 DEF Phases
<1>3. CASE i # 0
  <2>1. Trusted(e) /\ i \in DOMAIN pending
    BY <1>3, FirstOne DEF TypeOK, EngineTypes
  <2>2. pending[i] \in Await
    BY <2>1, AwaitElements DEF TypeOK
  <2>3. e.tainted = FALSE
    <3>1. e \in Batched /\ e \in Event
      BY <1>2, Heads DEF TypeOK, PumpTypes, Batched
    <3>2. (e.tainted => e.origin = "external") /\ e.tainted \in BOOLEAN
      BY <3>1 DEF Clean, Event
    <3> QED BY <2>1, <3>2 DEF Trusted
  <2> DEFINE new == AwaitedEvent(pending[i], FALSE)
  <2>4. new \in Event
    BY <2>2, EventTypes DEF TypeOK
  <2>5. new.id = nextId /\ new.source = "await" /\ ~ new.tainted
    BY DEF AwaitedEvent
  <2>6. Publish(new) /\ pending' = Without(pending, i)
        /\ runs' = [runs EXCEPT ![pending[i].run].awaited = @ + 1]
    BY <1>1, <1>3, <2>3
  <2> HIDE DEF new, i
  <2> QED BY <1>1, <1>2, <2>1, <2>4, <2>5, <2>6
<1>4. CASE i = 0
  BY <1>1, <1>2, <1>4
<1> QED BY <1>3, <1>4

\* An event is published by others, at the end of a run, or for an await.
LEMMA Publications ==
  ASSUME TypeOK, Phases, Clean, Awaits, [Next]_vars
  PROVE  \/ UNCHANGED <<subs, nextId>>
         \/ \E e \in Event : /\ Publish(e) /\ e.id = nextId /\ CleanEvent(e)
                            /\ UNCHANGED <<batch, watcherVars>>
         \/ \E p \in undrained : DrainReceiver(p)
         \/ Retain
         \/ \E p \in Needed(loaded) : Subscribe(p)
<1> DEFINE Publishes ==
      \E e \in Event : /\ Publish(e) /\ e.id = nextId /\ CleanEvent(e)
                      /\ UNCHANGED <<batch, watcherVars>>
<1>0. /\ BusTypes /\ RunTypes /\ EngineTypes /\ runs \in Seq(RunRecord) /\ Len(runs) \in Nat
      /\ DOMAIN runs = 1 .. Len(runs)
  BY LenProperties DEF TypeOK, RunTypes
<1>1. ASSUME PublishOutside PROVE Publishes
  <2>1. PICK o \in Outside, r \in 0 .. Len(runs) :
          Publish([id |-> nextId, kind |-> o.kind, source |-> "other", origin |-> o.origin,
                   ref |-> r, tainted |-> o.origin = "external"])
    BY <1>1 DEF PublishOutside
  <2> DEFINE e == [id |-> nextId, kind |-> o.kind, source |-> "other", origin |-> o.origin,
                   ref |-> r, tainted |-> o.origin = "external"]
  <2>2. e \in Event
    BY <1>0, OutsideEvents
  <2>3. e.id = nextId /\ CleanEvent(e)
    BY DEF CleanEvent
  <2>4. UNCHANGED <<batch, watcherVars>>
    BY <1>1 DEF PublishOutside, pumpVars
  <2> HIDE DEF e
  <2> QED BY <2>1, <2>2, <2>3, <2>4 DEF e
<1>2. \A i \in Nat, a \in DOMAIN Modes, ok \in BOOLEAN :
        LET e == CompletionEvent(i, a, ok) IN e \in Event /\ e.id = nextId /\ CleanEvent(e)
  BY <1>0, EventTypes DEF CompletionEvent, CleanEvent
<1>3. ASSUME NEW i \in DOMAIN runs, Complete(i) \/ Panic(i)
      PROVE  UNCHANGED <<subs, nextId>> \/ Publishes
  <2>1. CASE Panic(i)
    BY <2>1 DEF Panic
  <2>2. CASE Complete(i) /\ runs[i].action \in SilentActions
    BY <2>2 DEF Complete
  <2>3. CASE Complete(i) /\ runs[i].action \notin SilentActions
    <3>1. PICK ok \in BOOLEAN : Publish(CompletionEvent(i, runs[i].action, ok))
      BY <2>3 DEF Complete
    <3>2. runs[i].action \in DOMAIN Modes /\ i \in Nat
      <4>1. runs[i] \in RunRecord
        BY <1>0, ElementOfSeq
      <4> QED BY <1>0, <4>1 DEF RunRecord
    <3>3. UNCHANGED <<batch, watcherVars>>
      BY <2>3 DEF Complete, pumpVars
    <3> QED BY <1>2, <3>1, <3>2, <3>3
  <2> QED BY <1>3, <2>1, <2>2, <2>3
<1>4. ASSUME Match PROVE UNCHANGED <<subs, nextId>> \/ Publishes
  BY <1>4, Matching DEF CleanEvent
<1>5. ASSUME Fire PROVE UNCHANGED <<subs, nextId>> \/ Publishes
  <2>1. PICK a \in DOMAIN Modes, status \in Statuses :
           \/ UNCHANGED <<subs, nextId>>
           \/ \E ok \in BOOLEAN : Publish(CompletionEvent(Len(runs) + 1, a, ok))
    BY <1>5, Firing
  <2>2. UNCHANGED <<batch, watcherVars>>
    BY <1>5, Firing
  <2> QED BY <1>0, <1>2, <2>1, <2>2
<1>6. ASSUME PublishDefault PROVE Publishes
  <2>1. /\ timedOut # <<>> /\ UNCHANGED <<batch, watcherVars>>
        /\ Publish(AwaitedEvent(Head(timedOut), Head(timedOut).tainted))
    BY <1>6 DEF PublishDefault, pumpVars
  <2>2. Head(timedOut) \in Await /\ Head(timedOut).tainted = FALSE
    <3>1. Head(timedOut) \in Await /\ 1 \in DOMAIN timedOut /\ Head(timedOut) = timedOut[1]
      BY <1>0, <2>1, Heads DEF EngineTypes
    <3> QED BY <3>1 DEF Awaits, Fits, Await
  <2> DEFINE e == AwaitedEvent(Head(timedOut), FALSE)
  <2>3. e \in Event
    BY <1>0, <2>2, EventTypes
  <2>4. e.id = nextId /\ CleanEvent(e)
    BY DEF AwaitedEvent, CleanEvent
  <2>5. Publish(e)
    BY <2>1, <2>2
  <2> HIDE DEF e
  <2> QED BY <2>1, <2>3, <2>4, <2>5
<1> HIDE DEF Publishes
<1>7. CASE PumpAll
  <2>1. CASE SortBatch \/ BatchEnds \/ Promote \/ PassOver \/ FireRefused \/ DispatchEnds
    BY <2>1 DEF SortBatch, BatchEnds, Promote, PassOver, FireRefused, DispatchEnds
  <2> QED BY <1>4, <1>5, <1>7, <2>1 DEF PumpAll, Dispatch, Fire, Publishes
<1>8. CASE Sweep
  BY <1>6, <1>8 DEF Sweep, SweepPreflight, SweepPending, SweepEnds, Publishes
<1>9. CASE Reload
  BY <1>9 DEF Reload, ClearPreflight, ClearPending, ReloadEnds
<1>10. CASE \/ \E a \in DOMAIN Modes : InvokeOutside(a)
            \/ \E who \in {"pump", "watcher"} : Lock(who)
            \/ Tick \/ SetTriggers \/ UNCHANGED vars
  BY <1>10 DEF InvokeOutside, Lock, Tick, SetTriggers, vars
<1> QED BY <1>1, <1>3, <1>7, <1>8, <1>9, <1>10 DEF Next, Publishes

\* What stands behind a sequence of length a has its place there.
LEMMA Behind ==
  ASSUME NEW a \in Nat, NEW b \in Nat, NEW k \in 1 .. b
  PROVE  \E m \in 1 .. a + b : ~ (m <= a) /\ m - a = k
<1>1. k + a \in 1 .. a + b /\ ~ (k + a <= a) /\ (k + a) - a = k
  OBVIOUS
<1> QED BY <1>1

\* sort_by_key keeps every event and puts the completions first.
LEMMA Sorting ==
  ASSUME NEW s \in Seq(Event)
  PROVE  /\ Sorted(s) \in Seq(Event) /\ Thins(Sorted(s), s, DOMAIN s)
         /\ CompletionsFirst(Sorted(s))
<1> DEFINE early == {k \in DOMAIN s : IsCompletion(s[k])}
           late == DOMAIN s \ early
           u == At(s, early)
           v == At(s, late)
           t == u \o v
<1>1. PICK f \in [DOMAIN u -> early] :
        /\ \A m, n \in DOMAIN u : f[m] = f[n] => m = n
        /\ \A i \in early : \E n \in DOMAIN u : f[n] = i
        /\ \A n \in DOMAIN u : u[n] = s[f[n]]
  <2>1. Thins(u, s, early)
    BY Picking
  <2> QED BY <2>1 DEF Thins
<1>2. PICK g \in [DOMAIN v -> late] :
        /\ \A m, n \in DOMAIN v : g[m] = g[n] => m = n
        /\ \A i \in late : \E n \in DOMAIN v : g[n] = i
        /\ \A n \in DOMAIN v : v[n] = s[g[n]]
  <2>1. Thins(v, s, late)
    BY Picking
  <2> QED BY <2>1 DEF Thins
<1>3. u \in Seq(Event) /\ v \in Seq(Event)
  BY Picking
<1>4. Sorted(s) = t
  BY DEF Sorted
<1> HIDE DEF u, v
<1>5. /\ DOMAIN u = 1 .. Len(u) /\ DOMAIN v = 1 .. Len(v) /\ Len(u) \in Nat /\ Len(v) \in Nat
  BY <1>3, LenProperties
<1>6. /\ t \in Seq(Event) /\ Len(t) = Len(u) + Len(v)
      /\ \A n \in 1 .. Len(u) + Len(v) : t[n] = IF n <= Len(u) THEN u[n] ELSE v[n - Len(u)]
  BY <1>3, ConcatProperties
<1>7. DOMAIN t = 1 .. Len(u) + Len(v)
  BY <1>6, LenProperties
<1> HIDE DEF t
<1> DEFINE h == [n \in DOMAIN t |-> IF n <= Len(u) THEN f[n] ELSE g[n - Len(u)]]
<1>8. \A n \in DOMAIN t :
        \/ n \in DOMAIN u /\ n <= Len(u)
        \/ n - Len(u) \in DOMAIN v /\ ~ (n <= Len(u))
  BY <1>5, <1>7
<1>9. h \in [DOMAIN t -> DOMAIN s]
  BY <1>1, <1>2, <1>8
<1>10. \A n \in DOMAIN t : t[n] = s[h[n]] /\ (IsCompletion(t[n]) <=> n <= Len(u))
  <2> TAKE n \in DOMAIN t
  <2>1. CASE n \in DOMAIN u /\ n <= Len(u)
    BY <1>1, <1>6, <1>7, <2>1
  <2>2. CASE n - Len(u) \in DOMAIN v /\ ~ (n <= Len(u))
    <3>1. t[n] = v[n - Len(u)] /\ g[n - Len(u)] \in late /\ h[n] = g[n - Len(u)]
      BY <1>2, <1>6, <1>7, <2>2
    <3> QED BY <1>2, <2>2, <3>1
  <2> QED BY <1>8, <2>1, <2>2
<1>11. \A m, n \in DOMAIN t : h[m] = h[n] => m = n
  <2> TAKE m \in DOMAIN t, n \in DOMAIN t
  <2>0. m \in Nat /\ n \in Nat
    BY <1>5, <1>7
  <2>1. h[m] = h[n] => (m <= Len(u) <=> n <= Len(u))
    BY <1>10
  <2>2. CASE m <= Len(u) /\ n <= Len(u)
    BY <1>1, <1>8, <2>2
  <2>3. CASE ~ (m <= Len(u)) /\ ~ (n <= Len(u))
    <3>1. h[m] = h[n] => m - Len(u) = n - Len(u)
      BY <1>2, <1>8, <2>3
    <3> QED BY <1>5, <2>0, <3>1
  <2> QED BY <2>1, <2>2, <2>3
<1>12. \A i \in DOMAIN s : \E n \in DOMAIN t : h[n] = i
  <2> TAKE i \in DOMAIN s
  <2>1. CASE i \in early
    <3>1. PICK n \in DOMAIN u : f[n] = i
      BY <1>1, <2>1
    <3>2. n \in DOMAIN t /\ n <= Len(u)
      BY <1>5, <1>7
    <3>3. h[n] = i
      BY <3>1, <3>2
    <3> QED BY <3>2, <3>3
  <2>2. CASE i \in late
    <3>1. PICK n \in DOMAIN v : g[n] = i
      BY <1>2, <2>2
    <3>2. PICK m \in DOMAIN t : ~ (m <= Len(u)) /\ m - Len(u) = n
      <4> HIDE DEF h
      <4>1. n \in 1 .. Len(v) /\ Len(u) \in Nat /\ Len(v) \in Nat
        BY <1>5
      <4>2. \E m \in 1 .. Len(u) + Len(v) : ~ (m <= Len(u)) /\ m - Len(u) = n
        BY <4>1, Behind
      <4> QED BY <1>7, <4>2
    <3>3. h[m] = g[m - Len(u)]
      BY <3>2
    <3> QED BY <3>1, <3>2, <3>3
  <2> QED BY <2>1, <2>2
<1>13. CompletionsFirst(t)
  <2> SUFFICES ASSUME NEW j \in DOMAIN t, NEW k \in DOMAIN t, j < k, k <= Len(u)
               PROVE  j <= Len(u)
    BY <1>10 DEF CompletionsFirst
  <2> QED BY <1>5, <1>7
<1>14. Thins(t, s, DOMAIN s)
  <2> HIDE DEF h
  <2> QED BY <1>9, <1>10, <1>11, <1>12 DEF Thins
<1> QED BY <1>4, <1>6, <1>13, <1>14

\* How the batch changes while the receivers do not, or with them.
LEMMA Batches ==
  ASSUME TypeOK, Phases, [Next]_vars
  PROVE  \/ UNCHANGED batch
         \/ /\ UNCHANGED <<subs, nextId, runs>> /\ batch' \in Seq(Event)
            /\ \E kept \in SUBSET DOMAIN batch : Thins(batch', batch, kept)
            /\ \/ stage = "drain" /\ SortBatch
               \/ stage = "fire" /\ DispatchEnds
         \/ stage = "drain" /\ \E p \in undrained : DrainReceiver(p)
<1>0. batch \in Seq(Event)
  BY DEF TypeOK, PumpTypes
<1>1. ASSUME SortBatch
      PROVE  /\ UNCHANGED <<subs, nextId, runs>> /\ batch' \in Seq(Event) /\ stage = "drain"
             /\ Thins(batch', batch, DOMAIN batch)
  BY <1>0, <1>1, Sorting DEF SortBatch
<1>2. ASSUME DispatchEnds
      PROVE  /\ UNCHANGED <<subs, nextId, runs>> /\ batch' \in Seq(Event) /\ stage = "fire"
             /\ Thins(batch', batch, DOMAIN batch \ {1})
  BY <1>0, <1>2, TailThins DEF DispatchEnds, Phases
<1>3. CASE PumpAll
  <2>1. CASE SortBatch
    BY <1>1, <2>1
  <2>2. CASE DispatchEnds
    <3>1. DOMAIN batch \ {1} \in SUBSET DOMAIN batch
      OBVIOUS
    <3> QED BY <1>2, <2>2, <3>1
  <2>3. CASE \E p \in undrained : DrainReceiver(p)
    BY <2>3 DEF DrainReceiver
  <2>4. CASE BatchEnds \/ Promote \/ Match \/ PassOver \/ FireQueued \/ FireInline \/ FireSpawn
             \/ FireRefused
    BY <2>4 DEF BatchEnds, Promote, Match, PassOver, FireQueued, FireInline, FireSpawn, FireRefused
  <2> QED BY <1>3, <2>1, <2>2, <2>3, <2>4 DEF PumpAll, Dispatch
<1>4. CASE Sweep \/ Reload
  BY <1>4 DEF Sweep, SweepPreflight, SweepPending, PublishDefault, SweepEnds, Reload,
     ClearPreflight, ClearPending, Retain, Subscribe, ReloadEnds, pumpVars
<1>5. CASE \/ PublishOutside
           \/ \E i \in DOMAIN runs : Complete(i) \/ Panic(i)
           \/ \E a \in DOMAIN Modes : InvokeOutside(a)
           \/ \E who \in {"pump", "watcher"} : Lock(who)
           \/ Tick \/ SetTriggers \/ UNCHANGED vars
  BY <1>5 DEF PublishOutside, Complete, Panic, InvokeOutside, Lock, Tick, SetTriggers, vars, pumpVars
<1> QED BY <1>3, <1>4, <1>5 DEF Next

-----------------------------------------------------------------------------
(* The receivers and the events in them *)

\* A drained receiver's events go behind the batch.
LEMMA Draining ==
  ASSUME TypeOK, NEW p \in undrained, DrainReceiver(p)
  PROVE  /\ p \in DOMAIN subs /\ DOMAIN subs' = DOMAIN subs /\ BusTypes' /\ nextId' = nextId
         /\ subs'[p] = <<>> /\ \A q \in DOMAIN subs \ {p} : subs'[q] = subs[q]
         /\ batch' \in Seq(Event)
         /\ \A k \in DOMAIN batch' :
              \/ k \in DOMAIN batch /\ batch'[k] = batch[k]
              \/ ~ (k \in DOMAIN batch) /\ k - Len(batch) \in DOMAIN subs[p] /\ batch'[k] = subs[p][k - Len(batch)]
         /\ UNCHANGED <<runs, watcherVars>> /\ stage' = stage /\ stage = "drain"
<1>1. /\ batch' = batch \o subs[p] /\ subs' = [subs EXCEPT ![p] = <<>>] /\ nextId' = nextId
      /\ UNCHANGED <<runs, watcherVars>> /\ stage' = stage /\ stage = "drain"
  BY DEF DrainReceiver
<1>2. /\ p \in DOMAIN subs /\ subs[p] \in Seq(Event) /\ batch \in Seq(Event)
      /\ subs \in [DOMAIN subs -> Seq(Event)]
  BY DEF TypeOK, BusTypes, PumpTypes
<1>3. /\ DOMAIN batch = 1 .. Len(batch) /\ Len(batch) \in Nat
      /\ DOMAIN subs[p] = 1 .. Len(subs[p]) /\ Len(subs[p]) \in Nat
  BY <1>2, LenProperties
<1>4. /\ batch' \in Seq(Event) /\ Len(batch') = Len(batch) + Len(subs[p])
      /\ \A k \in 1 .. Len(batch) + Len(subs[p]) :
           batch'[k] = IF k <= Len(batch) THEN batch[k] ELSE subs[p][k - Len(batch)]
  BY <1>1, <1>2, ConcatProperties
<1>5. DOMAIN batch' = 1 .. Len(batch) + Len(subs[p])
  BY <1>4, LenProperties
<1>6. \A n, m \in Nat : \A k \in 1 .. n + m :
        IF k <= n THEN k \in 1 .. n ELSE ~ (k \in 1 .. n) /\ k - n \in 1 .. m
  OBVIOUS
<1>7. \A k \in DOMAIN batch' :
              \/ k \in DOMAIN batch /\ batch'[k] = batch[k]
              \/ ~ (k \in DOMAIN batch) /\ k - Len(batch) \in DOMAIN subs[p] /\ batch'[k] = subs[p][k - Len(batch)]
  BY <1>3, <1>4, <1>5, <1>6
<1>8. /\ DOMAIN subs' = DOMAIN subs /\ subs'[p] = <<>> /\ \A q \in DOMAIN subs \ {p} : subs'[q] = subs[q]
      /\ BusTypes'
  BY <1>1, <1>2, EmptySeq DEF TypeOK, BusTypes
<1> QED BY <1>1, <1>2, <1>4, <1>7, <1>8

\* The patterns a list of triggers needs are patterns.
LEMMA NeededPatterns ==
  ASSUME NEW list \in Configs
  PROVE  Requested(list) \subseteq Patterns /\ Needed(list) \subseteq Patterns
<1>1. \A t \in TriggersOf(list) : t \in Trigger
  <2>1. list \in Seq(Trigger)
    BY ConfigsAssumption
  <2> QED BY <2>1, ElementOfSeq, LenProperties DEF TriggersOf
<1>2. \A a \in DOMAIN Modes : Exact(Completed(a)) \in Patterns /\ Exact(Failed(a)) \in Patterns
  <2>1. \A a, b \in Segments : <<a, b>> \in Kinds
    BY DEF Kinds
  <2> QED BY <2>1, NamesAssumption DEF Exact, Completed, Failed, Patterns
<1>3. \A t \in Trigger : /\ t.when \in Patterns /\ t.action \in DOMAIN Modes
                         /\ t.await # NoAwait => t.await \in Patterns
  BY DEF Trigger
<1>4. Requested(list) \subseteq Patterns
  BY <1>1, <1>2, <1>3 DEF Requested
<1> QED BY <1>4 DEF Needed, Covering

\* No pattern of a set covers another, so none of a part of it does.
LEMMA Antichains ==
  /\ \A s, t : Covering(s) = s /\ t \subseteq s => Covering(t) = t
  /\ \A s : Covering(Covering(s)) = Covering(s)
BY DEF Covering

\* reconcile only ever gives a receiver up, or opens an empty one.
LEMMA Reconciling ==
  ASSUME TypeOK, Receivers, Retain \/ \E p \in Needed(loaded) : Subscribe(p)
  PROVE  /\ BusTypes' /\ Receivers'
         /\ UNCHANGED <<batch, nextId, runs, holder, stage, undrained, loaded>>
         /\ watcher' = "subscribe" /\ watcher \in {"reconcile", "subscribe"}
         /\ \A p \in DOMAIN subs' : \/ p \in DOMAIN subs /\ subs'[p] = subs[p]
                                    \/ subs'[p] = <<>>
<1>0. /\ subs \in [DOMAIN subs -> Seq(Event)] /\ DOMAIN subs \subseteq Patterns /\ nextId \in Nat
      /\ Needed(loaded) \subseteq Patterns
  BY NeededPatterns DEF TypeOK, BusTypes, EngineTypes
<1>1. CASE Retain
  <2>1. /\ subs' = [p \in DOMAIN subs \cap Needed(loaded) |-> subs[p]]
        /\ UNCHANGED <<batch, nextId, runs, holder, stage, undrained, loaded>>
        /\ watcher' = "subscribe" /\ watcher = "reconcile"
    BY <1>1 DEF Retain, pumpVars
  <2>2. DOMAIN subs' = DOMAIN subs \cap Needed(loaded)
    BY <2>1
  <2>3. BusTypes'
    BY <1>0, <2>1 DEF BusTypes
  <2>4. Receivers'
    BY <2>1, <2>2, Antichains DEF Receivers
  <2> QED BY <2>1, <2>3, <2>4
<1>2. ASSUME NEW p \in Needed(loaded), Subscribe(p)
      PROVE  /\ BusTypes' /\ Receivers'
             /\ UNCHANGED <<batch, nextId, runs, holder, stage, undrained, loaded>>
             /\ watcher' = "subscribe" /\ watcher = "subscribe"
             /\ \A q \in DOMAIN subs' : \/ q \in DOMAIN subs /\ subs'[q] = subs[q]
                                        \/ subs'[q] = <<>>
  <2>1. /\ subs' = [q \in DOMAIN subs \cup {p} |-> IF q = p THEN <<>> ELSE subs[q]]
        /\ UNCHANGED <<batch, nextId, runs, holder, stage, undrained, loaded>>
        /\ watcher' = "subscribe" /\ watcher = "subscribe"
    BY <1>2 DEF Subscribe, pumpVars, watcherVars
  <2>2. DOMAIN subs' = DOMAIN subs \cup {p}
    BY <2>1
  <2>3. BusTypes'
    BY <1>0, <2>1 DEF BusTypes
  <2>4. DOMAIN subs' \subseteq Needed(loaded)
    BY <2>1, <2>2 DEF Receivers
  <2>5. Covering(DOMAIN subs') = DOMAIN subs'
    BY <2>4, Antichains DEF Needed
  <2> QED BY <2>1, <2>3, <2>4, <2>5 DEF Receivers
<1> QED BY <1>1, <1>2

\* The pump's stages keep their meaning.
LEMMA PhasesStep ==
  ASSUME TypeOK, Phases, Clean, [Next]_vars
  PROVE  Phases'
<1>0. holder \in {"free", "pump", "watcher"} /\ batch \in Seq(Event)
  BY DEF TypeOK, PumpTypes
<1>1. CASE SortBatch
  <2>1. CompletionsFirst(batch')
    BY <1>0, <1>1, Sorting DEF SortBatch
  <2> QED BY <1>1, <2>1 DEF Phases, SortBatch, watcherVars
<1>2. CASE DispatchEnds
  <2>1. /\ stage = "fire" /\ batch' = Tail(batch) /\ stage' = "promote"
        /\ UNCHANGED <<holder, undrained, watcher>> /\ batch # <<>> /\ CompletionsFirst(batch)
    BY <1>2 DEF DispatchEnds, watcherVars, Phases
  <2>2. /\ DOMAIN batch = 1 .. Len(batch) /\ Len(batch) \in Nat
        /\ DOMAIN Tail(batch) = 1 .. Len(batch) - 1
        /\ \A k \in DOMAIN Tail(batch) : Tail(batch)[k] = batch[k + 1]
    <3>1. /\ Tail(batch) \in Seq(Event) /\ Len(Tail(batch)) = Len(batch) - 1
          /\ \A k \in 1 .. Len(Tail(batch)) : Tail(batch)[k] = batch[k + 1]
      BY <1>0, <2>1, HeadTailProperties
    <3> QED BY <1>0, <3>1, LenProperties
  <2>3. \A j \in DOMAIN Tail(batch) : j + 1 \in DOMAIN batch
    BY <2>2
  <2>4. \A j, k \in DOMAIN Tail(batch) : j < k => j + 1 < k + 1
    BY <2>2
  <2>5. CompletionsFirst(batch')
    BY <2>1, <2>2, <2>3, <2>4 DEF CompletionsFirst
  <2> QED BY <2>1, <2>5 DEF Phases
<1>3. CASE \E p \in undrained : DrainReceiver(p)
  BY <1>3 DEF Phases, DrainReceiver, watcherVars
<1>4. CASE BatchEnds
  BY <1>0, <1>4 DEF Phases, BatchEnds
<1>5. CASE Promote \/ PassOver \/ FireRefused
  BY <1>5 DEF Phases, Promote, PassOver, FireRefused, watcherVars
<1>6. CASE Match
  BY <1>6, Matching DEF Phases, watcherVars
<1>7. CASE Fire
  <2>1. UNCHANGED <<holder, stage, undrained, batch, watcherVars>>
    BY <1>7, Firing
  <2> QED BY <2>1 DEF Phases, watcherVars
<1>8. CASE PumpAll
  BY <1>1, <1>2, <1>3, <1>4, <1>5, <1>6, <1>7, <1>8 DEF PumpAll, Dispatch, Fire
<1>9. CASE Sweep
  BY <1>9 DEF Phases, Sweep, SweepPreflight, SweepPending, PublishDefault, SweepEnds, pumpVars,
     watcherVars
<1>10. CASE Reload
  BY <1>10 DEF Phases, Reload, ClearPreflight, ClearPending, Retain, Subscribe, ReloadEnds, pumpVars,
     watcherVars
<1>11. CASE \E who \in {"pump", "watcher"} : Lock(who)
  BY <1>11 DEF Phases, Lock, watcherVars
<1>12. CASE \/ PublishOutside
            \/ \E i \in DOMAIN runs : Complete(i) \/ Panic(i)
            \/ \E a \in DOMAIN Modes : InvokeOutside(a)
            \/ Tick \/ SetTriggers \/ UNCHANGED vars
  BY <1>12 DEF Phases, PublishOutside, Complete, Panic, InvokeOutside, Tick, SetTriggers, vars,
     pumpVars, watcherVars
<1> QED BY <1>8, <1>9, <1>10, <1>11, <1>12 DEF Next

\* One receiver for each pattern that is needed, no two of which see one event.
LEMMA ReceiversStep ==
  ASSUME TypeOK, Phases, Clean, Awaits, Receivers, [Next]_vars
  PROVE  Receivers'
<1>1. \/ DOMAIN subs' = DOMAIN subs
      \/ Retain \/ \E p \in Needed(loaded) : Subscribe(p)
  <2>1. \A p \in undrained : DrainReceiver(p) => DOMAIN subs' = DOMAIN subs
    BY DEF DrainReceiver, TypeOK, BusTypes
  <2>2. \A e \in Event : Publish(e) => DOMAIN subs' = DOMAIN subs
    BY DEF Publish, Delivered
  <2> QED BY <2>1, <2>2, Publications
<1>2. CASE Retain \/ \E p \in Needed(loaded) : Subscribe(p)
  BY <1>2, Reconciling
<1>3. CASE DOMAIN subs' = DOMAIN subs /\ ~ (Retain \/ \E p \in Needed(loaded) : Subscribe(p))
  <2>1. watcher' = "subscribe" => watcher = "subscribe" /\ loaded' = loaded
    <3>1. CASE PumpAll
      <4>1. CASE Match \/ Fire
        BY <4>1, Matching, Firing DEF watcherVars
      <4>2. CASE \/ \E p \in undrained : DrainReceiver(p)
                 \/ SortBatch \/ BatchEnds \/ Promote \/ PassOver \/ FireRefused \/ DispatchEnds
        BY <4>2 DEF DrainReceiver, SortBatch, BatchEnds, Promote, PassOver, FireRefused,
           DispatchEnds, watcherVars
      <4> QED BY <3>1, <4>1, <4>2 DEF PumpAll, Dispatch, Fire
    <3>2. CASE Sweep \/ Reload
      BY <1>3, <3>2 DEF Sweep, SweepPreflight, SweepPending, PublishDefault, SweepEnds, watcherVars,
         Reload, ClearPreflight, ClearPending, ReloadEnds
    <3>3. CASE \/ PublishOutside
               \/ \E i \in DOMAIN runs : Complete(i) \/ Panic(i)
               \/ \E a \in DOMAIN Modes : InvokeOutside(a)
               \/ \E who \in {"pump", "watcher"} : Lock(who)
               \/ Tick \/ SetTriggers \/ UNCHANGED vars
      BY <3>3 DEF PublishOutside, Complete, Panic, InvokeOutside, Lock, Tick, SetTriggers, vars,
         watcherVars
    <3> QED BY <3>1, <3>2, <3>3 DEF Next
  <2> QED BY <1>3, <2>1 DEF Receivers
<1> QED BY <1>1, <1>2, <1>3

\* Every way in which the events in the receivers and in the batch change.
LEMMA Queues ==
  ASSUME TypeOK, Phases, Clean, Awaits, Receivers, [Next]_vars
  PROVE  \/ UNCHANGED <<subs, nextId, batch>>
         \/ \E e \in Event : /\ Publish(e) /\ e.id = nextId /\ CleanEvent(e)
                            /\ UNCHANGED batch
         \/ \E p \in undrained : DrainReceiver(p)
         \/ /\ UNCHANGED <<batch, nextId>>
            /\ \A p \in DOMAIN subs' : \/ p \in DOMAIN subs /\ subs'[p] = subs[p]
                                       \/ subs'[p] = <<>>
         \/ /\ UNCHANGED <<subs, nextId>> /\ batch' \in Seq(Event)
            /\ \E kept \in SUBSET DOMAIN batch : Thins(batch', batch, kept)
<1>1. CASE \E e \in Event : /\ Publish(e) /\ e.id = nextId /\ CleanEvent(e)
                            /\ UNCHANGED <<batch, watcherVars>>
  BY <1>1
<1>2. CASE Retain \/ \E p \in Needed(loaded) : Subscribe(p)
  BY <1>2, Reconciling
<1>3. CASE UNCHANGED <<subs, nextId>>
  BY <1>3, Batches
<1> QED BY <1>1, <1>2, <1>3, Publications

\* Still, only what came from outside is tainted.
LEMMA CleanStep ==
  ASSUME TypeOK, Phases, Clean, Awaits, Receivers, [Next]_vars
  PROVE  Clean'
<1>1. CASE UNCHANGED <<subs, nextId, batch>>
  BY <1>1 DEF Clean, Queued, Batched
<1>2. ASSUME NEW e \in Event, Publish(e), CleanEvent(e), UNCHANGED batch
      PROVE  Clean'
  <2>1. /\ DOMAIN subs' = DOMAIN subs
        /\ \A p \in DOMAIN subs : \A j \in DOMAIN subs[p] : subs'[p][j] = subs[p][j]
        /\ \A p \in DOMAIN subs : \A j \in DOMAIN subs'[p] : j \in DOMAIN subs[p] \/ subs'[p][j] = e
    BY <1>2, Publishing DEF TypeOK
  <2>2. Queued' \subseteq Queued \cup {e} /\ Batched' = Batched
    BY <1>2, <2>1 DEF Queued, Batched
  <2> QED BY <1>2, <2>2 DEF Clean, CleanEvent
<1>3. ASSUME NEW p \in undrained, DrainReceiver(p)
      PROVE  Clean'
  <2>1. /\ p \in DOMAIN subs /\ DOMAIN subs' = DOMAIN subs
        /\ subs'[p] = <<>> /\ \A q \in DOMAIN subs \ {p} : subs'[q] = subs[q]
        /\ \A k \in DOMAIN batch' :
              \/ k \in DOMAIN batch /\ batch'[k] = batch[k]
              \/ /\ k - Len(batch) \in DOMAIN subs[p]
                 /\ batch'[k] = subs[p][k - Len(batch)]
    BY <1>3, Draining
  <2>2. Queued' \subseteq Queued
    BY <2>1 DEF Queued
  <2>3. Batched' \subseteq Batched \cup Queued
    BY <2>1 DEF Queued, Batched
  <2> QED BY <2>2, <2>3 DEF Clean
<1>4. ASSUME UNCHANGED <<batch, nextId>>,
             \A p \in DOMAIN subs' : \/ p \in DOMAIN subs /\ subs'[p] = subs[p]
                                     \/ subs'[p] = <<>>
      PROVE  Clean'
  <2>1. Queued' \subseteq Queued /\ Batched' = Batched
    BY <1>4 DEF Queued, Batched
  <2> QED BY <2>1 DEF Clean
<1>5. ASSUME UNCHANGED <<subs, nextId>>, NEW kept \in SUBSET DOMAIN batch,
             Thins(batch', batch, kept)
      PROVE  Clean'
  <2>1. Queued' = Queued /\ Batched' \subseteq Batched
    BY <1>5 DEF Queued, Batched, Thins
  <2> QED BY <2>1 DEF Clean
<1> QED BY <1>1, <1>2, <1>3, <1>4, <1>5, Queues

\* An event stays in one receiver or in the batch.
LEMMA OneSlotStep ==
  ASSUME TypeOK, Phases, Clean, Awaits, Receivers, OneSlot, [Next]_vars
  PROVE  OneSlot'
<1>0. /\ \A p \in DOMAIN subs : \A j \in DOMAIN subs[p] : /\ subs[p][j] \in Queued
                                                        /\ subs[p][j].id \in Nat
      /\ \A k \in DOMAIN batch : batch[k] \in Batched /\ batch[k].id \in Nat
      /\ nextId \in Nat
  <2>1. \A p \in DOMAIN subs : subs[p] \in Seq(Event)
    BY DEF TypeOK, BusTypes
  <2>2. \A p \in DOMAIN subs : \A j \in DOMAIN subs[p] : subs[p][j] \in Event
    BY <2>1, ElementOfSeq, LenProperties
  <2>3. \A k \in DOMAIN batch : batch[k] \in Event
    BY ElementOfSeq, LenProperties DEF TypeOK, PumpTypes
  <2>4. \A e \in Event : e.id \in Nat
    BY DEF Event
  <2> QED BY <2>2, <2>3, <2>4 DEF Queued, Batched, TypeOK, BusTypes
<1>1. CASE UNCHANGED <<subs, nextId, batch>>
  BY <1>1 DEF OneSlot, Queued, Batched
<1>2. ASSUME NEW e \in Event, Publish(e), e.id = nextId, UNCHANGED batch
      PROVE  OneSlot'
  <2>1. /\ DOMAIN subs' = DOMAIN subs /\ nextId' = nextId + 1
        /\ \A p \in DOMAIN subs : \A j \in DOMAIN subs[p] : subs'[p][j] = subs[p][j]
        /\ \A p \in DOMAIN subs : \A j \in DOMAIN subs'[p] :
              \/ j \in DOMAIN subs[p]
              \/ subs'[p][j] = e /\ j = Len(subs[p]) + 1 /\ Matches(p, e.kind)
    BY <1>2, Publishing DEF TypeOK
  <2>2. Queued' \subseteq Queued \cup {e} /\ Batched' = Batched
    BY <1>2, <2>1 DEF Queued, Batched
  <2>3. \A f \in Queued \cup Batched : f.id < nextId /\ f.id \in Nat
    BY <1>0 DEF OneSlot, Queued, Batched
  <2>4. \A f \in (Queued \cup Batched)' : f.id < nextId'
    BY <1>0, <1>2, <2>1, <2>2, <2>3
  <2>5. \A f \in Queued', g \in Batched' : f.id # g.id
    BY <1>0, <1>2, <2>2, <2>3 DEF OneSlot
  <2>6. \A j, k \in DOMAIN batch' : batch'[j].id = batch'[k].id => j = k
    BY <1>2 DEF OneSlot
  <2>7. \A p, q \in DOMAIN subs' : \A j \in DOMAIN subs'[p], k \in DOMAIN subs'[q] :
          subs'[p][j].id = subs'[q][k].id => p = q /\ j = k
    <3> SUFFICES ASSUME NEW p \in DOMAIN subs, NEW q \in DOMAIN subs,
                        NEW j \in DOMAIN subs'[p], NEW k \in DOMAIN subs'[q],
                        subs'[p][j].id = subs'[q][k].id
                 PROVE  p = q /\ j = k
      BY <2>1
    <3>1. CASE j \in DOMAIN subs[p] /\ k \in DOMAIN subs[q]
      BY <2>1, <3>1 DEF OneSlot
    <3>2. CASE j \in DOMAIN subs[p] /\ ~ (k \in DOMAIN subs[q])
      <4>1. subs'[p][j].id < nextId /\ subs'[q][k].id = nextId
        BY <1>0, <1>2, <2>1, <2>3, <3>2
      <4> QED BY <1>0, <4>1
    <3>3. CASE ~ (j \in DOMAIN subs[p]) /\ k \in DOMAIN subs[q]
      <4>1. subs'[q][k].id < nextId /\ subs'[p][j].id = nextId
        BY <1>0, <1>2, <2>1, <2>3, <3>3
      <4> QED BY <1>0, <4>1
    <3>4. CASE ~ (j \in DOMAIN subs[p]) /\ ~ (k \in DOMAIN subs[q])
      <4>1. Matches(p, e.kind) /\ Matches(q, e.kind) /\ j = Len(subs[p]) + 1
            /\ k = Len(subs[q]) + 1
        BY <2>1, <3>4
      <4>2. e.kind \in Kinds
        BY DEF Event
      <4>3. DOMAIN subs \in SUBSET Patterns /\ p \in Covering(DOMAIN subs) /\ q \in Covering(DOMAIN subs)
        BY DEF TypeOK, BusTypes, Receivers
      <4>4. p = q
        BY <4>1, <4>2, <4>3, CoveringDisjoint
      <4> QED BY <4>1, <4>4
    <3> QED BY <3>1, <3>2, <3>3, <3>4
  <2> QED BY <2>4, <2>5, <2>6, <2>7 DEF OneSlot
<1>3. ASSUME NEW p \in undrained, DrainReceiver(p)
      PROVE  OneSlot'
  <2>1. /\ p \in DOMAIN subs /\ DOMAIN subs' = DOMAIN subs /\ nextId' = nextId
        /\ subs'[p] = <<>> /\ \A q \in DOMAIN subs \ {p} : subs'[q] = subs[q]
        /\ \A k \in DOMAIN batch' :
              \/ k \in DOMAIN batch /\ batch'[k] = batch[k]
              \/ /\ ~ (k \in DOMAIN batch) /\ k - Len(batch) \in DOMAIN subs[p]
                 /\ batch'[k] = subs[p][k - Len(batch)]
        /\ batch' \in Seq(Event)
    BY <1>3, Draining
  <2>2. Queued' \subseteq Queued
    BY <2>1 DEF Queued
  <2>3. Batched' \subseteq Batched \cup Queued
    BY <2>1 DEF Queued, Batched
  <2>4. \A e \in (Queued \cup Batched)' : e.id < nextId'
    BY <2>1, <2>2, <2>3 DEF OneSlot
  <2>5. \A q, r \in DOMAIN subs' : \A j \in DOMAIN subs'[q], k \in DOMAIN subs'[r] :
          subs'[q][j].id = subs'[r][k].id => q = r /\ j = k
    BY <2>1 DEF OneSlot
  <2>6. \A j, k \in DOMAIN batch' : batch'[j].id = batch'[k].id => j = k
    <3> TAKE j \in DOMAIN batch', k \in DOMAIN batch'
    <3>0. j \in Nat /\ k \in Nat /\ Len(batch) \in Nat
      <4>1. Len(batch) \in Nat
        BY LenProperties DEF TypeOK, PumpTypes
      <4>2. DOMAIN batch' = 1 .. Len(batch') /\ Len(batch') \in Nat
        BY <2>1, LenProperties
      <4> QED BY <4>1, <4>2
    <3>1. CASE j \in DOMAIN batch /\ k \in DOMAIN batch
      BY <2>1, <3>1 DEF OneSlot
    <3>2. CASE j \in DOMAIN batch /\ ~ (k \in DOMAIN batch)
      BY <1>0, <2>1, <3>2 DEF OneSlot
    <3>3. CASE ~ (j \in DOMAIN batch) /\ k \in DOMAIN batch
      BY <1>0, <2>1, <3>3 DEF OneSlot
    <3>4. CASE ~ (j \in DOMAIN batch) /\ ~ (k \in DOMAIN batch)
      <4>1. batch'[j].id = batch'[k].id => j - Len(batch) = k - Len(batch)
        BY <2>1, <3>4 DEF OneSlot
      <4> QED BY <3>0, <4>1
    <3> QED BY <3>1, <3>2, <3>3, <3>4
  <2>7. \A e \in Queued', f \in Batched' : e.id # f.id
    <3> SUFFICES ASSUME NEW q \in DOMAIN subs', NEW j \in DOMAIN subs'[q], NEW k \in DOMAIN batch'
                 PROVE  subs'[q][j].id # batch'[k].id
      BY DEF Queued, Batched
    <3>1. q # p /\ j \in DOMAIN subs[q] /\ subs'[q][j] = subs[q][j] /\ q \in DOMAIN subs
      BY <2>1
    <3>2. CASE k \in DOMAIN batch
      BY <1>0, <2>1, <3>1, <3>2 DEF OneSlot
    <3>3. CASE ~ (k \in DOMAIN batch)
      BY <2>1, <3>1, <3>3 DEF OneSlot
    <3> QED BY <3>2, <3>3
  <2> QED BY <2>4, <2>5, <2>6, <2>7 DEF OneSlot
<1>4. ASSUME UNCHANGED <<batch, nextId>>,
             \A p \in DOMAIN subs' : \/ p \in DOMAIN subs /\ subs'[p] = subs[p]
                                     \/ subs'[p] = <<>>
      PROVE  OneSlot'
  <2>1. Queued' \subseteq Queued /\ Batched' = Batched
    BY <1>4 DEF Queued, Batched
  <2>2. \A q, r \in DOMAIN subs' : \A j \in DOMAIN subs'[q], k \in DOMAIN subs'[r] :
          subs'[q][j].id = subs'[r][k].id => q = r /\ j = k
    BY <1>4 DEF OneSlot
  <2>3. \A j, k \in DOMAIN batch' : batch'[j].id = batch'[k].id => j = k
    BY <1>4 DEF OneSlot
  <2> QED BY <1>4, <2>1, <2>2, <2>3 DEF OneSlot
<1>5. ASSUME UNCHANGED <<subs, nextId>>, NEW kept \in SUBSET DOMAIN batch,
             Thins(batch', batch, kept)
      PROVE  OneSlot'
  <2>1. Queued' = Queued /\ Batched' \subseteq Batched
    BY <1>5 DEF Queued, Batched, Thins
  <2>2. \A j, k \in DOMAIN batch' : batch'[j].id = batch'[k].id => j = k
    BY <1>5 DEF OneSlot, Thins
  <2>3. \A q, r \in DOMAIN subs' : \A j \in DOMAIN subs'[q], k \in DOMAIN subs'[r] :
          subs'[q][j].id = subs'[r][k].id => q = r /\ j = k
    BY <1>5 DEF OneSlot
  <2> QED BY <1>5, <2>1, <2>2, <2>3 DEF OneSlot
<1> QED BY <1>1, <1>2, <1>3, <1>4, <1>5, Queues

-----------------------------------------------------------------------------
(* The runs and their awaits *)

\* The runs are numbered from 1 and each is a record of its type.
LEMMA RunElements ==
  ASSUME RunTypes
  PROVE  /\ \A i \in DOMAIN runs : /\ runs[i] \in RunRecord /\ runs[i].action \in DOMAIN Modes
                                  /\ runs[i].status \in Statuses /\ runs[i].awaited \in Nat
         /\ DOMAIN runs = 1 .. Len(runs) /\ Len(runs) \in Nat
<1>1. \A i \in DOMAIN runs : runs[i] \in RunRecord
  BY ElementOfSeq, LenProperties DEF RunTypes
<1>2. \A r \in RunRecord : r.action \in DOMAIN Modes /\ r.status \in Statuses /\ r.awaited \in Nat
  BY DEF RunRecord
<1> QED BY <1>1, <1>2, LenProperties DEF RunTypes

\* A run whose record changes.
LEMMA OneRunChanges ==
  ASSUME RunTypes, NEW i \in DOMAIN runs, NEW r \in RunRecord, runs' = [runs EXCEPT ![i] = r]
  PROVE  /\ runs' \in Seq(RunRecord) /\ DOMAIN runs' = DOMAIN runs /\ Len(runs') = Len(runs)
         /\ runs'[i] = r /\ \A j \in DOMAIN runs \ {i} : runs'[j] = runs[j]
<1>1. runs \in Seq(RunRecord)
  BY DEF RunTypes
<1> QED BY <1>1, LenProperties, ExceptSeq

\* What a step that changes one run, or none, leaves of the others.
OnlyRun(i) ==
  /\ runs' \in Seq(RunRecord) /\ DOMAIN runs' = DOMAIN runs
  /\ \A j \in DOMAIN runs \ {i} : runs'[j] = runs[j]

\* What the end of an action that ran changes.
LEMMA Completing ==
  ASSUME RunTypes, NEW i \in DOMAIN runs, Complete(i)
  PROVE  /\ OnlyRun(i) /\ runs[i].status = "running"
         /\ UNCHANGED <<triggers, engineVars, pumpVars, pump, timedOut, watcherVars, outside>>
         /\ runs'[i].action = runs[i].action /\ runs'[i].awaited = runs[i].awaited
         /\ runs'[i].by = runs[i].by /\ runs'[i].crowded = runs[i].crowded
         /\ runs'[i].tainted = runs[i].tainted
         /\ \/ /\ runs[i].action \in SilentActions /\ runs'[i].status = "settled"
               /\ UNCHANGED <<subs, nextId>>
            \/ /\ runs[i].action \notin SilentActions /\ runs'[i].status = "published"
               /\ \E ok \in BOOLEAN : Publish(CompletionEvent(i, runs[i].action, ok))
<1>0. runs[i] \in RunRecord
  BY RunElements
<1>1. CASE runs[i].action \in SilentActions
  <2> DEFINE r == [runs[i] EXCEPT !.status = "settled"]
  <2>1. runs' = [runs EXCEPT ![i] = r]
    BY <1>1 DEF Complete
  <2>2. r \in RunRecord
    BY <1>0, RunUpdates DEF Statuses
  <2>3. /\ r.action = runs[i].action /\ r.awaited = runs[i].awaited /\ r.by = runs[i].by
        /\ r.crowded = runs[i].crowded /\ r.tainted = runs[i].tainted /\ r.status = "settled"
    BY <1>0 DEF RunRecord
  <2> HIDE DEF r
  <2>4. OnlyRun(i) /\ runs'[i] = r
    BY <2>1, <2>2, OneRunChanges DEF OnlyRun
  <2> QED BY <1>1, <2>3, <2>4 DEF Complete
<1>2. CASE runs[i].action \notin SilentActions
  <2> DEFINE r == [runs[i] EXCEPT !.status = "published", !.late = Overtakes(i)]
  <2>1. runs' = [runs EXCEPT ![i] = r]
    BY <1>2 DEF Complete
  <2>2. r \in RunRecord
    BY <1>0, RunUpdates DEF Statuses, Overtakes
  <2>3. /\ r.action = runs[i].action /\ r.awaited = runs[i].awaited /\ r.by = runs[i].by
        /\ r.crowded = runs[i].crowded /\ r.tainted = runs[i].tainted /\ r.status = "published"
    BY <1>0 DEF RunRecord
  <2> HIDE DEF r
  <2>4. OnlyRun(i) /\ runs'[i] = r
    BY <2>1, <2>2, OneRunChanges DEF OnlyRun
  <2> QED BY <1>2, <2>3, <2>4 DEF Complete
<1> QED BY <1>1, <1>2

\* What a panic of an action changes: its run alone.
LEMMA Panicking ==
  ASSUME RunTypes, NEW i \in DOMAIN runs, Panic(i)
  PROVE  /\ OnlyRun(i) /\ runs[i].status = "running" /\ runs'[i].status = "lost"
         /\ UNCHANGED <<triggers, engineVars, subs, pumpVars, pump, timedOut, watcherVars,
                        outside, nextId>>
         /\ runs'[i].action = runs[i].action /\ runs'[i].awaited = runs[i].awaited
         /\ runs'[i].by = runs[i].by /\ runs'[i].crowded = runs[i].crowded
         /\ runs'[i].tainted = runs[i].tainted
<1> DEFINE r == [runs[i] EXCEPT !.status = "lost"]
<1>0. runs[i] \in RunRecord
  BY RunElements
<1>1. runs' = [runs EXCEPT ![i] = r]
  BY DEF Panic
<1>2. r \in RunRecord
  BY <1>0, RunUpdates DEF Statuses
<1>3. /\ r.action = runs[i].action /\ r.awaited = runs[i].awaited /\ r.by = runs[i].by
      /\ r.crowded = runs[i].crowded /\ r.tainted = runs[i].tainted /\ r.status = "lost"
  BY <1>0 DEF RunRecord
<1> HIDE DEF r
<1>4. OnlyRun(i) /\ runs'[i] = r
  BY <1>1, <1>2, OneRunChanges DEF OnlyRun
<1> QED BY <1>3, <1>4 DEF Panic

\* An await is announced.
LEMMA Announcing ==
  ASSUME RunTypes, NEW i \in DOMAIN runs, runs' = [runs EXCEPT ![i].awaited = @ + 1]
  PROVE  /\ OnlyRun(i) /\ runs'[i].awaited = runs[i].awaited + 1
         /\ runs'[i].action = runs[i].action /\ runs'[i].status = runs[i].status
         /\ runs'[i].by = runs[i].by /\ runs'[i].crowded = runs[i].crowded
         /\ runs'[i].tainted = runs[i].tainted
<1> DEFINE r == [runs[i] EXCEPT !.awaited = @ + 1]
<1>0. runs[i] \in RunRecord
  BY RunElements
<1>1. runs' = [runs EXCEPT ![i] = r]
  OBVIOUS
<1>2. r \in RunRecord
  BY <1>0, RunUpdates
<1>3. /\ r.action = runs[i].action /\ r.status = runs[i].status /\ r.by = runs[i].by
      /\ r.crowded = runs[i].crowded /\ r.tainted = runs[i].tainted
      /\ r.awaited = runs[i].awaited + 1
  BY <1>0 DEF RunRecord
<1> HIDE DEF r
<1>4. OnlyRun(i) /\ runs'[i] = r
  BY <1>1, <1>2, OneRunChanges DEF OnlyRun
<1> QED BY <1>3, <1>4

\* A completion is of the action its run is of.
LEMMA ComingCompletions ==
  ASSUME RunTypes, Completions, Clean, NEW e \in Coming, e \in Event
  PROVE  /\ IsCompletion(e) <=> e.source = "action"
         /\ IsCompletion(e) => /\ Trusted(e) /\ e.ref \in DOMAIN runs
                               /\ e.kind[1] = runs[e.ref].action
                               /\ runs[e.ref].status = "published"
                               /\ Announces(runs[e.ref].action)
<1>1. e.source = "action" =>
        /\ e.ref \in DOMAIN runs /\ runs[e.ref].status = "published"
        /\ Announces(runs[e.ref].action)
        /\ e.kind \in {Completed(runs[e.ref].action), Failed(runs[e.ref].action)}
  BY DEF Completions
<1>2. \A a : Completed(a)[1] = a /\ Failed(a)[1] = a
  BY DEF Completed, Failed
<1>3. e \in Queued \cup Batched
  BY DEF Coming, Batched
<1>4. e.source = "action" => Trusted(e)
  BY <1>3 DEF Clean, Trusted
<1> QED BY <1>1, <1>2, <1>4, RunElements DEF IsCompletion

\* A dispatched completion settles its run and takes away the oldest preflight
\* of its action, if there is one; no other event does.
LEMMA Promoting ==
  ASSUME TypeOK, Clean, Completions, Awaits, Promote, NEW e, e = Head(batch)
  PROVE  /\ stage = "promote" /\ batch # <<>> /\ stage' = "match"
         /\ UNCHANGED <<triggers, subs, holder, undrained, batch, todo, pump, timedOut, watcherVars,
                        outside, nextId>>
         /\ e \in Event /\ e = batch[1] /\ 1 \in DOMAIN batch /\ e \in Coming
         /\ runs' \in Seq(RunRecord) /\ DOMAIN runs' = DOMAIN runs
         /\ \A r \in DOMAIN runs :
              /\ runs'[r].action = runs[r].action /\ runs'[r].awaited = runs[r].awaited
              /\ runs'[r].crowded = runs[r].crowded /\ runs'[r].tainted = runs[r].tainted
              /\ runs'[r].status = IF IsCompletion(e) /\ r = e.ref THEN "settled"
                                   ELSE runs[r].status
         /\ \/ /\ UNCHANGED <<preflight, pending>>
               /\ \A r \in DOMAIN runs : runs'[r].by = runs[r].by
               /\ IsCompletion(e) => \A k \in DOMAIN preflight : preflight[k].action # e.kind[1]
            \/ \E i \in DOMAIN preflight :
                 /\ IsCompletion(e) /\ preflight[i].action = e.kind[1]
                 /\ preflight' = Without(preflight, i)
                 /\ \/ pending' = pending
                    \/ pending' = Append(pending, [preflight[i] EXCEPT !.by = e.ref])
                 /\ \A r \in DOMAIN runs :
                      runs'[r].by = IF r = preflight[i].run THEN e.ref ELSE runs[r].by
<1> DEFINE own == {k \in DOMAIN preflight : preflight[k].action = e.kind[1]}
           i == IF Trusted(e) /\ IsCompletion(e) THEN FirstOf(e.kind[1]) ELSE 0
<1>1. /\ stage = "promote" /\ batch # <<>> /\ stage' = "match"
      /\ UNCHANGED <<triggers, subs, holder, undrained, batch, todo, pump, timedOut, watcherVars,
                     outside, nextId>>
      /\ i = 0 => runs' = Settle(runs, e) /\ UNCHANGED <<preflight, pending>>
      /\ i # 0 => /\ runs' = [Settle(runs, e) EXCEPT ![preflight[i].run].by = e.ref]
                  /\ preflight' = Without(preflight, i)
                  /\ pending' = IF e.kind = Completed(preflight[i].action)
                                THEN Append(pending, [preflight[i] EXCEPT !.by = e.ref])
                                ELSE pending
  BY DEF Promote, engineVars
<1>2. e \in Event /\ e = batch[1] /\ 1 \in DOMAIN batch
  BY <1>1, Heads DEF TypeOK, PumpTypes
<1>3. e \in Coming
  BY <1>1, <1>2 DEF Coming
<1>4. IsCompletion(e) => Trusted(e) /\ e.ref \in DOMAIN runs
  BY <1>2, <1>3, ComingCompletions DEF TypeOK
<1>5. /\ i = 0 => (IsCompletion(e) => own = {})
      /\ i # 0 => IsCompletion(e) /\ i \in own
  <2>1. preflight \in Seq(Await) /\ own \in SUBSET DOMAIN preflight
    BY DEF TypeOK, EngineTypes
  <2>2. (First(own) = 0 <=> own = {}) /\ (First(own) # 0 => First(own) \in own)
    BY <2>1, FirstOne
  <2>3. FirstOf(e.kind[1]) = First(own)
    BY DEF FirstOf
  <2> HIDE DEF own
  <2> QED BY <1>4, <2>2, <2>3
<1>6. RunTypes /\ e.ref \in Nat
  BY <1>2 DEF TypeOK, Event
<1> DEFINE rs == Settle(runs, e)
<1>7. /\ rs \in Seq(RunRecord) /\ DOMAIN rs = DOMAIN runs
      /\ \A r \in DOMAIN runs :
              /\ rs[r].action = runs[r].action /\ rs[r].awaited = runs[r].awaited
              /\ rs[r].crowded = runs[r].crowded /\ rs[r].tainted = runs[r].tainted
              /\ rs[r].by = runs[r].by
              /\ rs[r].status = IF IsCompletion(e) /\ r = e.ref THEN "settled" ELSE runs[r].status
  <2>1. CASE ~ IsCompletion(e)
    BY <1>6, <2>1 DEF Settle, RunTypes
  <2>2. CASE IsCompletion(e)
    <3> DEFINE new == [runs[e.ref] EXCEPT !.status = "settled"]
    <3>1. rs = [runs EXCEPT ![e.ref] = new]
      BY <2>2 DEF Settle
    <3>2. runs[e.ref] \in RunRecord
      BY <1>4, <1>6, <2>2, RunElements
    <3>3. new \in RunRecord
      BY <3>2, RunUpdates DEF Statuses
    <3>4. /\ new.action = runs[e.ref].action /\ new.awaited = runs[e.ref].awaited
          /\ new.by = runs[e.ref].by
          /\ new.crowded = runs[e.ref].crowded /\ new.tainted = runs[e.ref].tainted
          /\ new.status = "settled"
      BY <3>2 DEF RunRecord
    <3> HIDE DEF new, rs
    <3>5. rs \in Seq(RunRecord) /\ DOMAIN rs = DOMAIN runs
      BY <1>4, <1>6, <2>2, <3>1, <3>3, LenProperties, ExceptSeq DEF RunTypes
    <3>6. rs[e.ref] = new /\ \A r \in DOMAIN runs : r # e.ref => rs[r] = runs[r]
      BY <1>4, <1>6, <2>2, <3>1, <3>3, LenProperties, ExceptSeq DEF RunTypes
    <3> QED BY <2>2, <3>4, <3>5, <3>6
  <2> QED BY <2>1, <2>2
<1> HIDE DEF rs
<1>8. CASE i = 0
  BY <1>1, <1>2, <1>3, <1>5, <1>7, <1>8 DEF rs
<1>9. CASE i # 0
  <2> DEFINE o == preflight[i].run
             new == [rs[o] EXCEPT !.by = e.ref]
  <2>1. IsCompletion(e) /\ i \in DOMAIN preflight /\ preflight[i].action = e.kind[1]
    BY <1>5, <1>9
  <2>2. o \in DOMAIN runs
    BY <2>1 DEF Awaits, Fits
  <2>3. runs' = [rs EXCEPT ![o] = new]
    BY <1>1, <1>9 DEF rs
  <2>4. rs[o] \in RunRecord
    BY <1>7, <2>2, ElementOfSeq, LenProperties
  <2>5. new \in RunRecord
    BY <1>6, <2>4, RunUpdates
  <2>6. /\ new.action = rs[o].action /\ new.awaited = rs[o].awaited
        /\ new.crowded = rs[o].crowded /\ new.tainted = rs[o].tainted
        /\ new.status = rs[o].status /\ new.by = e.ref
    BY <2>4 DEF RunRecord
  <2> HIDE DEF new, i
  <2>7. /\ runs' \in Seq(RunRecord) /\ DOMAIN runs' = DOMAIN runs
        /\ runs'[o] = new /\ \A r \in DOMAIN runs : r # o => runs'[r] = rs[r]
    BY <1>7, <2>2, <2>3, <2>5, LenProperties, ExceptSeq
  <2>8. \A r \in DOMAIN runs :
              /\ runs'[r].action = runs[r].action /\ runs'[r].awaited = runs[r].awaited
              /\ runs'[r].crowded = runs[r].crowded /\ runs'[r].tainted = runs[r].tainted
              /\ runs'[r].status = IF IsCompletion(e) /\ r = e.ref THEN "settled"
                                   ELSE runs[r].status
              /\ runs'[r].by = IF r = preflight[i].run THEN e.ref ELSE runs[r].by
    BY <1>7, <2>6, <2>7
  <2>9. /\ preflight' = Without(preflight, i)
        /\ \/ pending' = pending
           \/ pending' = Append(pending, [preflight[i] EXCEPT !.by = e.ref])
    BY <1>1, <1>9
  <2> QED BY <1>1, <1>2, <1>3, <2>1, <2>7, <2>8, <2>9
<1> QED BY <1>8, <1>9

-----------------------------------------------------------------------------
(* The types are preserved *)

\* A sweep splits a pool into those that stay and those that end with their default.
LEMMA Sweeping ==
  ASSUME NEW pool \in Seq(Await)
  PROVE  /\ Kept(pool) \in Seq(Await)
         /\ Thins(Kept(pool), pool, {k \in DOMAIN pool : pool[k].left > 0})
         /\ Defaulted(pool) \in Seq(Await)
         /\ Thins(Defaulted(pool), pool, {k \in DOMAIN pool : pool[k].left = 0 /\ pool[k].fires})
BY Picking DEF Kept, Defaulted

\* An await one tick older.
LEMMA Ageing ==
  ASSUME EngineTypes, Tick
  PROVE  /\ preflight' \in Seq(Await) /\ pending' \in Seq(Await)
         /\ DOMAIN preflight' = DOMAIN preflight /\ DOMAIN pending' = DOMAIN pending
         /\ \A k \in DOMAIN preflight : preflight'[k].run = preflight[k].run
              /\ preflight'[k].action = preflight[k].action
              /\ preflight'[k].tainted = preflight[k].tainted
         /\ \A k \in DOMAIN pending : pending'[k].run = pending[k].run
              /\ pending'[k].action = pending[k].action
              /\ pending'[k].tainted = pending[k].tainted
         /\ UNCHANGED <<triggers, subs, pumpVars, pump, timedOut, watcherVars, runs, outside, nextId>>
<1> DEFINE older(a) == [a EXCEPT !.left = IF @ = 0 THEN 0 ELSE @ - 1]
           aged(pool) == [i \in DOMAIN pool |-> older(pool[i])]
<1>1. /\ preflight' = aged(preflight) /\ pending' = aged(pending)
      /\ UNCHANGED <<triggers, subs, pumpVars, pump, timedOut, watcherVars, runs, outside, nextId>>
  BY DEF Tick
<1>2. \A a \in Await : /\ older(a) \in Await /\ older(a).run = a.run
                       /\ older(a).action = a.action /\ older(a).tainted = a.tainted
  BY TimeoutAssumption DEF Await
<1> HIDE DEF older
<1>3. \A pool \in Seq(Await) :
        /\ aged(pool) \in Seq(Await) /\ DOMAIN aged(pool) = DOMAIN pool
        /\ \A k \in DOMAIN pool : aged(pool)[k].run = pool[k].run
             /\ aged(pool)[k].action = pool[k].action /\ aged(pool)[k].tainted = pool[k].tainted
  <2> TAKE pool \in Seq(Await)
  <2>1. DOMAIN pool = 1 .. Len(pool) /\ Len(pool) \in Nat /\ \A k \in DOMAIN pool : pool[k] \in Await
    BY LenProperties, ElementOfSeq
  <2> QED BY <1>2, <2>1
<1> HIDE DEF aged
<1> QED BY <1>1, <1>3 DEF EngineTypes

\* Types of triggers and awaits.
LEMMA EngineTypesStep ==
  ASSUME TypeOK, Phases, Clean, Completions, Awaits, [Next]_vars
  PROVE  EngineTypes'
<1>0. /\ EngineTypes /\ preflight \in Seq(Await) /\ pending \in Seq(Await) /\ timedOut \in Seq(Await)
  BY DEF TypeOK, EngineTypes
<1>1. CASE Match
  <2>1. /\ UNCHANGED <<triggers, loaded, preflight, timedOut>>
        /\ \/ pending' = pending
           \/ \E k \in DOMAIN pending : pending' = Without(pending, k)
    BY <1>1, Matching DEF watcherVars
  <2>2. \A k \in DOMAIN pending : Without(pending, k) \in Seq(Await)
    BY <1>0, Cutting
  <2> QED BY <1>0, <2>1, <2>2 DEF EngineTypes
<1>2. CASE Promote
  <2> DEFINE e == Head(batch)
  <2>1. /\ UNCHANGED <<triggers, loaded, timedOut>>
        /\ \/ UNCHANGED <<preflight, pending>>
           \/ \E i \in DOMAIN preflight :
                /\ preflight' = Without(preflight, i)
                /\ \/ pending' = pending
                   \/ pending' = Append(pending, [preflight[i] EXCEPT !.by = e.ref])
        /\ e \in Event
    <3>1. e = Head(batch)
      OBVIOUS
    <3> HIDE DEF e
    <3> QED BY <1>2, <3>1, Promoting DEF watcherVars
  <2>2. \A i \in DOMAIN preflight :
          /\ Without(preflight, i) \in Seq(Await)
          /\ Append(pending, [preflight[i] EXCEPT !.by = e.ref]) \in Seq(Await)
    <3> TAKE i \in DOMAIN preflight
    <3>1. preflight[i] \in Await
      BY <1>0, AwaitElements
    <3>2. e.ref \in Nat
      BY <2>1 DEF Event
    <3>3. [preflight[i] EXCEPT !.by = e.ref] \in Await
      BY <3>1, <3>2 DEF Await
    <3> QED BY <1>0, <3>3, Cutting, AppendProperties
  <2> QED BY <1>0, <2>1, <2>2 DEF EngineTypes
<1>3. CASE Fire
  <2>1. /\ UNCHANGED <<triggers, loaded, pending, timedOut>>
        /\ \E a \in DOMAIN Modes : Registers(a)
    BY <1>3, Firing DEF watcherVars
  <2>2. preflight' = preflight \/ \E w \in Await : preflight' = Append(preflight, w)
    BY <2>1 DEF Registers
  <2>3. \A w \in Await : Append(preflight, w) \in Seq(Await)
    BY <1>0, AppendProperties
  <2>4. preflight' \in Seq(Await)
    BY <1>0, <2>2, <2>3
  <2> QED BY <1>0, <2>1, <2>4 DEF EngineTypes
<1>4. CASE SweepPreflight
  BY <1>0, <1>4, Sweeping, ConcatProperties DEF SweepPreflight, EngineTypes, watcherVars
<1>5. CASE SweepPending
  BY <1>0, <1>5, Sweeping, ConcatProperties DEF SweepPending, EngineTypes, watcherVars
<1>6. CASE PublishDefault
  <2>1. Tail(timedOut) \in Seq(Await)
    BY <1>0, <1>6, HeadTailProperties DEF PublishDefault
  <2> QED BY <1>0, <1>6, <2>1 DEF PublishDefault, EngineTypes, engineVars, watcherVars
<1>7. CASE Tick
  BY <1>0, <1>7, Ageing DEF EngineTypes, watcherVars
<1>8. CASE SetTriggers
  BY <1>0, <1>8 DEF SetTriggers, EngineTypes, engineVars
<1>9. CASE ClearPreflight \/ ClearPending
  <2>1. <<>> \in Seq(Await)
    OBVIOUS
  <2> QED BY <1>0, <1>9, <2>1 DEF ClearPreflight, ClearPending, EngineTypes
<1>10. CASE Retain \/ \E p \in Needed(loaded) : Subscribe(p)
  BY <1>0, <1>10 DEF Retain, Subscribe, EngineTypes, engineVars, watcherVars
<1>11. CASE ReloadEnds \/ SweepEnds
  BY <1>0, <1>11 DEF ReloadEnds, SweepEnds, EngineTypes, engineVars, watcherVars
<1>12. CASE \/ \E p \in undrained : DrainReceiver(p)
            \/ SortBatch \/ BatchEnds \/ PassOver \/ FireRefused \/ DispatchEnds
  BY <1>0, <1>12 DEF DrainReceiver, SortBatch, BatchEnds, PassOver, FireRefused, DispatchEnds,
     EngineTypes, engineVars, watcherVars
<1>13. CASE \/ PublishOutside
            \/ \E i \in DOMAIN runs : Complete(i) \/ Panic(i)
            \/ \E a \in DOMAIN Modes : InvokeOutside(a)
            \/ \E who \in {"pump", "watcher"} : Lock(who)
            \/ UNCHANGED vars
  BY <1>0, <1>13 DEF PublishOutside, Complete, Panic, InvokeOutside, Lock, vars, EngineTypes,
     engineVars, watcherVars
<1>14. CASE PumpAll
  BY <1>1, <1>2, <1>3, <1>12, <1>14 DEF PumpAll, Dispatch, Fire
<1>15. CASE Sweep
  BY <1>4, <1>5, <1>6, <1>11, <1>15 DEF Sweep
<1>16. CASE Reload
  BY <1>9, <1>10, <1>11, <1>16 DEF Reload
<1> QED BY <1>7, <1>8, <1>13, <1>14, <1>15, <1>16 DEF Next

\* Types of receivers and events.
LEMMA BusTypesStep ==
  ASSUME TypeOK, Phases, Clean, Awaits, Receivers, [Next]_vars
  PROVE  BusTypes'
<1>1. BusTypes
  BY DEF TypeOK
<1>2. ASSUME UNCHANGED <<subs, nextId>> PROVE BusTypes'
  BY <1>1, <1>2 DEF BusTypes
<1>3. ASSUME NEW e \in Event, Publish(e) PROVE BusTypes'
  BY <1>1, <1>3, Publishing
<1>4. ASSUME NEW p \in undrained, DrainReceiver(p) PROVE BusTypes'
  BY <1>4, Draining
<1>5. CASE Retain \/ \E p \in Needed(loaded) : Subscribe(p)
  BY <1>5, Reconciling
<1> QED BY <1>2, <1>3, <1>4, <1>5, Publications

\* A run that others start.
LEMMA Invoking ==
  ASSUME RunTypes, NEW a \in DOMAIN Modes, InvokeOutside(a)
  PROVE  /\ Launches(a, "running") /\ Modes[a] # "spawn"
         /\ UNCHANGED <<triggers, engineVars, subs, pumpVars, pump, timedOut, watcherVars,
                        outside, nextId>>
<1>1. runs' = Started(a, "running", FALSE, FALSE) /\ Modes[a] = "blocking"
  BY DEF InvokeOutside
<1>2. "running" \in Statuses /\ FALSE \in BOOLEAN
  BY DEF Statuses
<1>3. /\ runs' \in Seq(RunRecord) /\ Len(runs') = Len(runs) + 1
      /\ \A i \in DOMAIN runs :
           runs'[i] = IF i \in Unsettled(a) THEN [runs[i] EXCEPT !.crowded = TRUE] ELSE runs[i]
      /\ runs'[Len(runs) + 1] = [action |-> a, status |-> "running", awaits |-> FALSE,
                                 awaited |-> 0, by |-> 0, crowded |-> Unsettled(a) # {},
                                 late |-> FALSE, tainted |-> FALSE]
  BY <1>1, <1>2, Starting, Zenon
<1> DEFINE r == runs'[Len(runs) + 1]
<1>4. r.action = a /\ r.status = "running" /\ r.awaited = 0 /\ r.by = 0 /\ ~ r.tainted
  BY <1>3
<1>5. r.crowded = (Unsettled(a) # {})
  BY <1>3
<1>6. Launches(a, "running")
  BY <1>3, <1>4, <1>5, Zenon DEF Launches
<1> QED BY <1>1, <1>6 DEF InvokeOutside

\* Types of the runs.
LEMMA RunTypesStep ==
  ASSUME TypeOK, Phases, Clean, Completions, Awaits, [Next]_vars
  PROVE  RunTypes'
<1>0. /\ RunTypes /\ EngineTypes
  BY DEF TypeOK
<1>1. ASSUME UNCHANGED <<reloads, outside>>, runs' \in Seq(RunRecord)
      PROVE  RunTypes'
  BY <1>0, <1>1 DEF RunTypes
<1>2. ASSUME UNCHANGED <<reloads, outside, runs>>
      PROVE  RunTypes'
  BY <1>0, <1>2 DEF RunTypes
<1>3. CASE Match
  <2>1. /\ UNCHANGED <<reloads, outside>>
        /\ \/ runs' = runs
           \/ \E k \in DOMAIN pending : runs' = [runs EXCEPT ![pending[k].run].awaited = @ + 1]
    BY <1>3, Matching DEF watcherVars
  <2>2. \A k \in DOMAIN pending : pending[k].run \in DOMAIN runs
    BY DEF Awaits, Fits
  <2>3. runs' \in Seq(RunRecord)
    BY <1>0, <2>1, <2>2, Announcing DEF OnlyRun, RunTypes
  <2> QED BY <1>1, <2>1, <2>3
<1>4. CASE Promote
  <2>1. UNCHANGED <<reloads, outside>> /\ runs' \in Seq(RunRecord)
    BY <1>4, Promoting DEF watcherVars
  <2> QED BY <1>1, <2>1
<1>5. CASE Fire
  <2>1. UNCHANGED <<reloads, outside>> /\ runs' \in Seq(RunRecord)
    BY <1>5, Firing DEF watcherVars, Launches
  <2> QED BY <1>1, <2>1
<1>6. ASSUME NEW i \in DOMAIN runs, Complete(i) \/ Panic(i) PROVE RunTypes'
  <2>1. UNCHANGED <<reloads, outside>> /\ runs' \in Seq(RunRecord)
    BY <1>0, <1>6, Completing, Panicking DEF watcherVars, OnlyRun
  <2> QED BY <1>1, <2>1
<1>7. ASSUME NEW a \in DOMAIN Modes, InvokeOutside(a) PROVE RunTypes'
  <2>1. UNCHANGED <<reloads, outside>> /\ runs' \in Seq(RunRecord)
    BY <1>0, <1>7, Invoking DEF watcherVars, Launches
  <2> QED BY <1>1, <2>1
<1>8. CASE PublishDefault
  <2>1. /\ timedOut # <<>> /\ UNCHANGED <<reloads, outside>>
        /\ runs' = [runs EXCEPT ![Head(timedOut).run].awaited = @ + 1]
    BY <1>8 DEF PublishDefault, watcherVars
  <2>2. Head(timedOut).run \in DOMAIN runs
    BY <1>0, <2>1, Heads DEF Awaits, Fits, EngineTypes
  <2>3. runs' \in Seq(RunRecord)
    BY <1>0, <2>1, <2>2, Announcing DEF OnlyRun
  <2> QED BY <1>1, <2>1, <2>3
<1>9. CASE PublishOutside
  BY <1>0, <1>9, BoundsAssumption DEF PublishOutside, RunTypes, watcherVars
<1>10. CASE SetTriggers
  BY <1>0, <1>10, BoundsAssumption DEF SetTriggers, RunTypes
<1>11. CASE \/ \E p \in undrained : DrainReceiver(p)
            \/ SortBatch \/ BatchEnds \/ PassOver \/ FireRefused \/ DispatchEnds
  BY <1>2, <1>11 DEF DrainReceiver, SortBatch, BatchEnds, PassOver, FireRefused, DispatchEnds,
     watcherVars
<1>12. CASE SweepPreflight \/ SweepPending \/ SweepEnds
  <2>1. UNCHANGED outside
    BY <1>12 DEF SweepPreflight, SweepPending, SweepEnds
  <2> QED BY <1>2, <1>12, <2>1 DEF SweepPreflight, SweepPending, SweepEnds, watcherVars
<1>13. CASE Reload
  BY <1>2, <1>13 DEF Reload, ClearPreflight, ClearPending, Retain, Subscribe, ReloadEnds, watcherVars
<1>14. CASE \/ \E who \in {"pump", "watcher"} : Lock(who)
            \/ Tick \/ UNCHANGED vars
  BY <1>2, <1>14 DEF Lock, Tick, vars, watcherVars
<1>15. CASE PumpAll
  BY <1>3, <1>4, <1>5, <1>11, <1>15 DEF PumpAll, Dispatch, Fire
<1> QED BY <1>6, <1>7, <1>8, <1>9, <1>10, <1>12, <1>13, <1>14, <1>15 DEF Next, Sweep

\* Types of pump and watcher.
LEMMA PumpTypesStep ==
  ASSUME TypeOK, Phases, Clean, Completions, Awaits, Receivers, [Next]_vars
  PROVE  PumpTypes'
<1>0. /\ holder \in {"free", "pump", "watcher"}
      /\ stage \in {"idle", "drain", "promote", "match", "fire"}
      /\ undrained \subseteq DOMAIN subs /\ batch \in Seq(Event) /\ todo \in Seq(Trigger)
      /\ pump \in {"sleep", "sweepPreflight", "sweepPending", "publish"}
      /\ watcher \in {"sleep", "clearPreflight", "clearPending", "lock", "reconcile", "subscribe"}
  BY DEF TypeOK, PumpTypes
<1>1. batch' \in Seq(Event)
  BY <1>0, Batches, Draining
<1>2. undrained' \subseteq DOMAIN subs'
  <2>1. CASE \/ Retain \/ \E p \in Needed(loaded) : Subscribe(p)
    <3>1. undrained = {} /\ undrained' = undrained
      BY <2>1, Reconciling DEF Phases
    <3> QED BY <3>1
  <2>2. CASE \E p \in undrained : DrainReceiver(p)
    <3>1. undrained' \subseteq undrained /\ DOMAIN subs' = DOMAIN subs
      BY <2>2, Draining DEF DrainReceiver
    <3> QED BY <1>0, <3>1
  <2>3. CASE \E who \in {"pump", "watcher"} : Lock(who)
    BY <2>3 DEF Lock
  <2>4. CASE /\ ~ Retain /\ ~ \E p \in Needed(loaded) : Subscribe(p)
             /\ ~ \E p \in undrained : DrainReceiver(p)
             /\ ~ \E who \in {"pump", "watcher"} : Lock(who)
    <3>1. DOMAIN subs' = DOMAIN subs
      BY <2>4, Publications DEF Publish, Delivered
    <3>2. undrained' = undrained
      <4>1. CASE PumpAll
        <5>1. CASE Match \/ Fire
          BY <5>1, Matching, Firing
        <5> QED BY <2>4, <4>1, <5>1 DEF PumpAll, Dispatch, Fire, SortBatch, BatchEnds, Promote,
              PassOver, FireRefused, DispatchEnds
      <4>2. CASE Sweep \/ Reload
        BY <2>4, <4>2 DEF Sweep, SweepPreflight, SweepPending, PublishDefault, SweepEnds, pumpVars,
           Reload, ClearPreflight, ClearPending, ReloadEnds
      <4>3. CASE \/ PublishOutside
                 \/ \E i \in DOMAIN runs : Complete(i) \/ Panic(i)
                 \/ \E a \in DOMAIN Modes : InvokeOutside(a)
                 \/ Tick \/ SetTriggers \/ UNCHANGED vars
        BY <4>3 DEF PublishOutside, Complete, Panic, InvokeOutside, Tick, SetTriggers, vars, pumpVars
      <4> QED BY <2>4, <4>1, <4>2, <4>3 DEF Next
    <3> QED BY <1>0, <3>1, <3>2
  <2> QED BY <2>1, <2>2, <2>3, <2>4
<1> DEFINE Places == /\ holder' \in {"free", "pump", "watcher"}
                     /\ stage' \in {"idle", "drain", "promote", "match", "fire"}
                     /\ todo' \in Seq(Trigger)
                     /\ pump' \in {"sleep", "sweepPreflight", "sweepPending", "publish"}
                     /\ watcher' \in {"sleep", "clearPreflight", "clearPending", "lock", "reconcile",
                                      "subscribe"}
<1> SUFFICES Places
  BY <1>1, <1>2 DEF PumpTypes
<1>3. CASE Match
  <2>1. triggers \in Seq(Trigger)
    BY ConfigsAssumption DEF TypeOK, EngineTypes
  <2> QED BY <1>0, <1>3, <2>1, Matching DEF watcherVars
<1>4. CASE Fire
  <2>1. UNCHANGED <<holder, stage, pump, watcherVars>> /\ todo # <<>> /\ todo' = Tail(todo)
    BY <1>4, Firing
  <2>2. todo' \in Seq(Trigger)
    BY <1>0, <2>1, HeadTailProperties
  <2> QED BY <1>0, <2>1, <2>2 DEF watcherVars
<1>5. CASE PassOver \/ FireRefused
  <2>1. UNCHANGED <<holder, stage, pump, watcherVars>> /\ todo # <<>> /\ todo' = Tail(todo)
    BY <1>5 DEF PassOver, FireRefused, Fires, NextTrigger
  <2>2. todo' \in Seq(Trigger)
    BY <1>0, <2>1, HeadTailProperties
  <2> QED BY <1>0, <2>1, <2>2 DEF watcherVars
<1>6. CASE \/ \E p \in undrained : DrainReceiver(p)
           \/ SortBatch \/ BatchEnds \/ Promote \/ DispatchEnds
  BY <1>0, <1>6 DEF DrainReceiver, SortBatch, BatchEnds, Promote, DispatchEnds, watcherVars
<1>7. CASE Sweep
  BY <1>0, <1>7 DEF Sweep, SweepPreflight, SweepPending, PublishDefault, SweepEnds, pumpVars,
     watcherVars
<1>8. CASE Reload
  BY <1>0, <1>8 DEF Reload, ClearPreflight, ClearPending, Retain, Subscribe, ReloadEnds, pumpVars,
     watcherVars
<1>9. CASE \E who \in {"pump", "watcher"} : Lock(who)
  BY <1>0, <1>9 DEF Lock, watcherVars
<1>10. CASE \/ PublishOutside
            \/ \E i \in DOMAIN runs : Complete(i) \/ Panic(i)
            \/ \E a \in DOMAIN Modes : InvokeOutside(a)
            \/ Tick \/ SetTriggers \/ UNCHANGED vars
  BY <1>0, <1>10 DEF PublishOutside, Complete, Panic, InvokeOutside, Tick, SetTriggers, vars,
     pumpVars, watcherVars
<1>11. CASE PumpAll
  BY <1>3, <1>4, <1>5, <1>6, <1>11 DEF PumpAll, Dispatch, Fire
<1> QED BY <1>7, <1>8, <1>9, <1>10, <1>11 DEF Next

\* Types of all variables.
LEMMA TypeStep ==
  ASSUME TypeOK, Phases, Clean, Completions, Awaits, Receivers, [Next]_vars
  PROVE  TypeOK'
BY EngineTypesStep, BusTypesStep, RunTypesStep, PumpTypesStep DEF TypeOK

-----------------------------------------------------------------------------
(* An await is consumed once *)

Members(pool) == {pool[k] : k \in DOMAIN pool}

\* A subsequence has no new members.
LEMMA ThinMembers ==
  ASSUME NEW s, NEW t, NEW kept \in SUBSET DOMAIN s, Thins(t, s, kept)
  PROVE  Members(t) \subseteq Members(s)
BY DEF Thins, Members

\* What another position holds belongs to another run.
LEMMA OtherOwners ==
  ASSUME NEW s, OwnersDiffer(s), NEW k \in DOMAIN s
  PROVE  {s[j].run : j \in DOMAIN s \ {k}} = Owners(s) \ {s[k].run}
<1>1. ASSUME NEW j \in DOMAIN s \ {k} PROVE s[j].run \in Owners(s) \ {s[k].run}
  BY <1>1 DEF OwnersDiffer, Owners
<1>2. ASSUME NEW r \in Owners(s) \ {s[k].run}
      PROVE  r \in {s[j].run : j \in DOMAIN s \ {k}}
  BY <1>2 DEF Owners
<1> QED BY <1>1, <1>2

\* Appending an await of a new run keeps the runs distinct.
LEMMA AppendOwners ==
  ASSUME NEW s \in Seq(Await), NEW w \in Await, OwnersDiffer(s), w.run \notin Owners(s)
  PROVE  LET t == Append(s, w) IN
           /\ OwnersDiffer(t) /\ Owners(t) = Owners(s) \cup {w.run}
           /\ Members(t) = Members(s) \cup {w}
<1> DEFINE t == Append(s, w)
<1>1. /\ DOMAIN s = 1 .. Len(s) /\ Len(s) \in Nat /\ DOMAIN t = 1 .. Len(s) + 1
      /\ \A k \in DOMAIN s : t[k] = s[k]
      /\ t[Len(s) + 1] = w
  BY AppendProperties, LenProperties
<1> HIDE DEF t
<1>2. /\ DOMAIN t = DOMAIN s \cup {Len(s) + 1} /\ Len(s) + 1 \notin DOMAIN s
  BY <1>1
<1>3. OwnersDiffer(t)
  BY <1>1, <1>2 DEF OwnersDiffer, Owners
<1>4. Owners(t) = Owners(s) \cup {w.run}
  BY <1>1, <1>2 DEF Owners
<1>5. Members(t) = Members(s) \cup {w}
  BY <1>1, <1>2 DEF Members
<1> QED BY <1>3, <1>4, <1>5 DEF t

\* So does joining two pools of different runs.
LEMMA ConcatOwners ==
  ASSUME NEW s \in Seq(Await), NEW v \in Seq(Await), OwnersDiffer(s), OwnersDiffer(v),
         Owners(s) \cap Owners(v) = {}
  PROVE  LET t == s \o v IN
           /\ OwnersDiffer(t) /\ Owners(t) = Owners(s) \cup Owners(v)
           /\ Members(t) = Members(s) \cup Members(v)
<1> DEFINE t == s \o v
<1>1. /\ DOMAIN s = 1 .. Len(s) /\ Len(s) \in Nat /\ DOMAIN v = 1 .. Len(v) /\ Len(v) \in Nat
      /\ DOMAIN t = 1 .. Len(s) + Len(v)
      /\ \A k \in 1 .. Len(s) + Len(v) : t[k] = IF k <= Len(s) THEN s[k] ELSE v[k - Len(s)]
  BY ConcatProperties, LenProperties
<1> HIDE DEF t
<1>2. \A n, m \in Nat :
        /\ \A k \in 1 .. n : k \in 1 .. n + m /\ k <= n
        /\ \A k \in 1 .. m : k + n \in 1 .. n + m /\ ~ (k + n <= n) /\ k + n - n = k
        /\ \A k \in 1 .. n + m : IF k <= n THEN k \in 1 .. n ELSE k - n \in 1 .. m
        /\ \A j, k \in 1 .. n + m : j - n = k - n => j = k
  OBVIOUS
<1>3. /\ \A k \in DOMAIN s : k \in DOMAIN t /\ t[k] = s[k]
      /\ \A k \in DOMAIN v : k + Len(s) \in DOMAIN t /\ t[k + Len(s)] = v[k]
      /\ \A k \in DOMAIN t : \/ k \in DOMAIN s /\ t[k] = s[k]
                             \/ k - Len(s) \in DOMAIN v /\ t[k] = v[k - Len(s)]
  BY <1>1, <1>2
<1>4. Members(t) = Members(s) \cup Members(v)
  BY <1>3 DEF Members
<1>5. Owners(t) = Owners(s) \cup Owners(v)
  BY <1>3 DEF Owners
<1>6. OwnersDiffer(t)
  <2> SUFFICES ASSUME NEW j \in DOMAIN t, NEW k \in DOMAIN t, t[j].run = t[k].run
               PROVE  j = k
    BY DEF OwnersDiffer
  <2>1. CASE j \in DOMAIN s /\ t[j] = s[j] /\ k \in DOMAIN s /\ t[k] = s[k]
    BY <2>1 DEF OwnersDiffer
  <2>2. CASE /\ j - Len(s) \in DOMAIN v /\ t[j] = v[j - Len(s)]
             /\ k - Len(s) \in DOMAIN v /\ t[k] = v[k - Len(s)]
    <3>1. j - Len(s) = k - Len(s)
      BY <2>2 DEF OwnersDiffer
    <3> QED BY <1>1, <1>2, <3>1
  <2>3. CASE /\ j \in DOMAIN s /\ t[j] = s[j]
             /\ k - Len(s) \in DOMAIN v /\ t[k] = v[k - Len(s)]
    BY <2>3 DEF Owners
  <2>4. CASE /\ k \in DOMAIN s /\ t[k] = s[k]
             /\ j - Len(s) \in DOMAIN v /\ t[j] = v[j - Len(s)]
    BY <2>4 DEF Owners
  <2> QED BY <1>3, <2>1, <2>2, <2>3, <2>4
<1> QED BY <1>4, <1>5, <1>6 DEF t

\* What the sweep takes out of a pool and what it leaves there.
LEMMA SweepOwners ==
  ASSUME NEW pool \in Seq(Await), OwnersDiffer(pool)
  PROVE  /\ OwnersDiffer(Kept(pool)) /\ OwnersDiffer(Defaulted(pool))
         /\ Owners(Kept(pool)) \cap Owners(Defaulted(pool)) = {}
         /\ Owners(Kept(pool)) \subseteq Owners(pool)
         /\ Owners(Defaulted(pool)) \subseteq Owners(pool)
         /\ Members(Kept(pool)) \subseteq Members(pool)
         /\ Members(Defaulted(pool)) \subseteq Members(pool)
<1> DEFINE young == {k \in DOMAIN pool : pool[k].left > 0}
           due == {k \in DOMAIN pool : pool[k].left = 0 /\ pool[k].fires}
<1>1. Thins(Kept(pool), pool, young) /\ Thins(Defaulted(pool), pool, due)
  BY Sweeping
<1>2. young \in SUBSET DOMAIN pool /\ due \in SUBSET DOMAIN pool /\ young \cap due = {}
  OBVIOUS
<1> HIDE DEF young, due
<1>3. /\ OwnersDiffer(Kept(pool)) /\ Owners(Kept(pool)) = {pool[k].run : k \in young}
      /\ OwnersDiffer(Defaulted(pool)) /\ Owners(Defaulted(pool)) = {pool[k].run : k \in due}
  BY <1>1, <1>2, ThinOwners
<1>4. Members(Kept(pool)) \subseteq Members(pool) /\ Members(Defaulted(pool)) \subseteq Members(pool)
  BY <1>1, <1>2, ThinMembers
<1>5. {pool[k].run : k \in young} \cap {pool[k].run : k \in due} = {}
  BY <1>2 DEF OwnersDiffer
<1>6. {pool[k].run : k \in young} \subseteq Owners(pool) /\ {pool[k].run : k \in due} \subseteq Owners(pool)
  BY <1>2 DEF Owners
<1> QED BY <1>3, <1>4, <1>5, <1>6

\* A run that starts leaves the others as they are, except that it crowds the
\* unsettled ones of its action.
LEMMA Launched ==
  ASSUME RunTypes, NEW a \in DOMAIN Modes, NEW status \in Statuses, Launches(a, status)
  PROVE  /\ DOMAIN runs' = DOMAIN runs \cup {Len(runs) + 1} /\ Len(runs) + 1 \notin DOMAIN runs
         /\ \A i \in DOMAIN runs :
              /\ runs'[i].action = runs[i].action /\ runs'[i].awaited = runs[i].awaited
              /\ runs'[i].status = runs[i].status /\ runs'[i].by = runs[i].by
              /\ runs'[i].tainted = runs[i].tainted
              /\ runs[i].crowded => runs'[i].crowded
              /\ i \in Unsettled(a) => runs'[i].crowded
         /\ LET r == runs'[Len(runs) + 1] IN
              /\ r.action = a /\ r.status = status /\ r.awaited = 0 /\ r.by = 0 /\ ~ r.tainted
              /\ r.crowded <=> Unsettled(a) # {}
<1>1. /\ DOMAIN runs = 1 .. Len(runs) /\ Len(runs) \in Nat
      /\ DOMAIN runs' = 1 .. Len(runs) + 1
  BY RunElements, LenProperties DEF Launches
<1>2. \A r \in RunRecord : LET s == [r EXCEPT !.crowded = TRUE] IN
        /\ s.action = r.action /\ s.awaited = r.awaited /\ s.status = r.status /\ s.by = r.by
        /\ s.tainted = r.tainted /\ s.crowded
  BY DEF RunRecord
<1>3. \A i \in DOMAIN runs :
              /\ runs'[i].action = runs[i].action /\ runs'[i].awaited = runs[i].awaited
              /\ runs'[i].status = runs[i].status /\ runs'[i].by = runs[i].by
              /\ runs'[i].tainted = runs[i].tainted
              /\ runs[i].crowded => runs'[i].crowded
              /\ i \in Unsettled(a) => runs'[i].crowded
  <2> TAKE i \in DOMAIN runs
  <2>1. runs[i] \in RunRecord
    BY RunElements
  <2>2. runs'[i] = IF i \in Unsettled(a) THEN [runs[i] EXCEPT !.crowded = TRUE] ELSE runs[i]
    BY DEF Launches
  <2> QED BY <1>2, <2>1, <2>2
<1>4. DOMAIN runs' = DOMAIN runs \cup {Len(runs) + 1} /\ Len(runs) + 1 \notin DOMAIN runs
  BY <1>1
<1>5. LET r == runs'[Len(runs) + 1] IN
              /\ r.action = a /\ r.status = status /\ r.awaited = 0 /\ r.by = 0 /\ ~ r.tainted
              /\ r.crowded <=> Unsettled(a) # {}
  BY DEF Launches
<1> HIDE DEF Launches
<1> QED BY <1>3, <1>4, <1>5, Zenon

\* Every run keeps its action and its announcements, and none is announced
\* before it starts.
KeepsRuns ==
  /\ \A i \in DOMAIN runs : /\ i \in DOMAIN runs' /\ runs'[i].action = runs[i].action
                           /\ runs'[i].awaited = runs[i].awaited
  /\ \A i \in DOMAIN runs' : i \in DOMAIN runs \/ runs'[i].awaited = 0

\* Steps beside the pools keep what the awaits rely on in their runs.
LEMMA Keeping ==
  ASSUME TypeOK, Phases, Clean, Completions, Awaits,
         \/ PublishOutside
         \/ \E i \in DOMAIN runs : Complete(i) \/ Panic(i)
         \/ \E a \in DOMAIN Modes : InvokeOutside(a)
         \/ Promote \/ Fire
         \/ UNCHANGED runs
  PROVE  KeepsRuns
<1>0. RunTypes
  BY DEF TypeOK
<1>1. CASE PublishOutside \/ UNCHANGED runs
  BY <1>1 DEF PublishOutside, KeepsRuns
<1>2. CASE \E i \in DOMAIN runs : Complete(i) \/ Panic(i)
  <2>1. PICK i \in DOMAIN runs : /\ OnlyRun(i) /\ runs'[i].action = runs[i].action
                                /\ runs'[i].awaited = runs[i].awaited
    BY <1>0, <1>2, Completing, Panicking
  <2> QED BY <2>1 DEF KeepsRuns, OnlyRun
<1>3. CASE (\E a \in DOMAIN Modes : InvokeOutside(a)) \/ Fire
  <2>1. PICK a \in DOMAIN Modes, status \in Statuses : Launches(a, status)
    BY <1>0, <1>3, Firing, Invoking DEF Statuses
  <2>2. /\ DOMAIN runs' = DOMAIN runs \cup {Len(runs) + 1}
        /\ \A i \in DOMAIN runs : runs'[i].action = runs[i].action /\ runs'[i].awaited = runs[i].awaited
        /\ runs'[Len(runs) + 1].awaited = 0
    BY <1>0, <2>1, Launched
  <2> QED BY <2>2 DEF KeepsRuns
<1>4. CASE Promote
  <2>1. /\ DOMAIN runs' = DOMAIN runs
        /\ \A i \in DOMAIN runs : runs'[i].action = runs[i].action /\ runs'[i].awaited = runs[i].awaited
    BY <1>4, Promoting
  <2> QED BY <2>1 DEF KeepsRuns
<1> QED BY <1>1, <1>2, <1>3, <1>4

\* The pools' awaits after a step are awaits of before, or copies of them, or
\* of a new run.
LEMMA FittingPools ==
  ASSUME Awaits, KeepsRuns,
         OwnersDiffer(preflight'), OwnersDiffer(pending'), OwnersDiffer(timedOut'),
         Owners(preflight') \cap Owners(pending') = {},
         Owners(preflight') \cap Owners(timedOut') = {},
         Owners(pending') \cap Owners(timedOut') = {},
         \A w \in Members(preflight') \cup Members(pending') \cup Members(timedOut') :
           \/ \E v \in Members(preflight) \cup Members(pending) \cup Members(timedOut) :
                v.run = w.run /\ v.action = w.action /\ v.tainted = w.tainted
           \/ /\ w.run \in DOMAIN runs' /\ runs'[w.run].action = w.action
              /\ runs'[w.run].awaited = 0 /\ ~ w.tainted
  PROVE  Awaits'
<1>1. \A v \in Members(preflight) \cup Members(pending) \cup Members(timedOut) : Fits(v)
  BY DEF Awaits, Members
<1>2. \A w \in Members(preflight') \cup Members(pending') \cup Members(timedOut') :
        /\ w.run \in DOMAIN runs' /\ runs'[w.run].action = w.action
        /\ runs'[w.run].awaited = 0 /\ ~ w.tainted
  BY <1>1 DEF Fits, KeepsRuns
<1>3. /\ \A k \in DOMAIN preflight' : preflight'[k] \in Members(preflight')
      /\ \A k \in DOMAIN pending' : pending'[k] \in Members(pending')
      /\ \A k \in DOMAIN timedOut' : timedOut'[k] \in Members(timedOut')
  BY DEF Members
<1>4. /\ \A k \in DOMAIN preflight' : Fits(preflight[k])'
      /\ \A k \in DOMAIN pending' : Fits(pending[k])'
      /\ \A k \in DOMAIN timedOut' : Fits(timedOut[k])'
  BY <1>2, <1>3 DEF Fits
<1>5. \A i \in DOMAIN runs' : runs'[i].awaited \in {0, 1}
  BY DEF Awaits, KeepsRuns
<1> QED BY <1>4, <1>5 DEF Awaits, OwnersDiffer, Owners

\* An await is announced and leaves the pools.
LEMMA AnnouncedAwaits ==
  ASSUME TypeOK, Awaits, NEW w \in Members(pending) \cup Members(timedOut),
         runs' = [runs EXCEPT ![w.run].awaited = @ + 1],
         OwnersDiffer(pending'), OwnersDiffer(timedOut'), UNCHANGED preflight,
         Owners(pending') \subseteq Owners(pending), Owners(timedOut') \subseteq Owners(timedOut),
         Members(pending') \subseteq Members(pending), Members(timedOut') \subseteq Members(timedOut),
         w.run \notin Owners(pending') \cup Owners(timedOut') \cup Owners(preflight)
  PROVE  Awaits'
<1>1. Fits(w)
  BY DEF Awaits, Members
<1>2. /\ DOMAIN runs' = DOMAIN runs /\ \A i \in DOMAIN runs \ {w.run} : runs'[i] = runs[i]
      /\ runs'[w.run].awaited = runs[w.run].awaited + 1 /\ runs[w.run].awaited = 0
      /\ w.run \in DOMAIN runs
  BY <1>1, Announcing DEF TypeOK, Fits, OnlyRun
<1>3. \A v \in Members(preflight) \cup Members(pending') \cup Members(timedOut') :
        Fits(v) /\ v.run # w.run
  <2>1. \A v \in Members(preflight) \cup Members(pending) \cup Members(timedOut) : Fits(v)
    BY DEF Awaits, Members
  <2>2. /\ \A v \in Members(preflight) : v.run \in Owners(preflight)
        /\ \A v \in Members(pending') : v.run \in Owners(pending')
        /\ \A v \in Members(timedOut') : v.run \in Owners(timedOut')
    BY DEF Members, Owners
  <2> QED BY <2>1, <2>2
<1>4. \A v \in Members(preflight') \cup Members(pending') \cup Members(timedOut') : Fits(v)'
  BY <1>2, <1>3 DEF Fits
<1>5. /\ \A k \in DOMAIN preflight' : Fits(preflight[k])'
      /\ \A k \in DOMAIN pending' : Fits(pending[k])'
      /\ \A k \in DOMAIN timedOut' : Fits(timedOut[k])'
  <2>1. /\ \A k \in DOMAIN preflight' : preflight'[k] \in Members(preflight')
        /\ \A k \in DOMAIN pending' : pending'[k] \in Members(pending')
        /\ \A k \in DOMAIN timedOut' : timedOut'[k] \in Members(timedOut')
    BY DEF Members
  <2> QED BY <1>4, <2>1 DEF Fits
<1>6. \A i \in DOMAIN runs' : runs'[i].awaited \in {0, 1}
  BY <1>2 DEF Awaits
<1>7. /\ OwnersDiffer(preflight)' /\ OwnersDiffer(pending)' /\ OwnersDiffer(timedOut)'
      /\ (Owners(preflight) \cap Owners(pending) = {})'
      /\ (Owners(preflight) \cap Owners(timedOut) = {})'
      /\ (Owners(pending) \cap Owners(timedOut) = {})'
  <2>1. /\ OwnersDiffer(preflight)' /\ OwnersDiffer(pending)' /\ OwnersDiffer(timedOut)'
    BY DEF Awaits, OwnersDiffer
  <2>2. /\ Owners(preflight) \cap Owners(pending) = {}
        /\ Owners(preflight) \cap Owners(timedOut) = {}
        /\ Owners(pending) \cap Owners(timedOut) = {}
    BY DEF Awaits
  <2>3. /\ Owners(preflight') \cap Owners(pending') = {}
        /\ Owners(preflight') \cap Owners(timedOut') = {}
        /\ Owners(pending') \cap Owners(timedOut') = {}
    BY <2>2
  <2> QED BY <2>1, <2>3 DEF Owners
<1> QED BY <1>5, <1>6, <1>7 DEF Awaits

\* An await is in one pool, and its run is one that awaits.
LEMMA AwaitsStep ==
  ASSUME TypeOK, Phases, Clean, Completions, Awaits, [Next]_vars
  PROVE  Awaits'
<1>0. /\ EngineTypes /\ preflight \in Seq(Await) /\ pending \in Seq(Await) /\ timedOut \in Seq(Await)
      /\ OwnersDiffer(preflight) /\ OwnersDiffer(pending) /\ OwnersDiffer(timedOut)
      /\ Owners(preflight) \cap Owners(pending) = {}
      /\ Owners(preflight) \cap Owners(timedOut) = {}
      /\ Owners(pending) \cap Owners(timedOut) = {}
  BY DEF TypeOK, EngineTypes, Awaits
<1>1. ASSUME KeepsRuns, UNCHANGED <<preflight, pending, timedOut>>
      PROVE  Awaits'
  BY <1>0, <1>1, FittingPools
<1>2. ASSUME NEW k \in DOMAIN pending
      PROVE  /\ OwnersDiffer(Without(pending, k))
             /\ Owners(Without(pending, k)) = Owners(pending) \ {pending[k].run}
             /\ Members(Without(pending, k)) \subseteq Members(pending)
  <2>1. Thins(Without(pending, k), pending, DOMAIN pending \ {k})
    BY <1>0, Cutting
  <2>2. /\ OwnersDiffer(Without(pending, k)) /\ Members(Without(pending, k)) \subseteq Members(pending)
        /\ Owners(Without(pending, k)) = {pending[j].run : j \in DOMAIN pending \ {k}}
    BY <1>0, <2>1, ThinOwners, ThinMembers
  <2>3. {pending[j].run : j \in DOMAIN pending \ {k}} = Owners(pending) \ {pending[k].run}
    BY <1>0, OtherOwners
  <2> QED BY <2>2, <2>3
<1>3. ASSUME NEW k \in DOMAIN preflight
      PROVE  /\ OwnersDiffer(Without(preflight, k))
             /\ Owners(Without(preflight, k)) = Owners(preflight) \ {preflight[k].run}
             /\ Members(Without(preflight, k)) \subseteq Members(preflight)
  <2>1. Thins(Without(preflight, k), preflight, DOMAIN preflight \ {k})
    BY <1>0, Cutting
  <2>2. /\ OwnersDiffer(Without(preflight, k))
        /\ Members(Without(preflight, k)) \subseteq Members(preflight)
        /\ Owners(Without(preflight, k)) = {preflight[j].run : j \in DOMAIN preflight \ {k}}
    BY <1>0, <2>1, ThinOwners, ThinMembers
  <2>3. {preflight[j].run : j \in DOMAIN preflight \ {k}} = Owners(preflight) \ {preflight[k].run}
    BY <1>0, OtherOwners
  <2> QED BY <2>2, <2>3
<1>4. CASE Match
  <2>1. CASE UNCHANGED <<pending, runs>>
    BY <1>1, <1>4, <2>1, Keeping, Matching
  <2>2. CASE \E k \in DOMAIN pending : /\ pending' = Without(pending, k)
                                       /\ runs' = [runs EXCEPT ![pending[k].run].awaited = @ + 1]
    <3>1. PICK k \in DOMAIN pending : /\ pending' = Without(pending, k)
                                      /\ runs' = [runs EXCEPT ![pending[k].run].awaited = @ + 1]
      BY <2>2
    <3> DEFINE w == pending[k]
    <3>2. /\ OwnersDiffer(pending') /\ Owners(pending') = Owners(pending) \ {w.run}
          /\ Members(pending') \subseteq Members(pending)
      BY <1>2, <3>1
    <3>3. UNCHANGED <<preflight, timedOut>> /\ OwnersDiffer(timedOut')
          /\ Owners(timedOut') = Owners(timedOut) /\ Members(timedOut') = Members(timedOut)
      BY <1>0, <1>4, Matching
    <3>4. w \in Members(pending) /\ w.run \in Owners(pending)
      BY DEF Members, Owners
    <3>5. w.run \notin Owners(pending') \cup Owners(timedOut') \cup Owners(preflight)
      BY <1>0, <3>2, <3>3, <3>4
    <3>6. runs' = [runs EXCEPT ![w.run].awaited = @ + 1]
      BY <3>1
    <3> HIDE DEF w
    <3> QED BY <3>2, <3>3, <3>4, <3>5, <3>6, AnnouncedAwaits
  <2> QED BY <1>4, <2>1, <2>2, Matching
<1>5. CASE PublishDefault
  <2> DEFINE w == Head(timedOut)
  <2>1. /\ timedOut # <<>> /\ timedOut' = Tail(timedOut) /\ UNCHANGED <<preflight, pending>>
        /\ runs' = [runs EXCEPT ![w.run].awaited = @ + 1]
    BY <1>5 DEF PublishDefault, engineVars
  <2>2. w = timedOut[1] /\ 1 \in DOMAIN timedOut
    BY <1>0, <2>1, Heads
  <2>3. Thins(timedOut', timedOut, DOMAIN timedOut \ {1})
    BY <1>0, <2>1, TailThins
  <2>4. /\ OwnersDiffer(timedOut') /\ Members(timedOut') \subseteq Members(timedOut)
        /\ Owners(timedOut') = {timedOut[j].run : j \in DOMAIN timedOut \ {1}}
    BY <1>0, <2>3, ThinOwners, ThinMembers
  <2>5. Owners(timedOut') = Owners(timedOut) \ {w.run}
    <3>1. {timedOut[j].run : j \in DOMAIN timedOut \ {1}} = Owners(timedOut) \ {timedOut[1].run}
      BY <1>0, <2>2, OtherOwners
    <3> QED BY <2>2, <2>4, <3>1
  <2>6. w \in Members(timedOut) /\ w.run \in Owners(timedOut)
    BY <2>2 DEF Members, Owners
  <2>7. w.run \notin Owners(pending') \cup Owners(timedOut') \cup Owners(preflight)
    BY <1>0, <2>1, <2>5, <2>6
  <2>8. Owners(pending') = Owners(pending) /\ Members(pending') = Members(pending)
        /\ OwnersDiffer(pending')
    BY <1>0, <2>1
  <2> HIDE DEF w
  <2> QED BY <2>1, <2>4, <2>5, <2>6, <2>7, <2>8, AnnouncedAwaits
<1>6. CASE Promote
  <2> DEFINE e == Head(batch)
  <2>0. KeepsRuns
    BY <1>6, Keeping
  <2>1. /\ UNCHANGED timedOut
        /\ \/ UNCHANGED <<preflight, pending>>
           \/ \E i \in DOMAIN preflight :
                /\ preflight' = Without(preflight, i)
                /\ \/ pending' = pending
                   \/ pending' = Append(pending, [preflight[i] EXCEPT !.by = e.ref])
        /\ e \in Event
    <3>1. e = Head(batch)
      OBVIOUS
    <3> HIDE DEF e
    <3> QED BY <1>6, <3>1, Promoting
  <2>2. ASSUME NEW i \in DOMAIN preflight, preflight' = Without(preflight, i), pending' = pending
        PROVE  Awaits'
    <3>1. /\ OwnersDiffer(preflight') /\ Owners(preflight') \subseteq Owners(preflight)
          /\ Members(preflight') \subseteq Members(preflight)
      BY <1>3, <2>2
    <3>2. /\ OwnersDiffer(pending') /\ OwnersDiffer(timedOut')
          /\ Owners(preflight') \cap Owners(pending') = {}
          /\ Owners(preflight') \cap Owners(timedOut') = {}
          /\ Owners(pending') \cap Owners(timedOut') = {}
          /\ Members(pending') = Members(pending) /\ Members(timedOut') = Members(timedOut)
      BY <1>0, <2>1, <2>2, <3>1
    <3> QED BY <2>0, <3>1, <3>2, FittingPools
  <2>3. ASSUME NEW i \in DOMAIN preflight, preflight' = Without(preflight, i),
               pending' = Append(pending, [preflight[i] EXCEPT !.by = e.ref])
        PROVE  Awaits'
    <3> DEFINE w == [preflight[i] EXCEPT !.by = e.ref]
    <3>1. preflight[i] \in Await /\ e.ref \in Nat
      BY <1>0, <2>1, AwaitElements DEF Event
    <3>2. /\ w \in Await /\ w.run = preflight[i].run /\ w.action = preflight[i].action
          /\ w.tainted = preflight[i].tainted
      BY <3>1 DEF Await
    <3> HIDE DEF w
    <3>3. /\ OwnersDiffer(preflight') /\ Owners(preflight') = Owners(preflight) \ {w.run}
          /\ Members(preflight') \subseteq Members(preflight)
      BY <1>3, <2>3, <3>2
    <3>4. preflight[i] \in Members(preflight) /\ w.run \in Owners(preflight)
      BY <3>2 DEF Members, Owners
    <3>5. /\ OwnersDiffer(pending') /\ Owners(pending') = Owners(pending) \cup {w.run}
          /\ Members(pending') = Members(pending) \cup {w}
      BY <1>0, <2>3, <3>2, <3>4, AppendOwners DEF w
    <3>6. /\ OwnersDiffer(timedOut')
          /\ Owners(preflight') \cap Owners(pending') = {}
          /\ Owners(preflight') \cap Owners(timedOut') = {}
          /\ Owners(pending') \cap Owners(timedOut') = {}
          /\ Members(timedOut') = Members(timedOut)
      BY <1>0, <2>1, <3>3, <3>4, <3>5
    <3>7. \A v \in Members(preflight') \cup Members(pending') \cup Members(timedOut') :
            \E u \in Members(preflight) \cup Members(pending) \cup Members(timedOut) :
              u.run = v.run /\ u.action = v.action /\ u.tainted = v.tainted
      BY <3>2, <3>3, <3>4, <3>5, <3>6
    <3> QED BY <2>0, <3>3, <3>5, <3>6, <3>7, FittingPools
  <2> QED BY <1>1, <2>0, <2>1, <2>2, <2>3
<1>7. CASE Fire
  <2>0. KeepsRuns
    BY <1>7, Keeping
  <2>1. /\ UNCHANGED <<pending, timedOut>>
        /\ \E a \in DOMAIN Modes, status \in Statuses : Launches(a, status) /\ Registers(a)
    BY <1>7, Firing
  <2>2. PICK a \in DOMAIN Modes, status \in Statuses : Launches(a, status) /\ Registers(a)
    BY <2>1
  <2>3. CASE preflight' = preflight
    BY <1>1, <2>0, <2>1, <2>3
  <2>4. ASSUME NEW w \in Await, w.run = Len(runs) + 1, w.action = a, ~ w.tainted,
               preflight' = Append(preflight, w)
        PROVE  Awaits'
    <3>1. /\ w.run \in DOMAIN runs' /\ w.run \notin DOMAIN runs
          /\ runs'[w.run].action = w.action /\ runs'[w.run].awaited = 0
      BY <2>2, <2>4, Launched DEF TypeOK
    <3>2. Owners(preflight) \cup Owners(pending) \cup Owners(timedOut) \subseteq DOMAIN runs
      BY DEF Awaits, Fits, Owners
    <3>3. /\ OwnersDiffer(preflight') /\ Owners(preflight') = Owners(preflight) \cup {w.run}
          /\ Members(preflight') = Members(preflight) \cup {w}
      BY <1>0, <2>4, <3>1, <3>2, AppendOwners
    <3>4. /\ OwnersDiffer(timedOut') /\ OwnersDiffer(pending')
          /\ Owners(preflight') \cap Owners(pending') = {}
          /\ Owners(preflight') \cap Owners(timedOut') = {}
          /\ Owners(pending') \cap Owners(timedOut') = {}
          /\ Members(timedOut') = Members(timedOut) /\ Members(pending') = Members(pending)
      BY <1>0, <2>1, <3>1, <3>2, <3>3
    <3>5. \A v \in Members(preflight') \cup Members(pending') \cup Members(timedOut') :
            \/ v \in Members(preflight) \cup Members(pending) \cup Members(timedOut)
            \/ v = w
      BY <3>3, <3>4
    <3> QED BY <2>0, <2>4, <3>1, <3>3, <3>4, <3>5, FittingPools
  <2> QED BY <2>2, <2>3, <2>4 DEF Registers
<1>8. CASE SweepPreflight
  <2>1. /\ preflight' = Kept(preflight) /\ timedOut' = timedOut \o Defaulted(preflight)
        /\ UNCHANGED <<runs, pending>>
    BY <1>8 DEF SweepPreflight
  <2>2. KeepsRuns
    BY <2>1 DEF KeepsRuns
  <2> DEFINE due == Defaulted(preflight)
  <2>3. /\ OwnersDiffer(preflight') /\ OwnersDiffer(due) /\ due \in Seq(Await)
        /\ Owners(preflight') \cap Owners(due) = {}
        /\ Owners(preflight') \subseteq Owners(preflight) /\ Owners(due) \subseteq Owners(preflight)
        /\ Members(preflight') \subseteq Members(preflight)
        /\ Members(due) \subseteq Members(preflight)
    BY <1>0, <2>1, SweepOwners, Sweeping
  <2> HIDE DEF due
  <2>4. /\ OwnersDiffer(timedOut') /\ Owners(timedOut') = Owners(timedOut) \cup Owners(due)
        /\ Members(timedOut') = Members(timedOut) \cup Members(due)
    <3>1. Owners(timedOut) \cap Owners(due) = {}
      BY <1>0, <2>3
    <3> QED BY <1>0, <2>1, <2>3, <3>1, ConcatOwners DEF due
  <2>5. /\ OwnersDiffer(pending') /\ Owners(pending') = Owners(pending)
        /\ Members(pending') = Members(pending)
    BY <1>0, <2>1
  <2>6. /\ Owners(preflight') \cap Owners(pending') = {}
        /\ Owners(preflight') \cap Owners(timedOut') = {}
        /\ Owners(pending') \cap Owners(timedOut') = {}
    BY <1>0, <2>3, <2>4, <2>5
  <2>7. Members(preflight') \cup Members(pending') \cup Members(timedOut')
          \subseteq Members(preflight) \cup Members(pending) \cup Members(timedOut)
    BY <2>3, <2>4, <2>5
  <2> QED BY <2>2, <2>3, <2>4, <2>5, <2>6, <2>7, FittingPools
<1>9. CASE SweepPending
  <2>1. /\ pending' = Kept(pending) /\ timedOut' = timedOut \o Defaulted(pending)
        /\ UNCHANGED <<runs, preflight>>
    BY <1>9 DEF SweepPending
  <2>2. KeepsRuns
    BY <2>1 DEF KeepsRuns
  <2> DEFINE due == Defaulted(pending)
  <2>3. /\ OwnersDiffer(pending') /\ OwnersDiffer(due) /\ due \in Seq(Await)
        /\ Owners(pending') \cap Owners(due) = {}
        /\ Owners(pending') \subseteq Owners(pending) /\ Owners(due) \subseteq Owners(pending)
        /\ Members(pending') \subseteq Members(pending)
        /\ Members(due) \subseteq Members(pending)
    BY <1>0, <2>1, SweepOwners, Sweeping
  <2> HIDE DEF due
  <2>4. /\ OwnersDiffer(timedOut') /\ Owners(timedOut') = Owners(timedOut) \cup Owners(due)
        /\ Members(timedOut') = Members(timedOut) \cup Members(due)
    <3>1. Owners(timedOut) \cap Owners(due) = {}
      BY <1>0, <2>3
    <3> QED BY <1>0, <2>1, <2>3, <3>1, ConcatOwners DEF due
  <2>5. /\ OwnersDiffer(preflight') /\ Owners(preflight') = Owners(preflight)
        /\ Members(preflight') = Members(preflight)
    BY <1>0, <2>1
  <2>6. /\ Owners(preflight') \cap Owners(pending') = {}
        /\ Owners(preflight') \cap Owners(timedOut') = {}
        /\ Owners(pending') \cap Owners(timedOut') = {}
    BY <1>0, <2>3, <2>4, <2>5
  <2>7. Members(preflight') \cup Members(pending') \cup Members(timedOut')
          \subseteq Members(preflight) \cup Members(pending) \cup Members(timedOut)
    BY <2>3, <2>4, <2>5
  <2> QED BY <2>2, <2>3, <2>4, <2>5, <2>6, <2>7, FittingPools
<1>10. CASE Tick
  <2>1. /\ DOMAIN preflight' = DOMAIN preflight /\ DOMAIN pending' = DOMAIN pending
        /\ \A k \in DOMAIN preflight : preflight'[k].run = preflight[k].run
             /\ preflight'[k].action = preflight[k].action
             /\ preflight'[k].tainted = preflight[k].tainted
        /\ \A k \in DOMAIN pending : pending'[k].run = pending[k].run
             /\ pending'[k].action = pending[k].action
             /\ pending'[k].tainted = pending[k].tainted
        /\ UNCHANGED <<timedOut, runs>>
    BY <1>0, <1>10, Ageing
  <2>2. KeepsRuns
    BY <2>1 DEF KeepsRuns
  <2>3. OwnersDiffer(preflight') /\ OwnersDiffer(pending') /\ OwnersDiffer(timedOut')
    BY <1>0, <2>1 DEF OwnersDiffer
  <2>4. /\ Owners(preflight') = Owners(preflight) /\ Owners(pending') = Owners(pending)
        /\ Owners(timedOut') = Owners(timedOut)
    BY <2>1 DEF Owners
  <2>5. \A w \in Members(preflight') \cup Members(pending') \cup Members(timedOut') :
          \E v \in Members(preflight) \cup Members(pending) \cup Members(timedOut) :
            v.run = w.run /\ v.action = w.action /\ v.tainted = w.tainted
    BY <2>1 DEF Members
  <2> QED BY <1>0, <2>2, <2>3, <2>4, <2>5, FittingPools
<1>11. CASE ClearPreflight \/ ClearPending
  <2>1. /\ \/ preflight' = <<>> /\ pending' = pending
           \/ preflight' = preflight /\ pending' = <<>>
        /\ UNCHANGED <<timedOut, runs>>
    BY <1>11 DEF ClearPreflight, ClearPending
  <2>2. KeepsRuns
    BY <2>1 DEF KeepsRuns
  <2>3. DOMAIN <<>> = {}
    OBVIOUS
  <2>4. OwnersDiffer(<<>>) /\ Owners(<<>>) = {} /\ Members(<<>>) = {}
    BY <2>3 DEF OwnersDiffer, Owners, Members
  <2> QED BY <1>0, <2>1, <2>2, <2>4, FittingPools
<1>12. CASE \/ PublishOutside
            \/ \E i \in DOMAIN runs : Complete(i) \/ Panic(i)
            \/ \E a \in DOMAIN Modes : InvokeOutside(a)
  <2>1. UNCHANGED <<preflight, pending, timedOut>>
    BY <1>12 DEF PublishOutside, Complete, Panic, InvokeOutside, engineVars
  <2> QED BY <1>1, <1>12, <2>1, Keeping
<1>13. CASE \/ \E p \in undrained : DrainReceiver(p)
            \/ SortBatch \/ BatchEnds \/ PassOver \/ FireRefused \/ DispatchEnds
  <2>1. UNCHANGED <<preflight, pending, timedOut, runs>>
    BY <1>13 DEF DrainReceiver, SortBatch, BatchEnds, PassOver, FireRefused, DispatchEnds, engineVars
  <2> QED BY <1>1, <2>1 DEF KeepsRuns
<1>14. CASE \/ SweepEnds \/ Retain \/ (\E p \in Needed(loaded) : Subscribe(p)) \/ ReloadEnds
            \/ (\E who \in {"pump", "watcher"} : Lock(who)) \/ SetTriggers \/ UNCHANGED vars
  <2>1. UNCHANGED <<preflight, pending, timedOut, runs>>
    BY <1>14 DEF SweepEnds, Retain, Subscribe, ReloadEnds, Lock, SetTriggers, vars, engineVars
  <2> QED BY <1>1, <2>1 DEF KeepsRuns
<1>15. CASE PumpAll
  BY <1>4, <1>6, <1>7, <1>13, <1>15 DEF PumpAll, Dispatch, Fire
<1>16. CASE Sweep
  BY <1>5, <1>8, <1>9, <1>14, <1>16 DEF Sweep
<1>17. CASE Reload
  BY <1>11, <1>14, <1>17 DEF Reload
<1> QED BY <1>10, <1>12, <1>14, <1>15, <1>16, <1>17 DEF Next

-----------------------------------------------------------------------------
(* Runs that overlap, and what they are *)

\* What no step takes back of a run, and what a new one has.
LEMMA History ==
  ASSUME TypeOK, Phases, Clean, Completions, Awaits, [Next]_vars
  PROVE  /\ \A i \in DOMAIN runs :
              /\ i \in DOMAIN runs' /\ runs'[i].tainted = runs[i].tainted
              /\ runs[i].crowded => runs'[i].crowded
              /\ runs'[i].by = runs[i].by \/ Promote
         /\ \A i \in DOMAIN runs' : \/ i \in DOMAIN runs
                                    \/ ~ runs'[i].tainted /\ runs'[i].by = 0
<1> DEFINE Goal ==
      /\ \A i \in DOMAIN runs :
              /\ i \in DOMAIN runs' /\ runs'[i].tainted = runs[i].tainted
              /\ runs[i].crowded => runs'[i].crowded
              /\ runs'[i].by = runs[i].by \/ Promote
      /\ \A i \in DOMAIN runs' : \/ i \in DOMAIN runs
                                 \/ ~ runs'[i].tainted /\ runs'[i].by = 0
<1> SUFFICES Goal
  OBVIOUS
<1>0. RunTypes /\ EngineTypes
  BY DEF TypeOK
<1>1. ASSUME NEW i \in DOMAIN runs, OnlyRun(i),
             /\ runs'[i].tainted = runs[i].tainted /\ runs'[i].crowded = runs[i].crowded
             /\ runs'[i].by = runs[i].by
      PROVE  Goal
  BY <1>1 DEF OnlyRun
<1>2. ASSUME NEW i \in DOMAIN runs, Complete(i) \/ Panic(i)
      PROVE  Goal
  <2>1. /\ OnlyRun(i) /\ runs'[i].tainted = runs[i].tainted
        /\ runs'[i].crowded = runs[i].crowded /\ runs'[i].by = runs[i].by
    BY <1>0, <1>2, Completing, Panicking
  <2> HIDE DEF Goal
  <2> QED BY <1>1, <2>1
<1>3. ASSUME NEW a \in DOMAIN Modes, NEW status \in Statuses, Launches(a, status)
      PROVE  Goal
  <2>1. /\ DOMAIN runs' = DOMAIN runs \cup {Len(runs) + 1}
        /\ \A i \in DOMAIN runs :
              /\ runs'[i].by = runs[i].by /\ runs'[i].tainted = runs[i].tainted
              /\ runs[i].crowded => runs'[i].crowded
        /\ runs'[Len(runs) + 1].by = 0 /\ ~ runs'[Len(runs) + 1].tainted
    BY <1>0, <1>3, Launched
  <2> QED BY <2>1
<1>4. CASE Promote
  <2>1. /\ DOMAIN runs' = DOMAIN runs
        /\ \A i \in DOMAIN runs : /\ runs'[i].tainted = runs[i].tainted
                                  /\ runs'[i].crowded = runs[i].crowded
    BY <1>4, Promoting
  <2> QED BY <1>4, <2>1
<1>5. ASSUME NEW i \in DOMAIN runs, runs' = [runs EXCEPT ![i].awaited = @ + 1]
      PROVE  Goal
  <2>1. /\ OnlyRun(i) /\ runs'[i].tainted = runs[i].tainted
        /\ runs'[i].crowded = runs[i].crowded /\ runs'[i].by = runs[i].by
    BY <1>0, <1>5, Announcing
  <2> HIDE DEF Goal
  <2> QED BY <1>1, <2>1
<1>6. CASE UNCHANGED runs
  BY <1>6
<1> HIDE DEF Goal
<1>7. CASE Match
  <2>1. \/ UNCHANGED runs
        \/ \E k \in DOMAIN pending : runs' = [runs EXCEPT ![pending[k].run].awaited = @ + 1]
    BY <1>7, Matching
  <2>2. \A k \in DOMAIN pending : pending[k].run \in DOMAIN runs
    BY DEF Awaits, Fits
  <2> QED BY <1>5, <1>6, <2>1, <2>2
<1>8. CASE PublishDefault
  <2>1. timedOut # <<>> /\ runs' = [runs EXCEPT ![Head(timedOut).run].awaited = @ + 1]
    BY <1>8 DEF PublishDefault
  <2>2. Head(timedOut).run \in DOMAIN runs
    BY <1>0, <2>1, Heads DEF Awaits, Fits, EngineTypes
  <2> QED BY <1>5, <2>1, <2>2
<1>9. CASE Fire
  <2>1. \E a \in DOMAIN Modes, status \in Statuses : Launches(a, status)
    BY <1>9, Firing
  <2> QED BY <1>3, <2>1
<1>10. CASE \E a \in DOMAIN Modes : InvokeOutside(a)
  <2>1. \E a \in DOMAIN Modes, status \in Statuses : Launches(a, status)
    BY <1>0, <1>10, Invoking DEF Statuses
  <2> QED BY <1>3, <2>1
<1>11. CASE PumpAll
  <2>1. CASE \/ \E p \in undrained : DrainReceiver(p)
             \/ SortBatch \/ BatchEnds \/ PassOver \/ FireRefused \/ DispatchEnds
    BY <1>6, <2>1 DEF DrainReceiver, SortBatch, BatchEnds, PassOver, FireRefused, DispatchEnds
  <2> QED BY <1>4, <1>7, <1>9, <1>11, <2>1 DEF PumpAll, Dispatch, Fire
<1>12. CASE Sweep \/ Reload
  BY <1>6, <1>8, <1>12 DEF Sweep, SweepPreflight, SweepPending, SweepEnds, Reload, ClearPreflight,
     ClearPending, Retain, Subscribe, ReloadEnds
<1>13. CASE \/ PublishOutside
            \/ \E who \in {"pump", "watcher"} : Lock(who)
            \/ Tick \/ SetTriggers \/ UNCHANGED vars
  BY <1>6, <1>13 DEF PublishOutside, Lock, Tick, SetTriggers, vars
<1> QED BY <1>2, <1>10, <1>11, <1>12, <1>13 DEF Next

\* Nothing tainted is started by a step.
LEMMA UntrustedStep ==
  ASSUME TypeOK, Phases, Clean, Completions, Awaits, UntrustedNeverFires, [Next]_vars
  PROVE  UntrustedNeverFires'
BY History DEF UntrustedNeverFires

\* A preflight is taken by another run's completion: that run is settled only
\* now, and this one was not settled or was crowded before.
LEMMA CorrelatesStep ==
  ASSUME TypeOK, Phases, Clean, Completions, Awaits, Overlaps, CorrelatesAlone, [Next]_vars
  PROVE  CorrelatesAlone'
<1>1. CASE ~ Promote
  BY <1>1, History DEF CorrelatesAlone
<1>2. CASE Promote
  <2>1. PICK e : e = Head(batch)
    OBVIOUS
  <2>2. /\ DOMAIN runs' = DOMAIN runs /\ e \in Event /\ e \in Coming
        /\ \A r \in DOMAIN runs : runs'[r].crowded = runs[r].crowded
        /\ \/ \A r \in DOMAIN runs : runs'[r].by = runs[r].by
           \/ \E i \in DOMAIN preflight :
                /\ IsCompletion(e) /\ preflight[i].action = e.kind[1]
                /\ \A r \in DOMAIN runs :
                      runs'[r].by = IF r = preflight[i].run THEN e.ref ELSE runs[r].by
    <3>1. /\ DOMAIN runs' = DOMAIN runs /\ e \in Event /\ e \in Coming
          /\ \A r \in DOMAIN runs : runs'[r].crowded = runs[r].crowded
      BY <1>2, <2>1, Promoting
    <3>2. \/ /\ UNCHANGED <<preflight, pending>>
             /\ \A r \in DOMAIN runs : runs'[r].by = runs[r].by
             /\ IsCompletion(e) => \A k \in DOMAIN preflight : preflight[k].action # e.kind[1]
          \/ \E i \in DOMAIN preflight :
               /\ IsCompletion(e) /\ preflight[i].action = e.kind[1]
               /\ preflight' = Without(preflight, i)
               /\ \/ pending' = pending
                  \/ pending' = Append(pending, [preflight[i] EXCEPT !.by = e.ref])
               /\ \A r \in DOMAIN runs :
                    runs'[r].by = IF r = preflight[i].run THEN e.ref ELSE runs[r].by
      BY <1>2, <2>1, Promoting
    <3> QED BY <3>1, <3>2
  <2>3. CASE \A r \in DOMAIN runs : runs'[r].by = runs[r].by
    BY <2>2, <2>3 DEF CorrelatesAlone
  <2>4. ASSUME NEW i \in DOMAIN preflight,
               IsCompletion(e), preflight[i].action = e.kind[1],
               \A r \in DOMAIN runs :
                 runs'[r].by = IF r = preflight[i].run THEN e.ref ELSE runs[r].by
        PROVE  CorrelatesAlone'
    <3> DEFINE r == preflight[i].run
    <3>1. /\ e.ref \in DOMAIN runs /\ e.kind[1] = runs[e.ref].action
          /\ runs[e.ref].status = "published" /\ Announces(runs[e.ref].action)
      BY <2>2, <2>4, ComingCompletions DEF TypeOK
    <3>2. r \in DOMAIN runs /\ runs[r].action = preflight[i].action
      BY DEF Awaits, Fits
    <3>3. runs[r].crowded \/ runs[r].status # "settled"
      BY <2>4, <3>1 DEF Overlaps
    <3>4. e.ref # r => runs[r].crowded
      BY <2>4, <3>1, <3>2, <3>3 DEF Overlaps
    <3> QED BY <2>2, <2>4, <3>4 DEF CorrelatesAlone
  <2> QED BY <2>2, <2>3, <2>4
<1> QED BY <1>1, <1>2

-----------------------------------------------------------------------------
(* One completion per run *)

StatusesKept ==
  /\ \A i \in DOMAIN runs :
       /\ i \in DOMAIN runs' /\ runs'[i].action = runs[i].action
       /\ runs[i].status = "published" => runs'[i].status = "published"
       /\ runs'[i].status = "running" => runs[i].status = "running"
  /\ \A i \in DOMAIN runs' :
       i \in DOMAIN runs \/ (runs'[i].status = "running" => Modes[runs'[i].action] # "spawn")

\* The completion of a run that was not over is the only one to come for it.
LEMMA CompletionsAdded ==
  ASSUME Completions, StatusesKept, NEW new, Coming' \subseteq Coming \cup {new},
         new.source = "action" =>
           /\ new.ref \in DOMAIN runs => runs[new.ref].status # "published"
           /\ new.ref \in DOMAIN runs' /\ runs'[new.ref].status = "published"
           /\ Announces(runs'[new.ref].action)
           /\ new.kind \in {Completed(runs'[new.ref].action), Failed(runs'[new.ref].action)}
  PROVE  Completions'
<1>1. \A i \in DOMAIN runs' : runs'[i].status = "running" => Modes[runs'[i].action] # "spawn"
  BY DEF Completions, StatusesKept
<1>2. \A e \in Coming' : e.source = "action" =>
        /\ e.ref \in DOMAIN runs' /\ runs'[e.ref].status = "published"
        /\ Announces(runs'[e.ref].action)
        /\ e.kind \in {Completed(runs'[e.ref].action), Failed(runs'[e.ref].action)}
  <2> TAKE e \in Coming'
  <2>1. CASE e \in Coming
    BY <2>1 DEF Completions, StatusesKept
  <2>2. CASE e = new
    BY <2>2
  <2> QED BY <2>1, <2>2
<1>3. \A e, f \in Coming' : e.source = "action" /\ f.source = "action" /\ e.ref = f.ref => e = f
  BY DEF Completions
<1> QED BY <1>1, <1>2, <1>3 DEF Completions, Announces, Completed, Failed

\* Completions on their way stay true while none is added and statuses stand.
LEMMA CompletionsKept ==
  ASSUME Completions, StatusesKept, Coming' \subseteq Coming
  PROVE  Completions'
<1> DEFINE none == [source |-> "other"]
<1>1. none.source # "action" /\ Coming' \subseteq Coming \cup {none}
  OBVIOUS
<1> HIDE DEF none
<1> QED BY <1>1, CompletionsAdded

\* A publish adds its event to what is on the way and nothing else.
LEMMA ComingPublished ==
  ASSUME BusTypes, NEW e \in Event, Publish(e), UNCHANGED batch,
         stage' \in {"match", "fire"} <=> stage \in {"match", "fire"}
  PROVE  Coming' \subseteq Coming \cup {e}
<1>1. /\ DOMAIN subs' = DOMAIN subs
      /\ \A p \in DOMAIN subs : \A j \in DOMAIN subs[p] : subs'[p][j] = subs[p][j]
      /\ \A p \in DOMAIN subs : \A j \in DOMAIN subs'[p] : j \in DOMAIN subs[p] \/ subs'[p][j] = e
  BY Publishing
<1>2. Queued' \subseteq Queued \cup {e}
  BY <1>1 DEF Queued
<1> QED BY <1>2 DEF Coming

\* The steps that move events and leave the runs alone.
LEMMA ComingMoved ==
  ASSUME TypeOK, Phases, Receivers,
         \/ \E p \in undrained : DrainReceiver(p)
         \/ SortBatch \/ BatchEnds \/ DispatchEnds
         \/ Retain \/ \E p \in Needed(loaded) : Subscribe(p)
         \/ \E who \in {"pump", "watcher"} : Lock(who)
  PROVE  Coming' \subseteq Coming /\ UNCHANGED runs
<1>1. CASE \E p \in undrained : DrainReceiver(p)
  <2>1. PICK p \in undrained : DrainReceiver(p)
    BY <1>1
  <2>2. /\ p \in DOMAIN subs /\ DOMAIN subs' = DOMAIN subs /\ stage = "drain" /\ stage' = stage
        /\ subs'[p] = <<>> /\ \A q \in DOMAIN subs \ {p} : subs'[q] = subs[q]
        /\ \A k \in DOMAIN batch' :
              \/ k \in DOMAIN batch /\ batch'[k] = batch[k]
              \/ /\ k - Len(batch) \in DOMAIN subs[p]
                 /\ batch'[k] = subs[p][k - Len(batch)]
        /\ UNCHANGED runs
    BY <2>1, Draining
  <2>3. Queued' \subseteq Queued
    BY <2>2 DEF Queued
  <2>4. Batched' \subseteq Batched \cup Queued
    BY <2>2 DEF Queued, Batched
  <2>5. Coming = Queued \cup Batched /\ Coming' \subseteq Queued' \cup Batched'
    BY <2>2 DEF Coming, Batched
  <2> QED BY <2>2, <2>3, <2>4, <2>5
<1>2. CASE SortBatch
  <2>1. stage = "drain" /\ UNCHANGED <<subs, runs>> /\ batch' = Sorted(batch) /\ batch \in Seq(Event)
    BY <1>2 DEF SortBatch, TypeOK, PumpTypes
  <2>2. Thins(batch', batch, DOMAIN batch)
    BY <2>1, Sorting
  <2>3. Batched' \subseteq Batched /\ Queued' = Queued
    BY <2>1, <2>2 DEF Thins, Batched, Queued
  <2>4. Coming = Queued \cup Batched /\ Coming' \subseteq Queued' \cup Batched'
    BY <2>1 DEF Coming, Batched
  <2> QED BY <2>1, <2>3, <2>4
<1>3. CASE DispatchEnds
  <2>1. /\ stage = "fire" /\ UNCHANGED <<subs, runs>> /\ batch' = Tail(batch) /\ batch \in Seq(Event)
        /\ batch # <<>>
    BY <1>3 DEF DispatchEnds, TypeOK, PumpTypes, Phases
  <2>2. Thins(batch', batch, DOMAIN batch \ {1})
    BY <2>1, TailThins
  <2>3. Queued' = Queued /\ \A k \in DOMAIN batch' : \E j \in DOMAIN batch \ {1} : batch'[k] = batch[j]
    BY <2>1, <2>2 DEF Thins, Queued
  <2> QED BY <2>1, <2>3 DEF Coming
<1>4. CASE BatchEnds
  <2>1. stage = "promote" /\ stage' = "idle" /\ UNCHANGED <<subs, runs, batch>>
    BY <1>4 DEF BatchEnds
  <2> QED BY <2>1 DEF Coming, Queued
<1>5. CASE Retain \/ \E p \in Needed(loaded) : Subscribe(p)
  <2>1. /\ UNCHANGED <<batch, runs, stage>>
        /\ \A p \in DOMAIN subs' : \/ p \in DOMAIN subs /\ subs'[p] = subs[p]
                                   \/ subs'[p] = <<>>
    BY <1>5, Reconciling
  <2>2. Queued' \subseteq Queued
    BY <2>1 DEF Queued
  <2> QED BY <2>1, <2>2 DEF Coming
<1>6. CASE \E who \in {"pump", "watcher"} : Lock(who)
  <2>1. stage = "idle" /\ stage' = "drain" /\ UNCHANGED <<subs, runs, batch>>
    BY <1>6 DEF Lock, Phases
  <2> QED BY <2>1 DEF Coming, Queued
<1> QED BY <1>1, <1>2, <1>3, <1>4, <1>5, <1>6

\* A completion on its way is of a run that has published it, and the only one.
LEMMA CompletionsStep ==
  ASSUME TypeOK, Phases, Receivers, OneSlot, Clean, Completions, Awaits, [Next]_vars
  PROVE  Completions'
<1>0. RunTypes /\ BusTypes /\ EngineTypes
  BY DEF TypeOK
<1>1. ASSUME UNCHANGED runs, Coming' \subseteq Coming
      PROVE  Completions'
  <2>1. StatusesKept
    BY <1>1 DEF StatusesKept
  <2> QED BY <1>1, <2>1, CompletionsKept
<1>2. ASSUME UNCHANGED <<runs, subs, batch, stage>>
      PROVE  Completions'
  <2>1. Coming' = Coming
    BY <1>2 DEF Coming, Queued
  <2> QED BY <1>1, <1>2, <2>1
<1>3. ASSUME NEW i \in DOMAIN runs, OnlyRun(i),
             runs'[i].action = runs[i].action, runs'[i].status = runs[i].status
      PROVE  StatusesKept
  BY <1>3 DEF StatusesKept, OnlyRun
<1>4. ASSUME StatusesKept, NEW e \in Event, Publish(e), e.source # "action", UNCHANGED batch,
             stage' \in {"match", "fire"} <=> stage \in {"match", "fire"}
      PROVE  Completions'
  <2>1. Coming' \subseteq Coming \cup {e}
    BY <1>0, <1>4, ComingPublished
  <2> QED BY <1>4, <2>1, CompletionsAdded
<1>5. ASSUME NEW i \in Nat, NEW a \in DOMAIN Modes, NEW ok \in BOOLEAN,
             Publish(CompletionEvent(i, a, ok)), StatusesKept, Announces(a),
             UNCHANGED <<batch, stage>>,
             i \in DOMAIN runs => runs[i].status # "published",
             i \in DOMAIN runs' /\ runs'[i].status = "published" /\ runs'[i].action = a
      PROVE  Completions'
  <2> DEFINE e == CompletionEvent(i, a, ok)
  <2>1. e \in Event
    BY <1>0, EventTypes
  <2>2. e.ref = i /\ e.kind \in {Completed(a), Failed(a)}
    BY DEF CompletionEvent
  <2>3. Publish(e)
    BY <1>5
  <2> HIDE DEF e
  <2>4. Coming' \subseteq Coming \cup {e}
    BY <1>0, <1>5, <2>1, <2>3, ComingPublished
  <2> QED BY <1>5, <2>2, <2>4, CompletionsAdded
<1>6. CASE PublishOutside
  <2>1. PICK o \in Outside, r \in 0 .. Len(runs) :
          Publish([id |-> nextId, kind |-> o.kind, source |-> "other", origin |-> o.origin,
                   ref |-> r, tainted |-> o.origin = "external"])
    BY <1>6 DEF PublishOutside
  <2> DEFINE e == [id |-> nextId, kind |-> o.kind, source |-> "other", origin |-> o.origin,
                   ref |-> r, tainted |-> o.origin = "external"]
  <2>2. r \in Nat
    BY <1>0, RunElements
  <2>3. e \in Event /\ e.source # "action" /\ Publish(e)
    BY <1>0, <2>1, <2>2, OutsideEvents
  <2>4. UNCHANGED <<batch, stage, runs>>
    BY <1>6 DEF PublishOutside, pumpVars
  <2>5. StatusesKept
    BY <2>4 DEF StatusesKept
  <2> HIDE DEF e
  <2> QED BY <1>4, <2>3, <2>4, <2>5
<1>7. ASSUME NEW i \in DOMAIN runs, Panic(i) PROVE Completions'
  <2>1. /\ OnlyRun(i) /\ runs[i].status = "running" /\ runs'[i].status = "lost"
        /\ runs'[i].action = runs[i].action /\ UNCHANGED <<subs, batch, stage>>
    BY <1>0, <1>7, Panicking DEF pumpVars
  <2>2. StatusesKept
    BY <2>1 DEF StatusesKept, OnlyRun
  <2>3. Coming' = Coming
    BY <2>1 DEF Coming, Queued
  <2> QED BY <2>2, <2>3, CompletionsKept
<1>8. ASSUME NEW i \in DOMAIN runs, Complete(i) PROVE Completions'
  <2>1. /\ OnlyRun(i) /\ runs[i].status = "running" /\ runs'[i].action = runs[i].action
        /\ UNCHANGED <<batch, stage>>
        /\ \/ /\ runs'[i].status = "settled" /\ UNCHANGED subs
           \/ /\ runs[i].action \notin SilentActions /\ runs'[i].status = "published"
              /\ \E ok \in BOOLEAN : Publish(CompletionEvent(i, runs[i].action, ok))
    BY <1>0, <1>8, Completing DEF pumpVars
  <2>2. StatusesKept
    BY <2>1 DEF StatusesKept, OnlyRun
  <2>3. CASE runs'[i].status = "settled" /\ UNCHANGED subs
    <3>1. Coming' = Coming
      BY <2>1, <2>3 DEF Coming, Queued
    <3> QED BY <2>2, <3>1, CompletionsKept
  <2>4. CASE /\ runs[i].action \notin SilentActions /\ runs'[i].status = "published"
             /\ \E ok \in BOOLEAN : Publish(CompletionEvent(i, runs[i].action, ok))
    <3>1. Announces(runs[i].action)
      BY <2>1, <2>4 DEF Completions, Announces
    <3>2. i \in Nat /\ runs[i].action \in DOMAIN Modes /\ i \in DOMAIN runs'
      BY <1>0, <2>1, RunElements DEF OnlyRun
    <3> QED BY <1>5, <2>1, <2>2, <2>4, <3>1, <3>2
  <2> QED BY <2>1, <2>3, <2>4
<1>9. ASSUME NEW a \in DOMAIN Modes, NEW status \in Statuses, Launches(a, status),
             status = "running" => Modes[a] # "spawn"
      PROVE  StatusesKept
  <2>1. /\ DOMAIN runs' = DOMAIN runs \cup {Len(runs) + 1}
        /\ \A i \in DOMAIN runs : /\ runs'[i].action = runs[i].action
                                  /\ runs'[i].status = runs[i].status
        /\ runs'[Len(runs) + 1].action = a /\ runs'[Len(runs) + 1].status = status
    BY <1>0, <1>9, Launched
  <2> QED BY <1>9, <2>1 DEF StatusesKept
<1>10. ASSUME NEW a \in DOMAIN Modes, InvokeOutside(a) PROVE Completions'
  <2>1. Launches(a, "running") /\ Modes[a] # "spawn" /\ UNCHANGED <<subs, batch, stage>>
    BY <1>0, <1>10, Invoking DEF pumpVars
  <2>2. StatusesKept
    BY <1>9, <2>1 DEF Statuses
  <2>3. Coming' = Coming
    BY <2>1 DEF Coming, Queued
  <2> QED BY <2>2, <2>3, CompletionsKept
<1>11. CASE Fire
  <2>1. UNCHANGED <<batch, stage>>
    BY <1>11, Firing
  <2>2. PICK a \in DOMAIN Modes, status \in Statuses :
          /\ Launches(a, status)
          /\ \/ status = "running" /\ Modes[a] # "spawn" /\ UNCHANGED <<subs, nextId>>
             \/ status = "settled" /\ ~ Announces(a) /\ UNCHANGED <<subs, nextId>>
             \/ /\ status = "published" /\ Announces(a)
                /\ \E ok \in BOOLEAN : Publish(CompletionEvent(Len(runs) + 1, a, ok))
    BY <1>11, Firing
  <2>3. StatusesKept
    BY <1>9, <2>2
  <2>4. CASE UNCHANGED <<subs, nextId>>
    <3>1. Coming' = Coming
      BY <2>1, <2>4 DEF Coming, Queued
    <3> QED BY <2>3, <3>1, CompletionsKept
  <2>5. CASE /\ status = "published" /\ Announces(a)
             /\ \E ok \in BOOLEAN : Publish(CompletionEvent(Len(runs) + 1, a, ok))
    <3>1. /\ Len(runs) + 1 \in DOMAIN runs' /\ Len(runs) + 1 \notin DOMAIN runs
          /\ runs'[Len(runs) + 1].status = "published" /\ runs'[Len(runs) + 1].action = a
      BY <1>0, <2>2, <2>5, Launched
    <3>2. Len(runs) + 1 \in Nat
      BY <1>0, RunElements
    <3> QED BY <1>5, <2>1, <2>3, <2>5, <3>1, <3>2
  <2> QED BY <2>2, <2>4, <2>5
<1>12. CASE Match
  <2>1. stage = "match" /\ stage' = "fire" /\ UNCHANGED batch
    BY <1>12, Matching
  <2>2. CASE UNCHANGED <<runs, subs>>
    <3>1. Coming' = Coming
      BY <2>1, <2>2 DEF Coming, Queued
    <3> QED BY <1>1, <2>2, <3>1
  <2>3. CASE \E k \in DOMAIN pending, e \in Event :
                 /\ runs' = [runs EXCEPT ![pending[k].run].awaited = @ + 1]
                 /\ Publish(e) /\ e.source = "await"
    <3>1. PICK k \in DOMAIN pending, e \in Event :
                 /\ runs' = [runs EXCEPT ![pending[k].run].awaited = @ + 1]
                 /\ Publish(e) /\ e.source = "await"
      BY <2>3
    <3>2. pending[k].run \in DOMAIN runs
      BY DEF Awaits, Fits
    <3>3. StatusesKept
      BY <1>0, <1>3, <3>1, <3>2, Announcing
    <3> QED BY <1>4, <2>1, <3>1, <3>3
  <2> QED BY <1>12, <2>2, <2>3, Matching
<1>13. CASE PublishDefault
  <2>1. /\ timedOut # <<>> /\ runs' = [runs EXCEPT ![Head(timedOut).run].awaited = @ + 1]
        /\ Publish(AwaitedEvent(Head(timedOut), Head(timedOut).tainted)) /\ UNCHANGED <<batch, stage>>
    BY <1>13 DEF PublishDefault, pumpVars
  <2>2. Head(timedOut) \in Await /\ Head(timedOut).run \in DOMAIN runs
    BY <1>0, <2>1, Heads DEF Awaits, Fits, EngineTypes
  <2> DEFINE e == AwaitedEvent(Head(timedOut), Head(timedOut).tainted)
  <2>3. e \in Event
    <3>1. Head(timedOut).tainted \in BOOLEAN
      BY <2>2 DEF Await
    <3> QED BY <1>0, <2>2, <3>1, EventTypes
  <2>4. e.source # "action" /\ Publish(e)
    BY <2>1 DEF AwaitedEvent
  <2>5. StatusesKept
    BY <1>0, <1>3, <2>1, <2>2, Announcing
  <2> HIDE DEF e
  <2> QED BY <1>4, <2>1, <2>3, <2>4, <2>5
<1>14. CASE Promote
  <2>1. PICK e : e = Head(batch)
    OBVIOUS
  <2>2. /\ stage = "promote" /\ stage' = "match" /\ UNCHANGED <<subs, batch>>
        /\ e \in Event /\ e = batch[1] /\ 1 \in DOMAIN batch /\ e \in Coming
        /\ DOMAIN runs' = DOMAIN runs
        /\ \A r \in DOMAIN runs :
              /\ runs'[r].action = runs[r].action
              /\ runs'[r].status = IF IsCompletion(e) /\ r = e.ref THEN "settled"
                                   ELSE runs[r].status
    BY <1>14, <2>1, Promoting
  <2>3. Coming' \subseteq Coming
    BY <2>2 DEF Coming, Queued
  <2>4. e \notin Coming'
    <3>1. \A f \in Queued : f # e
      BY <2>2 DEF OneSlot, Batched
    <3>2. \A k \in DOMAIN batch : k # 1 => batch[k] # e
      BY <2>2 DEF OneSlot
    <3>3. Queued' = Queued
      BY <2>2 DEF Queued
    <3> QED BY <2>2, <3>1, <3>2, <3>3 DEF Coming
  <2>5. \A f \in Coming' : f.source = "action" =>
          /\ f.ref \in DOMAIN runs' /\ runs'[f.ref].status = "published"
          /\ Announces(runs'[f.ref].action)
          /\ f.kind \in {Completed(runs'[f.ref].action), Failed(runs'[f.ref].action)}
    <3> TAKE f \in Coming'
    <3>1. f \in Coming /\ f # e
      BY <2>3, <2>4
    <3>2. IsCompletion(e) /\ f.source = "action" => f.ref # e.ref
      BY <2>2, <3>1 DEF IsCompletion, Completions
    <3> QED BY <2>2, <3>1, <3>2 DEF Completions
  <2>6. \A f, g \in Coming' : f.source = "action" /\ g.source = "action" /\ f.ref = g.ref => f = g
    BY <2>3 DEF Completions
  <2>7. \A i \in DOMAIN runs' : runs'[i].status = "running" => Modes[runs'[i].action] # "spawn"
    BY <2>2 DEF Completions
  <2> QED BY <2>5, <2>6, <2>7 DEF Completions, Announces, Completed, Failed
<1>15. CASE PumpAll
  <2>1. CASE PassOver \/ FireRefused
    BY <1>2, <2>1 DEF PassOver, FireRefused
  <2> QED BY <1>0, <1>1, <1>11, <1>12, <1>14, <1>15, <2>1, ComingMoved DEF PumpAll, Dispatch, Fire
<1>16. CASE Sweep
  BY <1>2, <1>13, <1>16 DEF Sweep, SweepPreflight, SweepPending, SweepEnds, pumpVars
<1>17. CASE Reload
  <2>1. CASE ClearPreflight \/ ClearPending \/ ReloadEnds
    BY <1>2, <2>1 DEF ClearPreflight, ClearPending, ReloadEnds, pumpVars
  <2> QED BY <1>0, <1>1, <1>17, <2>1, ComingMoved DEF Reload
<1>18. CASE \E who \in {"pump", "watcher"} : Lock(who)
  BY <1>1, <1>18, ComingMoved
<1>19. CASE Tick \/ SetTriggers \/ UNCHANGED vars
  BY <1>2, <1>19 DEF Tick, SetTriggers, vars, pumpVars
<1> QED BY <1>6, <1>7, <1>8, <1>10, <1>15, <1>16, <1>17, <1>18, <1>19 DEF Next

-----------------------------------------------------------------------------
(* Preflights and unsettled runs *)

\* The runs of an action are finite in number.
LEMMA CountedRuns ==
  ASSUME RunTypes, Awaits, NEW a
  PROVE  /\ IsFiniteSet(WaitingFor(a)) /\ IsFiniteSet(Unsettled(a))
         /\ WaitingFor(a) \subseteq DOMAIN runs /\ Unsettled(a) \subseteq DOMAIN runs
         /\ Cardinality(WaitingFor(a)) \in Nat /\ Cardinality(Unsettled(a)) \in Nat
<1>1. WaitingFor(a) \in SUBSET DOMAIN runs /\ Unsettled(a) \in SUBSET DOMAIN runs
  BY DEF WaitingFor, Awaits, Fits, Unsettled, SameAction
<1>2. IsFiniteSet(DOMAIN runs)
  <2>1. 1 \in Int /\ Len(runs) \in Int /\ DOMAIN runs = 1 .. Len(runs)
    BY RunElements
  <2> QED BY <2>1, FS_Interval
<1> QED BY <1>1, <1>2, FS_Subset, FS_CardinalityType

\* A step that starts no run and settles none that announces itself.
LEMMA QuietOverlaps ==
  ASSUME TypeOK, Awaits, Overlaps, DOMAIN runs' = DOMAIN runs,
         \A i \in DOMAIN runs :
           /\ runs'[i].action = runs[i].action /\ runs'[i].crowded = runs[i].crowded
           /\ runs[i].status = "settled" => runs'[i].status = "settled"
           /\ runs'[i].status = "settled" /\ Announces(runs[i].action) => runs[i].status = "settled",
         \A w \in Members(preflight') : \E v \in Members(preflight) :
           v.run = w.run /\ v.action = w.action
  PROVE  Overlaps'
<1>1. \A i, j \in DOMAIN runs' :
        /\ i # j /\ runs'[i].action = runs'[j].action
        /\ runs'[i].status # "settled" /\ runs'[j].status # "settled"
        => runs'[i].crowded
  BY DEF Overlaps
<1>2. ASSUME NEW a \in DOMAIN Modes, Announces(a)
      PROVE  Cardinality(WaitingFor(a)') <= Cardinality(Unsettled(a)')
  <2>1. Unsettled(a)' = Unsettled(a)
    BY <1>2 DEF Unsettled, SameAction
  <2>2. WaitingFor(a)' \in SUBSET WaitingFor(a)
    BY DEF WaitingFor, Members
  <2>3. Cardinality(WaitingFor(a)') <= Cardinality(WaitingFor(a)) /\ Cardinality(WaitingFor(a)') \in Nat
    BY <2>2, CountedRuns, FS_Subset, FS_CardinalityType DEF TypeOK
  <2>4. Cardinality(WaitingFor(a)) <= Cardinality(Unsettled(a))
    BY <1>2 DEF Overlaps
  <2> HIDE DEF WaitingFor, Unsettled
  <2> QED BY <2>1, <2>3, <2>4, CountedRuns DEF TypeOK
<1>3. \A k \in DOMAIN preflight' : Announces(preflight'[k].action) =>
        runs'[preflight'[k].run].crowded \/ runs'[preflight'[k].run].status # "settled"
  <2> TAKE k \in DOMAIN preflight'
  <2>1. PICK j \in DOMAIN preflight : /\ preflight[j].run = preflight'[k].run
                                      /\ preflight[j].action = preflight'[k].action
    BY DEF Members
  <2>2. preflight[j].run \in DOMAIN runs /\ runs[preflight[j].run].action = preflight[j].action
    BY DEF Awaits, Fits
  <2> QED BY <2>1, <2>2 DEF Overlaps
<1> QED BY <1>1, <1>2, <1>3 DEF Overlaps, Announces

\* A run that starts, with its preflight if it registers one.
LEMMA LaunchedOverlaps ==
  ASSUME TypeOK, Awaits, Overlaps, NEW a \in DOMAIN Modes, NEW status \in Statuses,
         Launches(a, status), Registers(a), Announces(a) => status # "settled"
  PROVE  Overlaps'
<1> DEFINE new == Len(runs) + 1
<1>0. /\ RunTypes /\ preflight \in Seq(Await)
  BY DEF TypeOK, EngineTypes
<1>1. /\ DOMAIN runs' = DOMAIN runs \cup {new} /\ new \notin DOMAIN runs
      /\ \A i \in DOMAIN runs :
           /\ runs'[i].action = runs[i].action /\ runs'[i].status = runs[i].status
           /\ runs[i].crowded => runs'[i].crowded
           /\ i \in Unsettled(a) => runs'[i].crowded
      /\ runs'[new].action = a /\ runs'[new].status = status
      /\ runs'[new].crowded <=> Unsettled(a) # {}
  BY <1>0, Launched
<1>2. Members(preflight') \subseteq Members(preflight)
        \cup {w \in Members(preflight') : w.run = new /\ w.action = a}
  <2>1. CASE preflight' = preflight
    BY <2>1
  <2>2. ASSUME NEW w \in Await, w.run = new, w.action = a, preflight' = Append(preflight, w)
        PROVE  Members(preflight') \subseteq Members(preflight)
                 \cup {v \in Members(preflight') : v.run = new /\ v.action = a}
    <3>1. Owners(preflight) \subseteq DOMAIN runs /\ OwnersDiffer(preflight)
      BY DEF Awaits, Fits, Owners
    <3>2. Members(preflight') = Members(preflight) \cup {w}
      BY <1>0, <1>1, <2>2, <3>1, AppendOwners
    <3> QED BY <2>2, <3>2
  <2> QED BY <2>1, <2>2 DEF Registers
<1>3. \A i, j \in DOMAIN runs' :
        /\ i # j /\ runs'[i].action = runs'[j].action
        /\ runs'[i].status # "settled" /\ runs'[j].status # "settled"
        => runs'[i].crowded
  <2> SUFFICES ASSUME NEW i \in DOMAIN runs', NEW j \in DOMAIN runs',
                      i # j, runs'[i].action = runs'[j].action,
                      runs'[i].status # "settled", runs'[j].status # "settled"
               PROVE  runs'[i].crowded
    OBVIOUS
  <2>1. CASE i = new
    <3>1. j \in Unsettled(a)
      BY <1>1, <2>1 DEF Unsettled, SameAction
    <3> QED BY <1>1, <2>1, <3>1
  <2>2. CASE j = new
    <3>1. i \in Unsettled(a)
      BY <1>1, <2>2 DEF Unsettled, SameAction
    <3> QED BY <1>1, <2>2, <3>1
  <2>3. CASE i \in DOMAIN runs /\ j \in DOMAIN runs
    BY <1>1, <2>3 DEF Overlaps
  <2> QED BY <1>1, <2>1, <2>2, <2>3
<1>4. ASSUME NEW b \in DOMAIN Modes, Announces(b)
      PROVE  Cardinality(WaitingFor(b)') <= Cardinality(Unsettled(b)')
  <2>0. Cardinality(WaitingFor(b)) <= Cardinality(Unsettled(b))
    BY <1>4 DEF Overlaps
  <2>1. CASE b = a
    <3>1. Unsettled(b)' = Unsettled(b) \cup {new} /\ new \notin Unsettled(b)
      BY <1>1, <1>4, <2>1 DEF Unsettled, SameAction
    <3>2. WaitingFor(b)' \subseteq WaitingFor(b) \cup {new} /\ new \notin WaitingFor(b)
      <4>1. \A k \in DOMAIN preflight' : \/ preflight'[k] \in Members(preflight)
                                         \/ preflight'[k].run = new
        BY <1>2 DEF Members
      <4>2. WaitingFor(b)' \subseteq WaitingFor(b) \cup {new}
        BY <4>1 DEF WaitingFor, Members
      <4> QED BY <1>1, <4>2 DEF WaitingFor, Awaits, Fits
    <3> HIDE DEF new
    <3>3. /\ Cardinality(Unsettled(b) \cup {new}) = Cardinality(Unsettled(b)) + 1
          /\ Cardinality(WaitingFor(b) \cup {new}) = Cardinality(WaitingFor(b)) + 1
          /\ IsFiniteSet(WaitingFor(b) \cup {new})
      BY <1>0, <3>1, <3>2, CountedRuns, FS_AddElement
    <3>4. /\ Cardinality(WaitingFor(b)') <= Cardinality(WaitingFor(b) \cup {new})
          /\ Cardinality(WaitingFor(b)') \in Nat
      BY <3>2, <3>3, FS_Subset, FS_CardinalityType
    <3> QED BY <1>0, <2>0, <3>1, <3>3, <3>4, CountedRuns
  <2>2. CASE b # a
    <3>1. Unsettled(b)' = Unsettled(b)
      BY <1>1, <2>2 DEF Unsettled, SameAction
    <3>2. WaitingFor(b)' \in SUBSET WaitingFor(b)
      <4>1. \A k \in DOMAIN preflight' : \/ preflight'[k] \in Members(preflight)
                                         \/ preflight'[k].action = a
        BY <1>2 DEF Members
      <4> QED BY <2>2, <4>1 DEF WaitingFor, Members
    <3>3. Cardinality(WaitingFor(b)') <= Cardinality(WaitingFor(b)) /\ Cardinality(WaitingFor(b)') \in Nat
      BY <1>0, <3>2, CountedRuns, FS_Subset, FS_CardinalityType
    <3> QED BY <1>0, <2>0, <3>1, <3>3, CountedRuns
  <2> QED BY <2>1, <2>2
<1>5. \A k \in DOMAIN preflight' : Announces(preflight'[k].action) =>
        runs'[preflight'[k].run].crowded \/ runs'[preflight'[k].run].status # "settled"
  <2> TAKE k \in DOMAIN preflight'
  <2>1. CASE preflight'[k] \in Members(preflight)
    <3>1. PICK j \in DOMAIN preflight : preflight'[k] = preflight[j]
      BY <2>1 DEF Members
    <3>2. preflight[j].run \in DOMAIN runs
      BY DEF Awaits, Fits
    <3> QED BY <1>1, <3>1, <3>2 DEF Overlaps
  <2>2. CASE preflight'[k].run = new /\ preflight'[k].action = a
    BY <1>1, <2>2
  <2> QED BY <1>2, <2>1, <2>2 DEF Members
<1> QED BY <1>3, <1>4, <1>5 DEF Overlaps, Announces

\* A completion settles its run and takes a preflight of its action.
LEMMA PromotedOverlaps ==
  ASSUME TypeOK, Clean, Completions, Awaits, Overlaps, Promote
  PROVE  Overlaps'
<1>1. PICK e : e = Head(batch)
  OBVIOUS
<1>2. /\ e \in Event /\ e \in Coming /\ DOMAIN runs' = DOMAIN runs
      /\ \A r \in DOMAIN runs :
           /\ runs'[r].action = runs[r].action /\ runs'[r].crowded = runs[r].crowded
           /\ runs'[r].status = IF IsCompletion(e) /\ r = e.ref THEN "settled" ELSE runs[r].status
      /\ \/ /\ UNCHANGED preflight
            /\ IsCompletion(e) => \A k \in DOMAIN preflight : preflight[k].action # e.kind[1]
         \/ \E i \in DOMAIN preflight :
              /\ IsCompletion(e) /\ preflight[i].action = e.kind[1]
              /\ preflight' = Without(preflight, i)
  BY <1>1, Promoting
<1>3. CASE ~ IsCompletion(e)
  <2>1. UNCHANGED preflight
    BY <1>2, <1>3
  <2> QED BY <1>2, <1>3, <2>1, QuietOverlaps
<1>4. CASE IsCompletion(e)
  <2> DEFINE a == e.kind[1]
  <2>1. /\ e.ref \in DOMAIN runs /\ a = runs[e.ref].action /\ runs[e.ref].status = "published"
        /\ Announces(a) /\ a \in DOMAIN Modes
    BY <1>2, <1>4, ComingCompletions, RunElements DEF TypeOK
  <2>2. Unsettled(a)' = Unsettled(a) \ {e.ref} /\ e.ref \in Unsettled(a)
    BY <1>2, <1>4, <2>1 DEF Unsettled, SameAction
  <2>3. \A b \in DOMAIN Modes : b # a => Unsettled(b)' = Unsettled(b)
    BY <1>2, <1>4, <2>1 DEF Unsettled, SameAction
  <2>4. /\ Members(preflight') \subseteq Members(preflight)
        /\ \/ WaitingFor(a)' = {}
           \/ \E r \in WaitingFor(a) : WaitingFor(a)' = WaitingFor(a) \ {r}
    <3>1. CASE /\ UNCHANGED preflight
               /\ \A k \in DOMAIN preflight : preflight[k].action # a
      BY <3>1 DEF WaitingFor, Members
    <3>2. ASSUME NEW i \in DOMAIN preflight, preflight[i].action = a,
                 preflight' = Without(preflight, i)
          PROVE  /\ Members(preflight') \subseteq Members(preflight)
                 /\ \E r \in WaitingFor(a) : WaitingFor(a)' = WaitingFor(a) \ {r}
      <4>1. Thins(preflight', preflight, DOMAIN preflight \ {i})
        BY <3>2, Cutting DEF TypeOK, EngineTypes
      <4>2. PICK f \in [DOMAIN preflight' -> DOMAIN preflight \ {i}] :
              /\ \A j \in DOMAIN preflight \ {i} : \E n \in DOMAIN preflight' : f[n] = j
              /\ \A n \in DOMAIN preflight' : preflight'[n] = preflight[f[n]]
        BY <4>1 DEF Thins
      <4>3. WaitingFor(a)' = {preflight[k].run : k \in {j \in DOMAIN preflight \ {i} :
                                                          preflight[j].action = a}}
        BY <4>2 DEF WaitingFor
      <4>4. WaitingFor(a)' = WaitingFor(a) \ {preflight[i].run} /\ preflight[i].run \in WaitingFor(a)
        <5> DEFINE own == {j \in DOMAIN preflight : preflight[j].action = a}
        <5>1. WaitingFor(a) = {preflight[k].run : k \in own} /\ i \in own
          BY <3>2 DEF WaitingFor
        <5>2. WaitingFor(a)' = {preflight[k].run : k \in own \ {i}}
          BY <4>3
        <5>3. \A k \in own : preflight[k].run = preflight[i].run => k = i
          BY <5>1 DEF Awaits, OwnersDiffer
        <5> HIDE DEF own
        <5> QED BY <5>1, <5>2, <5>3
      <4>5. Members(preflight') \subseteq Members(preflight)
        BY <4>1, ThinMembers
      <4> QED BY <4>4, <4>5
    <3> QED BY <1>2, <1>4, <3>1, <3>2
  <2> HIDE DEF a
  <2>5. \A i, j \in DOMAIN runs' :
          /\ i # j /\ runs'[i].action = runs'[j].action
          /\ runs'[i].status # "settled" /\ runs'[j].status # "settled"
          => runs'[i].crowded
    BY <1>2 DEF Overlaps
  <2>6. /\ Cardinality(Unsettled(a)') = Cardinality(Unsettled(a)) - 1
        /\ Cardinality(Unsettled(a)) # 0
    <3>1. Unsettled(a) # {}
      BY <2>2
    <3> QED BY <2>2, <3>1, CountedRuns, FS_RemoveElement, FS_EmptySet DEF TypeOK
  <2>7. ASSUME NEW b \in DOMAIN Modes, Announces(b)
        PROVE  Cardinality(WaitingFor(b)') <= Cardinality(Unsettled(b)')
    <3>0. Cardinality(WaitingFor(b)) <= Cardinality(Unsettled(b))
      BY <2>7 DEF Overlaps
    <3>1. CASE b # a
      <4>1. WaitingFor(b)' \in SUBSET WaitingFor(b)
        BY <2>4 DEF WaitingFor, Members
      <4>2. Cardinality(WaitingFor(b)') <= Cardinality(WaitingFor(b)) /\ Cardinality(WaitingFor(b)') \in Nat
        BY <4>1, CountedRuns, FS_Subset, FS_CardinalityType DEF TypeOK
      <4> QED BY <2>3, <3>0, <3>1, <4>2, CountedRuns DEF TypeOK
    <3>2. CASE b = a /\ WaitingFor(a)' = {}
      <4>1. Cardinality(WaitingFor(a)') = 0
        BY <3>2, FS_EmptySet
      <4> QED BY <2>6, <3>2, <4>1, CountedRuns DEF TypeOK
    <3>3. CASE b = a /\ \E r \in WaitingFor(a) : WaitingFor(a)' = WaitingFor(a) \ {r}
      <4>1. Cardinality(WaitingFor(a)') = Cardinality(WaitingFor(a)) - 1
        BY <3>3, CountedRuns, FS_RemoveElement DEF TypeOK
      <4> QED BY <2>6, <3>0, <3>3, <4>1, CountedRuns DEF TypeOK
    <3> QED BY <2>4, <3>1, <3>2, <3>3
  <2>8. ASSUME NEW k \in DOMAIN preflight', Announces(preflight'[k].action)
        PROVE  runs'[preflight'[k].run].crowded \/ runs'[preflight'[k].run].status # "settled"
    <3> DEFINE w == preflight'[k]
    <3>1. PICK j \in DOMAIN preflight : preflight[j] = w
      BY <2>4 DEF Members
    <3>2. w.run \in DOMAIN runs /\ runs[w.run].action = w.action
      BY <3>1 DEF Awaits, Fits
    <3>3. runs[w.run].crowded \/ runs[w.run].status # "settled"
      BY <2>8, <3>1 DEF Overlaps
    <3>4. CASE w.run # e.ref
      BY <1>2, <3>2, <3>3, <3>4
    <3>5. CASE w.run = e.ref
      <4>1. e.ref \in WaitingFor(a)'
        BY <2>1, <3>2, <3>5 DEF WaitingFor
      <4>2. PICK r \in WaitingFor(a) : WaitingFor(a)' = WaitingFor(a) \ {r}
        BY <2>4, <4>1
      <4>3. Cardinality(WaitingFor(a)') # 0 /\ Cardinality(WaitingFor(a)') \in Nat
        <5>1. WaitingFor(a)' \in SUBSET WaitingFor(a)
          BY <4>2
        <5>2. IsFiniteSet(WaitingFor(a)')
          BY <5>1, CountedRuns, FS_Subset DEF TypeOK
        <5> QED BY <4>1, <5>2, FS_EmptySet, FS_CardinalityType
      <4>4. Cardinality(Unsettled(a)') # 0
        <5>1. Cardinality(WaitingFor(a)') <= Cardinality(Unsettled(a)')
          BY <2>1, <2>7
        <5>2. Cardinality(WaitingFor(a)') = Cardinality(WaitingFor(a)) - 1
          BY <4>2, CountedRuns, FS_RemoveElement DEF TypeOK
        <5>3. /\ Cardinality(WaitingFor(a)) \in Nat /\ Cardinality(Unsettled(a)) \in Nat
          BY CountedRuns DEF TypeOK
        <5> HIDE DEF WaitingFor, Unsettled
        <5> QED BY <2>6, <4>3, <5>1, <5>2, <5>3
      <4>5. PICK j2 \in Unsettled(a) : j2 # e.ref
        <5>1. Unsettled(a)' # {}
          BY <4>4, FS_EmptySet
        <5> QED BY <2>2, <5>1
      <4>6. runs[e.ref].crowded
        BY <2>1, <4>5 DEF Overlaps, Unsettled, SameAction
      <4> QED BY <1>2, <2>1, <3>5, <4>6
    <3> QED BY <3>4, <3>5
  <2> QED BY <2>5, <2>7, <2>8 DEF Overlaps, Announces
<1> QED BY <1>3, <1>4

\* A run that shared its action with another one is marked.
LEMMA OverlapsStep ==
  ASSUME TypeOK, Phases, Clean, Completions, Awaits, Overlaps, [Next]_vars
  PROVE  Overlaps'
<1>0. RunTypes /\ EngineTypes /\ preflight \in Seq(Await)
  BY DEF TypeOK, EngineTypes
<1>1. ASSUME UNCHANGED runs, Members(preflight') \subseteq Members(preflight)
      PROVE  Overlaps'
  BY <1>1, QuietOverlaps
<1>2. ASSUME UNCHANGED <<runs, preflight>> PROVE Overlaps'
  BY <1>1, <1>2
<1>3. ASSUME NEW i \in DOMAIN runs, OnlyRun(i), UNCHANGED preflight,
             runs'[i].action = runs[i].action, runs'[i].crowded = runs[i].crowded,
             runs[i].status # "settled",
             runs'[i].status = "settled" => ~ Announces(runs[i].action)
      PROVE  Overlaps'
  BY <1>3, QuietOverlaps DEF OnlyRun
<1>4. ASSUME NEW i \in DOMAIN runs, runs' = [runs EXCEPT ![i].awaited = @ + 1], UNCHANGED preflight
      PROVE  Overlaps'
  <2>1. /\ OnlyRun(i) /\ runs'[i].action = runs[i].action /\ runs'[i].crowded = runs[i].crowded
        /\ runs'[i].status = runs[i].status
    BY <1>0, <1>4, Announcing
  <2> QED BY <1>4, <2>1, QuietOverlaps DEF OnlyRun
<1>5. ASSUME NEW i \in DOMAIN runs, Complete(i) \/ Panic(i) PROVE Overlaps'
  <2>1. /\ OnlyRun(i) /\ UNCHANGED preflight /\ runs[i].status = "running"
        /\ runs'[i].action = runs[i].action /\ runs'[i].crowded = runs[i].crowded
        /\ runs'[i].status = "settled" => runs[i].action \in SilentActions
    BY <1>0, <1>5, Completing, Panicking DEF engineVars
  <2> QED BY <1>3, <2>1 DEF Announces
<1>6. ASSUME NEW a \in DOMAIN Modes, InvokeOutside(a) PROVE Overlaps'
  <2>1. Launches(a, "running") /\ Registers(a) /\ "running" \in Statuses
    BY <1>0, <1>6, Invoking DEF Registers, Statuses, engineVars
  <2> QED BY <2>1, LaunchedOverlaps
<1>7. CASE Fire
  <2>1. PICK a \in DOMAIN Modes, status \in Statuses :
          /\ Launches(a, status) /\ Registers(a)
          /\ status = "settled" => ~ Announces(a)
    BY <1>7, Firing
  <2> QED BY <2>1, LaunchedOverlaps
<1>8. CASE Match
  <2>1. /\ UNCHANGED preflight
        /\ \/ UNCHANGED runs
           \/ \E k \in DOMAIN pending : runs' = [runs EXCEPT ![pending[k].run].awaited = @ + 1]
    BY <1>8, Matching
  <2>2. \A k \in DOMAIN pending : pending[k].run \in DOMAIN runs
    BY DEF Awaits, Fits
  <2> QED BY <1>2, <1>4, <2>1, <2>2
<1>9. CASE PublishDefault
  <2>1. /\ timedOut # <<>> /\ runs' = [runs EXCEPT ![Head(timedOut).run].awaited = @ + 1]
        /\ UNCHANGED preflight
    BY <1>9 DEF PublishDefault, engineVars
  <2>2. Head(timedOut).run \in DOMAIN runs
    BY <1>0, <2>1, Heads DEF Awaits, Fits, EngineTypes
  <2> QED BY <1>4, <2>1, <2>2
<1>10. CASE SweepPreflight
  <2>1. preflight' = Kept(preflight) /\ UNCHANGED runs
    BY <1>10 DEF SweepPreflight
  <2>2. Members(preflight') \subseteq Members(preflight)
    BY <1>0, <2>1, SweepOwners DEF Awaits
  <2> QED BY <1>1, <2>1, <2>2
<1>11. CASE Tick
  <2>1. /\ DOMAIN preflight' = DOMAIN preflight
        /\ \A k \in DOMAIN preflight : /\ preflight'[k].run = preflight[k].run
                                       /\ preflight'[k].action = preflight[k].action
        /\ UNCHANGED runs
    BY <1>0, <1>11, Ageing
  <2>2. \A w \in Members(preflight') : \E v \in Members(preflight) :
          v.run = w.run /\ v.action = w.action
    BY <2>1 DEF Members
  <2> QED BY <2>1, <2>2, QuietOverlaps
<1>12. CASE ClearPreflight
  <2>1. preflight' = <<>> /\ UNCHANGED runs
    BY <1>12 DEF ClearPreflight
  <2>2. Members(preflight') = {}
    BY <2>1 DEF Members
  <2> QED BY <1>1, <2>1, <2>2
<1>13. CASE PumpAll
  <2>1. CASE \/ \E p \in undrained : DrainReceiver(p)
             \/ SortBatch \/ BatchEnds \/ PassOver \/ FireRefused \/ DispatchEnds
    BY <1>2, <2>1 DEF DrainReceiver, SortBatch, BatchEnds, PassOver, FireRefused, DispatchEnds,
       engineVars
  <2>2. CASE Promote
    BY <2>2, PromotedOverlaps
  <2> QED BY <1>7, <1>8, <1>13, <2>1, <2>2 DEF PumpAll, Dispatch, Fire
<1>14. CASE Sweep
  BY <1>2, <1>9, <1>10, <1>14 DEF Sweep, SweepPending, SweepEnds, engineVars
<1>15. CASE Reload
  BY <1>2, <1>12, <1>15 DEF Reload, ClearPending, Retain, Subscribe, ReloadEnds, engineVars
<1>16. CASE \/ PublishOutside
            \/ \E who \in {"pump", "watcher"} : Lock(who)
            \/ SetTriggers \/ UNCHANGED vars
  BY <1>2, <1>16 DEF PublishOutside, Lock, SetTriggers, vars, engineVars
<1> QED BY <1>5, <1>6, <1>11, <1>13, <1>14, <1>15, <1>16 DEF Next

-----------------------------------------------------------------------------
(* The invariant *)

\* The invariant holds initially.
LEMMA InitHolds ==
  ASSUME Init
  PROVE  IInv
<1>1. /\ triggers \in Configs /\ preflight = <<>> /\ pending = <<>> /\ timedOut = <<>>
      /\ subs = [p \in Needed(triggers) |-> <<>>]
      /\ holder = "free" /\ stage = "idle" /\ undrained = {} /\ batch = <<>> /\ todo = <<>>
      /\ pump = "sleep" /\ watcher = "sleep" /\ loaded = triggers /\ reloads = 0
      /\ runs = <<>> /\ outside = 0 /\ nextId = 1
  BY DEF Init
<1>2. \A S : <<>> \in Seq(S)
  OBVIOUS
<1>3. DOMAIN <<>> = {}
  OBVIOUS
<1>4. /\ DOMAIN subs = Needed(triggers) /\ Needed(triggers) \subseteq Patterns
      /\ \A p \in DOMAIN subs : subs[p] = <<>>
  BY <1>1, NeededPatterns
<1>5. EngineTypes
  BY <1>1, <1>2 DEF EngineTypes
<1>6. BusTypes
  BY <1>1, <1>2, <1>4 DEF BusTypes
<1>7. PumpTypes
  BY <1>1, <1>2 DEF PumpTypes
<1>8. RunTypes
  BY <1>1, <1>2, BoundsAssumption DEF RunTypes
<1>9. Queued = {} /\ Batched = {} /\ Coming = {}
  BY <1>1, <1>3, <1>4 DEF Queued, Batched, Coming
<1>10. Phases
  BY <1>1 DEF Phases
<1>11. Receivers
  BY <1>1, <1>4, Antichains DEF Receivers, Needed
<1>12. OneSlot
  BY <1>1, <1>3, <1>4, <1>9 DEF OneSlot
<1>13. Clean /\ Completions
  BY <1>1, <1>3, <1>9 DEF Clean, Completions
<1>14. Awaits
  BY <1>1, <1>3 DEF Awaits, OwnersDiffer, Owners
<1>15. Overlaps
  <2>1. \A a : WaitingFor(a) = {} /\ Unsettled(a) = {}
    BY <1>1, <1>3 DEF WaitingFor, Unsettled, SameAction
  <2>2. \A a : Cardinality(WaitingFor(a)) <= Cardinality(Unsettled(a))
    BY <2>1, FS_EmptySet
  <2> QED BY <1>1, <1>3, <2>2 DEF Overlaps
<1>16. UntrustedNeverFires /\ CorrelatesAlone
  BY <1>1, <1>3 DEF UntrustedNeverFires, CorrelatesAlone
<1> QED BY <1>5, <1>6, <1>7, <1>8, <1>10, <1>11, <1>12, <1>13, <1>14, <1>15, <1>16 DEF IInv, TypeOK

\* Every step keeps it.
LEMMA StepHolds ==
  ASSUME IInv, [Next]_vars
  PROVE  IInv'
BY TypeStep, PhasesStep, ReceiversStep, OneSlotStep, CleanStep, CompletionsStep, AwaitsStep,
   OverlapsStep, UntrustedStep, CorrelatesStep DEF IInv

\* The inductive invariant.
THEOREM Invariance == Spec => []IInv
<1>1. Init => IInv
  BY InitHolds
<1>2. IInv /\ [Next]_vars => IInv'
  BY StepHolds
<1> QED BY <1>1, <1>2, PTL DEF Spec

\* Nothing an event from outside started runs without an opt-in, however many
\* triggers, awaits and announcements are between the two (the trust gates of
\* dispatch, try_promote_or_drop_preflight and try_match_pending_awaits).
THEOREM UntrustedStarts == Spec => []UntrustedNeverFires
<1>1. IInv => UntrustedNeverFires
  BY DEF IInv
<1> QED BY <1>1, Invariance, PTL

\* Only overlapping runs of one action can take each other's awaits: matching
\* completions to preflights by name is right as long as they do not overlap.
THEOREM Correlation == Spec => []CorrelatesAlone
<1>1. IInv => CorrelatesAlone
  BY DEF IInv
<1> QED BY <1>1, Invariance, PTL

\* In one batch the completions are dispatched before the replies (sort_by_key
\* in drain_into), so no reply is matched ahead of what arms its await.
THEOREM Armed == Spec => []ArmedBeforeReply
<1>1. ASSUME IInv PROVE ArmedBeforeReply
  <2> SUFFICES ASSUME stage = "match", Head(batch).source = "other",
                      NEW k \in 2 .. Len(batch), IsCompletion(batch[k])
               PROVE  FALSE
    BY DEF ArmedBeforeReply
  <2>1. batch \in Seq(Event) /\ batch # <<>> /\ CompletionsFirst(batch)
    BY <1>1 DEF IInv, TypeOK, PumpTypes, Phases
  <2>2. Head(batch) = batch[1] /\ 1 \in DOMAIN batch /\ DOMAIN batch = 1 .. Len(batch)
        /\ Len(batch) \in Nat
    BY <2>1, Heads
  <2>3. k \in DOMAIN batch /\ 1 < k
    BY <2>2
  <2>4. IsCompletion(batch[1])
    BY <2>1, <2>2, <2>3 DEF CompletionsFirst
  <2> QED BY <2>2, <2>4 DEF IsCompletion
<1> QED BY <1>1, Invariance, PTL

\* A set without two elements.
LEMMA AtMostOne ==
  ASSUME NEW S, \A x, y \in S : x = y
  PROVE  Cardinality(S) = IF S = {} THEN 0 ELSE 1
<1>1. CASE S = {}
  BY <1>1, FS_EmptySet
<1>2. CASE S # {}
  <2>1. PICK x \in S : TRUE
    BY <1>2
  <2>2. S = {x}
    BY <2>1
  <2> QED BY <1>2, <2>2, FS_Singleton
<1> QED BY <1>1, <1>2

\* It implies that no run is awaited twice,
LEMMA AwaitedOnce ==
  ASSUME IInv
  PROVE  AwaitOnce
<1>1. \A pool, i : OwnersDiffer(pool) =>
        Cardinality(InPool(pool, i)) = IF i \in Owners(pool) THEN 1 ELSE 0
  <2> SUFFICES ASSUME NEW pool, NEW i, OwnersDiffer(pool)
               PROVE  Cardinality(InPool(pool, i)) = IF i \in Owners(pool) THEN 1 ELSE 0
    OBVIOUS
  <2>1. \A x, y \in InPool(pool, i) : x = y
    BY DEF InPool, OwnersDiffer
  <2>2. InPool(pool, i) = {} <=> i \notin Owners(pool)
    BY DEF InPool, Owners
  <2> QED BY <2>1, <2>2, AtMostOne
<1>2. ASSUME NEW i \in DOMAIN runs
      PROVE  Cardinality(InPool(preflight, i)) + Cardinality(InPool(pending, i))
               + Cardinality(InPool(timedOut, i)) + runs[i].awaited <= 1
  <2> DEFINE a == Cardinality(InPool(preflight, i))
             b == Cardinality(InPool(pending, i))
             c == Cardinality(InPool(timedOut, i))
  <2>1. /\ a = IF i \in Owners(preflight) THEN 1 ELSE 0
        /\ b = IF i \in Owners(pending) THEN 1 ELSE 0
        /\ c = IF i \in Owners(timedOut) THEN 1 ELSE 0
    BY <1>1 DEF IInv, Awaits
  <2>2. /\ Owners(preflight) \cap Owners(pending) = {}
        /\ Owners(preflight) \cap Owners(timedOut) = {}
        /\ Owners(pending) \cap Owners(timedOut) = {}
        /\ runs[i].awaited \in {0, 1}
    BY DEF IInv, Awaits
  <2>3. i \in Owners(preflight) \cup Owners(pending) \cup Owners(timedOut) => runs[i].awaited = 0
    BY DEF IInv, Awaits, Fits, Owners
  <2> HIDE DEF a, b, c
  <2>4. a + b + c + runs[i].awaited <= 1
    BY <2>1, <2>2, <2>3
  <2> QED BY <2>4 DEF a, b, c
<1> QED BY <1>2 DEF AwaitOnce

\* and that no event is held twice.
LEMMA CopiedOnce ==
  ASSUME IInv
  PROVE  OneCopy
<1> DEFINE there(id) == {k \in DOMAIN batch : batch[k].id = id}
           waiting(id) == UNION {{<<p, k>> : k \in {j \in DOMAIN subs[p] : subs[p][j].id = id}} :
                                 p \in DOMAIN subs}
<1>1. ASSUME NEW id \in 1 .. nextId - 1
      PROVE  Cardinality(there(id)) + Cardinality(waiting(id)) <= 1
  <2>1. \A x, y \in there(id) : x = y
    BY DEF IInv, OneSlot
  <2>2. \A x \in waiting(id) : \E p \in DOMAIN subs : \E j \in DOMAIN subs[p] :
          x = <<p, j>> /\ subs[p][j].id = id
    OBVIOUS
  <2>3. \A x, y \in waiting(id) : x = y
    <3> TAKE x \in waiting(id), y \in waiting(id)
    <3>1. PICK p \in DOMAIN subs : \E j \in DOMAIN subs[p] : x = <<p, j>> /\ subs[p][j].id = id
      BY <2>2
    <3>2. PICK j \in DOMAIN subs[p] : x = <<p, j>> /\ subs[p][j].id = id
      BY <3>1
    <3>3. PICK q \in DOMAIN subs : \E k \in DOMAIN subs[q] : y = <<q, k>> /\ subs[q][k].id = id
      BY <2>2
    <3>4. PICK k \in DOMAIN subs[q] : y = <<q, k>> /\ subs[q][k].id = id
      BY <3>3
    <3>5. p = q /\ j = k
      BY <3>2, <3>4 DEF IInv, OneSlot
    <3> QED BY <3>2, <3>4, <3>5
  <2>4. there(id) = {} \/ waiting(id) = {}
    BY <2>2 DEF IInv, OneSlot, Queued, Batched
  <2> HIDE DEF there, waiting
  <2>5. /\ Cardinality(there(id)) = IF there(id) = {} THEN 0 ELSE 1
        /\ Cardinality(waiting(id)) = IF waiting(id) = {} THEN 0 ELSE 1
    BY <2>1, <2>3, AtMostOne
  <2> QED BY <2>4, <2>5
<1> QED BY <1>1 DEF OneCopy

\* Every await is consumed once, and every event is in one place: dispatch, the
\* sweep and a reload may interleave as they like.
THEOREM Once == Spec => []NothingTwice
<1>1. IInv => NothingTwice
  BY AwaitedOnce, CopiedOnce DEF NothingTwice, IInv
<1> QED BY <1>1, Invariance, PTL

\* A receiver that is drained is behind the batch, with all it held.
LEMMA DrainKeeps ==
  ASSUME TypeOK, NEW p \in undrained, DrainReceiver(p)
  PROVE  /\ \A k \in DOMAIN batch : k \in DOMAIN batch' /\ batch'[k] = batch[k]
         /\ \A k \in DOMAIN subs[p] : \E n \in DOMAIN batch' : batch'[n] = subs[p][k]
<1>1. batch' = batch \o subs[p] /\ batch \in Seq(Event) /\ subs[p] \in Seq(Event)
  BY DEF DrainReceiver, TypeOK, BusTypes, PumpTypes
<1>2. /\ DOMAIN batch = 1 .. Len(batch) /\ Len(batch) \in Nat
      /\ DOMAIN subs[p] = 1 .. Len(subs[p]) /\ Len(subs[p]) \in Nat
  BY <1>1, LenProperties
<1>3. /\ batch' \in Seq(Event) /\ Len(batch') = Len(batch) + Len(subs[p])
      /\ \A k \in 1 .. Len(batch) + Len(subs[p]) :
           batch'[k] = IF k <= Len(batch) THEN batch[k] ELSE subs[p][k - Len(batch)]
  BY <1>1, ConcatProperties
<1>4. DOMAIN batch' = 1 .. Len(batch) + Len(subs[p])
  BY <1>3, LenProperties
<1>5. \A k \in DOMAIN batch : k \in DOMAIN batch' /\ batch'[k] = batch[k]
  BY <1>2, <1>3, <1>4
<1>6. ASSUME NEW k \in DOMAIN subs[p]
      PROVE  \E n \in DOMAIN batch' : batch'[n] = subs[p][k]
  <2>1. PICK n \in 1 .. Len(batch) + Len(subs[p]) : ~ (n <= Len(batch)) /\ n - Len(batch) = k
    BY <1>2, Behind
  <2> QED BY <1>3, <1>4, <2>1
<1> QED BY <1>5, <1>6

\* An event leaves a receiver for the batch, or with a receiver that is given up.
LEMMA LeavesReceiver ==
  ASSUME TypeOK, Phases, Clean, Awaits, [Next]_vars,
         NEW id, NEW p \in DOMAIN subs, Held(p, id), ~ Listened(id)'
  PROVE  InBatch(id)' \/ (watcher = "reconcile" /\ p \notin Needed(loaded))
<1>1. PICK k \in DOMAIN subs[p] : subs[p][k].id = id
  BY DEF Held
<1>2. \A q \in DOMAIN subs' : \A n \in DOMAIN subs'[q] : subs'[q][n].id # id
  BY DEF Listened, Held
<1>3. ~ UNCHANGED subs
  BY <1>1, <1>2
<1>4. ASSUME NEW e \in Event, Publish(e) PROVE FALSE
  <2>1. p \in DOMAIN subs' /\ k \in DOMAIN subs'[p] /\ subs'[p][k] = subs[p][k]
    BY <1>4, Publishing DEF TypeOK
  <2> QED BY <1>1, <1>2, <2>1
<1>5. ASSUME NEW q \in undrained, DrainReceiver(q) PROVE InBatch(id)'
  <2>1. q = p
    <3>1. DOMAIN subs' = DOMAIN subs /\ \A r \in DOMAIN subs \ {q} : subs'[r] = subs[r]
      BY <1>5, Draining
    <3> QED BY <1>1, <1>2, <3>1
  <2>2. PICK n \in DOMAIN batch' : batch'[n] = subs[p][k]
    BY <1>1, <1>5, <2>1, DrainKeeps
  <2> QED BY <1>1, <2>2 DEF InBatch
<1>6. ASSUME Retain PROVE watcher = "reconcile" /\ p \notin Needed(loaded)
  <2>1. watcher = "reconcile" /\ subs' = [q \in DOMAIN subs \cap Needed(loaded) |-> subs[q]]
    BY <1>6 DEF Retain
  <2>2. p \in Needed(loaded) => p \in DOMAIN subs' /\ subs'[p] = subs[p]
    BY <2>1
  <2> QED BY <1>1, <1>2, <2>1, <2>2
<1>7. ASSUME NEW q \in Needed(loaded), Subscribe(q) PROVE FALSE
  <2>1. p \in DOMAIN subs' /\ subs'[p] = subs[p]
    BY <1>7 DEF Subscribe
  <2> QED BY <1>1, <1>2, <2>1
<1> QED BY <1>3, <1>4, <1>5, <1>6, <1>7, Publications

\* An event leaves the batch when it was dispatched.
LEMMA LeavesBatch ==
  ASSUME TypeOK, Phases, [Next]_vars, NEW id, InBatch(id), ~ InBatch(id)'
  PROVE  stage = "fire" /\ todo = <<>> /\ Head(batch).id = id
<1>1. PICK k \in DOMAIN batch : batch[k].id = id
  BY DEF InBatch
<1>2. \A n \in DOMAIN batch' : batch'[n].id # id
  BY DEF InBatch
<1>3. batch \in Seq(Event)
  BY DEF TypeOK, PumpTypes
<1>4. ~ UNCHANGED batch
  BY <1>1, <1>2
<1>5. ASSUME SortBatch PROVE FALSE
  <2>1. Thins(batch', batch, DOMAIN batch)
    BY <1>3, <1>5, Sorting DEF SortBatch
  <2> QED BY <1>1, <1>2, <2>1 DEF Thins
<1>6. ASSUME DispatchEnds PROVE stage = "fire" /\ todo = <<>> /\ Head(batch).id = id
  <2>1. stage = "fire" /\ todo = <<>> /\ batch' = Tail(batch) /\ batch # <<>>
    BY <1>6 DEF DispatchEnds, Phases
  <2>2. Thins(batch', batch, DOMAIN batch \ {1})
    BY <1>3, <2>1, TailThins
  <2>3. k = 1
    BY <1>1, <1>2, <2>2 DEF Thins
  <2>4. Head(batch) = batch[1]
    BY <1>3, <2>1, Heads
  <2> QED BY <1>1, <2>1, <2>3, <2>4
<1>7. ASSUME NEW p \in undrained, DrainReceiver(p) PROVE FALSE
  BY <1>1, <1>2, <1>7, DrainKeeps
<1> QED BY <1>4, <1>5, <1>6, <1>7, Batches

\* No event that waits is given up but by a reload that does not want its pattern, and none
\* leaves the batch undispatched: the safety half of QueuesDrain.
THEOREM EventsDispatched == Spec => [][Dispatched]_vars
<1>1. IInv /\ [Next]_vars => [Dispatched]_vars
  <2> SUFFICES ASSUME IInv, [Next]_vars PROVE Dispatched
    OBVIOUS
  <2> QED BY LeavesReceiver, LeavesBatch DEF Dispatched, IInv
<1> QED BY <1>1, Invariance, PTL DEF Spec
=============================================================================
