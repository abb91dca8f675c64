---------------------------- MODULE TesterProofs ----------------------------
(* What the tester keeps and handles, for any menus of commands, delays,   *)
(* callbacks and bounds: results of activities and timers are on their way *)
(* once, no event is left behind, and time travel goes forward.            *)
EXTENDS Tester, SequenceTheorems, FiniteSetTheorems, WellFoundedInduction, TLAPS

(* Sequences, and how often something is in one.                           *)

\* How often elements of T occur in s.
Occ(s, T) == Cardinality({k \in DOMAIN s : s[k] \in T})

LEMMA OccNat ==
    ASSUME NEW S, NEW s \in Seq(S), NEW T
    PROVE  /\ IsFiniteSet({k \in DOMAIN s : s[k] \in T})
           /\ Occ(s, T) \in Nat
<1>1. DOMAIN s = 1 .. Len(s) /\ Len(s) \in Nat
  BY LenProperties
<1>2. IsFiniteSet(DOMAIN s)
  BY <1>1, FS_Interval
<1>3. IsFiniteSet({k \in DOMAIN s : s[k] \in T})
  BY <1>2, FS_Subset
<1> QED
  BY <1>3, FS_CardinalityType DEF Occ

LEMMA OccZero ==
    ASSUME NEW S, NEW s \in Seq(S), NEW T
    PROVE  Occ(s, T) = 0 <=> \A k \in DOMAIN s : s[k] \notin T
<1> DEFINE A == {k \in DOMAIN s : s[k] \in T}
<1>1. Occ(s, T) = 0 <=> A = {}
  BY OccNat, FS_EmptySet DEF Occ
<1> QED
  BY <1>1

\* Entry i of s is left out in r.
LeavesOut(s, i, r) ==
    /\ Len(s) = Len(r) + 1
    /\ \A j \in 1 .. Len(r) : r[j] = IF j < i THEN s[j] ELSE s[j + 1]

LEMMA OccLeavesOut ==
    ASSUME NEW S, NEW s \in Seq(S), NEW r \in Seq(S), NEW i \in 1 .. Len(s), NEW T,
           LeavesOut(s, i, r)
    PROVE  Occ(s, T) = Occ(r, T) + (IF s[i] \in T THEN 1 ELSE 0)
<1> DEFINE A == {k \in DOMAIN s : s[k] \in T}
           B == {k \in DOMAIN r : r[k] \in T}
           f == [k \in B |-> IF k < i THEN k ELSE k + 1]
<1>1. /\ DOMAIN s = 1 .. Len(s) /\ Len(s) \in Nat
      /\ DOMAIN r = 1 .. Len(r) /\ Len(r) \in Nat
  BY LenProperties
<1>2. IsFiniteSet(A) /\ IsFiniteSet(B)
  BY OccNat
<1>3. f \in [B -> A \ {i}]
  BY <1>1 DEF LeavesOut
<1>4. \A a, b \in B : f[a] = f[b] => a = b
  BY <1>1
<1>5. \A c \in A \ {i} : \E b \in B : f[b] = c
  <2> SUFFICES ASSUME NEW c \in A \ {i} PROVE \E b \in B : f[b] = c
    OBVIOUS
  <2>1. CASE c < i
    <3>1. c \in 1 .. Len(r) /\ r[c] = s[c]
      BY <1>1, <2>1 DEF LeavesOut
    <3> QED
      BY <1>1, <2>1, <3>1
  <2>2. CASE ~(c < i)
    <3>1. c - 1 \in 1 .. Len(r) /\ ~(c - 1 < i) /\ (c - 1) + 1 = c
      BY <1>1, <2>2 DEF LeavesOut
    <3>2. r[c - 1] = s[c]
      BY <3>1 DEF LeavesOut
    <3> QED
      BY <1>1, <3>1, <3>2
  <2> QED
    BY <2>1, <2>2
<1>6. ExistsBijection(B, A \ {i})
  <2> HIDE DEF A, B, f
  <2>1. f \in Bijection(B, A \ {i})
    <3>1. f \in Injection(B, A \ {i})
      <4>1. DOMAIN f = B
        BY <1>3
      <4> QED
        BY <1>3, <1>4, <4>1 DEF Injection, IsInjective
    <3>2. f \in Surjection(B, A \ {i})
      BY <1>3, <1>5 DEF Surjection
    <3> QED
      BY <3>1, <3>2 DEF Bijection
  <2> QED
    BY <2>1 DEF ExistsBijection
<1>7. Cardinality(A \ {i}) = Cardinality(B)
  <2> HIDE DEF A, B
  <2> QED
    BY <1>2, <1>6, FS_Bijection
<1>8. Cardinality(A \ {i}) = IF i \in A THEN Cardinality(A) - 1 ELSE Cardinality(A)
  <2> HIDE DEF A
  <2> QED
    BY <1>2, FS_RemoveElement
<1>9. i \in A <=> s[i] \in T
  BY <1>1
<1>10. Cardinality(A) \in Nat /\ Cardinality(B) \in Nat
  <2> HIDE DEF A, B
  <2> QED
    BY <1>2, FS_CardinalityType
<1> QED
  BY <1>7, <1>8, <1>9, <1>10 DEF Occ

LEMMA OccAppend ==
    ASSUME NEW S, NEW s \in Seq(S), NEW e \in S, NEW T
    PROVE  Occ(Append(s, e), T) = Occ(s, T) + (IF e \in T THEN 1 ELSE 0)
<1>1. /\ Append(s, e) \in Seq(S) /\ Len(Append(s, e)) = Len(s) + 1
      /\ Append(s, e)[Len(s) + 1] = e
      /\ \A j \in 1 .. Len(s) : Append(s, e)[j] = s[j]
  BY AppendProperties
<1>2. Len(s) \in Nat
  BY LenProperties
<1>3. LeavesOut(Append(s, e), Len(s) + 1, s)
  BY <1>1, <1>2 DEF LeavesOut
<1>4. Len(s) + 1 \in 1 .. Len(Append(s, e))
  BY <1>1, <1>2
<1> DEFINE r == Append(s, e)
<1> HIDE DEF r
<1>5. r \in Seq(S) /\ LeavesOut(r, Len(s) + 1, s) /\ Len(s) + 1 \in 1 .. Len(r)
  BY <1>1, <1>3, <1>4 DEF r
<1>6. Occ(r, T) = Occ(s, T) + (IF r[Len(s) + 1] \in T THEN 1 ELSE 0)
  BY <1>5, OccLeavesOut
<1> QED
  BY <1>1, <1>6 DEF r

LEMMA OccTail ==
    ASSUME NEW S, NEW s \in Seq(S), s # <<>>, NEW T
    PROVE  /\ Occ(s, T) = Occ(Tail(s), T) + (IF Head(s) \in T THEN 1 ELSE 0)
           /\ Tail(s) \in Seq(S) /\ Head(s) \in S
<1>1. /\ Tail(s) \in Seq(S) /\ Head(s) \in S /\ Head(s) = s[1]
      /\ Len(Tail(s)) = Len(s) - 1
      /\ \A j \in 1 .. Len(Tail(s)) : Tail(s)[j] = s[j + 1]
  BY HeadTailProperties
<1>2. Len(s) \in Nat /\ Len(s) # 0
  BY LenProperties, EmptySeq
<1>3. LeavesOut(s, 1, Tail(s))
  BY <1>1, <1>2 DEF LeavesOut
<1>4. 1 \in 1 .. Len(s)
  BY <1>2
<1> DEFINE r == Tail(s)
<1> HIDE DEF r
<1>5. r \in Seq(S) /\ LeavesOut(s, 1, r)
  BY <1>1, <1>3 DEF r
<1>6. Occ(s, T) = Occ(r, T) + (IF s[1] \in T THEN 1 ELSE 0)
  BY <1>4, <1>5, OccLeavesOut
<1> QED
  BY <1>1, <1>6 DEF r

LEMMA Removal ==
    ASSUME NEW S, NEW s \in Seq(S), NEW i \in 1 .. Len(s)
    PROVE  RemoveAt(s, i) \in Seq(S) /\ LeavesOut(s, i, RemoveAt(s, i))
<1> DEFINE a == SubSeq(s, 1, i - 1)
           b == SubSeq(s, i + 1, Len(s))
<1>1. Len(s) \in Nat /\ i \in Nat /\ i >= 1 /\ i <= Len(s)
  BY LenProperties
<1>2. /\ a \in Seq(S) /\ Len(a) = i - 1
      /\ \A j \in 1 .. i - 1 : a[j] = s[j]
  <2>1. i - 1 \in Int /\ i - 1 <= Len(s)
    BY <1>1
  <2> QED
    BY <1>1, <2>1, SubSeqProperties
<1>3. /\ b \in Seq(S) /\ Len(b) = Len(s) - i
      /\ \A j \in 1 .. Len(s) - i : b[j] = s[i + j]
  <2>1. /\ b \in Seq(S)
        /\ Len(b) = IF i + 1 <= Len(s) THEN Len(s) - (i + 1) + 1 ELSE 0
        /\ \A j \in 1 .. (Len(s) - (i + 1)) + 1 : b[j] = s[(i + 1) + j - 1]
    BY <1>1, SubSeqProperties
  <2> QED
    BY <1>1, <2>1
<1> HIDE DEF a, b
<1>4. /\ a \o b \in Seq(S) /\ Len(a \o b) = Len(a) + Len(b)
      /\ \A j \in 1 .. Len(a) + Len(b) :
           (a \o b)[j] = IF j <= Len(a) THEN a[j] ELSE b[j - Len(a)]
  BY <1>2, <1>3, ConcatProperties
<1>5. RemoveAt(s, i) = a \o b
  BY DEF RemoveAt, a, b
<1>6. ASSUME NEW j \in 1 .. Len(a) + Len(b)
      PROVE  (a \o b)[j] = IF j < i THEN s[j] ELSE s[j + 1]
  <2>1. CASE j < i
    BY <1>1, <1>2, <1>3, <1>4, <2>1
  <2>2. CASE ~(j < i)
    <3>1. j - Len(a) \in 1 .. Len(s) - i /\ i + (j - Len(a)) = j + 1 /\ ~(j <= Len(a))
      BY <1>1, <1>2, <1>3, <2>2
    <3> QED
      BY <1>3, <1>4, <2>2, <3>1
  <2> QED
    BY <2>1, <2>2
<1>7. Len(s) = Len(a \o b) + 1
  BY <1>1, <1>2, <1>3, <1>4
<1> QED
  BY <1>4, <1>5, <1>6, <1>7 DEF LeavesOut

-----------------------------------------------------------------------------
(* The timers: sorted by time, none lost and none added by the sort.       *)

Sorted(ts) == \A k, l \in DOMAIN ts : k <= l => ts[k].at <= ts[l].at

\* Of two entries the one that comes first has the smaller place.
LEMMA PlacesOrder ==
    ASSUME NEW s \in Seq(Timer), NEW k \in DOMAIN s, NEW l \in DOMAIN s,
           s[k].at < s[l].at \/ (s[k].at = s[l].at /\ k < l)
    PROVE  Place(s, k) < Place(s, l)
<1> DEFINE Upto(m) == {j \in DOMAIN s : s[j].at < s[m].at \/ (s[j].at = s[m].at /\ j <= m)}
<1>1. DOMAIN s = 1 .. Len(s) /\ Len(s) \in Nat
  BY LenProperties
<1>2. \A j \in DOMAIN s : s[j].at \in Nat
  <2>1. \A j \in 1 .. Len(s) : s[j] \in Timer
    BY ElementOfSeq
  <2> QED
    BY <1>1, <2>1 DEF Timer
<1>3. IsFiniteSet(DOMAIN s)
  BY <1>1, FS_Interval
<1>4. IsFiniteSet(Upto(l))
  BY <1>3, FS_Subset
<1>5. Upto(k) \subseteq Upto(l) /\ l \in Upto(l) /\ l \notin Upto(k)
  BY <1>1, <1>2
<1>6. Place(s, k) = Cardinality(Upto(k)) /\ Place(s, l) = Cardinality(Upto(l))
  BY DEF Place
<1> HIDE DEF Upto
<1>7. /\ Cardinality(Upto(k)) <= Cardinality(Upto(l))
      /\ Cardinality(Upto(l)) # Cardinality(Upto(k))
      /\ IsFiniteSet(Upto(k))
  BY <1>4, <1>5, FS_Subset
<1>8. Cardinality(Upto(k)) \in Nat /\ Cardinality(Upto(l)) \in Nat
  BY <1>4, <1>7, FS_CardinalityType
<1> QED
  BY <1>6, <1>7, <1>8

\* The places are a permutation of the entries.
LEMMA Places ==
    ASSUME NEW s \in Seq(Timer)
    PROVE  /\ \A k \in DOMAIN s : Place(s, k) \in 1 .. Len(s)
           /\ \A k, l \in DOMAIN s : Place(s, k) = Place(s, l) => k = l
           /\ \A p \in 1 .. Len(s) : \E k \in DOMAIN s : Place(s, k) = p
<1> DEFINE Upto(m) == {j \in DOMAIN s : s[j].at < s[m].at \/ (s[j].at = s[m].at /\ j <= m)}
<1>1. DOMAIN s = 1 .. Len(s) /\ Len(s) \in Nat
  BY LenProperties
<1>2. \A j \in DOMAIN s : s[j].at \in Nat
  <2>1. \A j \in 1 .. Len(s) : s[j] \in Timer
    BY ElementOfSeq
  <2> QED
    BY <1>1, <2>1 DEF Timer
<1>3. IsFiniteSet(DOMAIN s) /\ Cardinality(DOMAIN s) = Len(s)
  BY <1>1, FS_Interval
<1>4. ASSUME NEW k \in DOMAIN s PROVE Place(s, k) \in 1 .. Len(s)
  <2>1. Upto(k) \in SUBSET DOMAIN s /\ k \in Upto(k)
    BY <1>1, <1>2
  <2>2. Place(s, k) = Cardinality(Upto(k))
    BY DEF Place
  <2> HIDE DEF Upto
  <2>3. IsFiniteSet(Upto(k)) /\ Cardinality(Upto(k)) <= Len(s)
    BY <1>3, <2>1, FS_Subset
  <2>4. Cardinality(Upto(k)) \in Nat /\ Cardinality(Upto(k)) # 0
    BY <2>1, <2>3, FS_CardinalityType, FS_EmptySet
  <2> QED
    BY <1>1, <2>2, <2>3, <2>4
<1>5. ASSUME NEW k \in DOMAIN s, NEW l \in DOMAIN s, Place(s, k) = Place(s, l) PROVE k = l
  <2>1. Place(s, k) \in Nat
    BY <1>4
  <2>2. ~(s[k].at < s[l].at) /\ ~(s[l].at < s[k].at)
    BY <1>5, <2>1, PlacesOrder
  <2>3. s[k].at = s[l].at
    BY <1>2, <2>2
  <2>4. ~(k < l) /\ ~(l < k)
    BY <1>5, <2>1, <2>3, PlacesOrder
  <2> QED
    BY <1>1, <2>4
<1> DEFINE D == DOMAIN s
           P == [k \in D |-> Place(s, k)]
<1>6. D = 1 .. Len(s) /\ IsFiniteSet(D)
  BY <1>1, <1>3
<1>7. P \in [D -> D] /\ DOMAIN P = D /\ \A k \in D : P[k] = Place(s, k)
  BY <1>4, <1>6
<1> HIDE DEF P
<1>8. P \in Injection(D, D)
  BY <1>5, <1>7 DEF Injection, IsInjective
<1>9. P \in Surjection(D, D)
  BY <1>6, <1>8, FS_Injection
<1>10. \A p \in D : \E k \in D : P[k] = p
  BY <1>9 DEF Surjection
<1> QED
  BY <1>4, <1>5, <1>6, <1>7, <1>10

LEMMA Scheduled ==
    ASSUME NEW ts \in Seq(Timer), NEW t \in Timer
    PROVE  LET r == scheduleTimer(ts, t) IN
           /\ r \in Seq(Timer) /\ Len(r) = Len(ts) + 1
           /\ Sorted(r)
           /\ \A p \in DOMAIN r : r[p] = t \/ \E k \in DOMAIN ts : r[p] = ts[k]
           /\ \A T : Occ(r, T) = Occ(ts, T) + (IF t \in T THEN 1 ELSE 0)
<1> DEFINE s == Append(ts, t)
           D == DOMAIN s
           from == [p \in D |-> CHOOSE k \in D : Place(s, k) = p]
           r == [p \in D |-> s[from[p]]]
<1>1. /\ s \in Seq(Timer) /\ Len(s) = Len(ts) + 1
      /\ s[Len(ts) + 1] = t
      /\ \A j \in 1 .. Len(ts) : s[j] = ts[j]
      /\ Len(ts) \in Nat /\ DOMAIN ts = 1 .. Len(ts)
  BY AppendProperties, LenProperties
<1>2. scheduleTimer(ts, t) = r
  BY DEF scheduleTimer
<1> HIDE DEF s
<1>3. /\ D = 1 .. Len(s) /\ \A k \in D : Place(s, k) \in D
      /\ \A k, l \in D : Place(s, k) = Place(s, l) => k = l
      /\ \A p \in D : \E k \in D : Place(s, k) = p
  BY <1>1, Places, LenProperties
<1>4. \A p \in D : from[p] \in D /\ Place(s, from[p]) = p
  BY <1>3
<1>5. DOMAIN r = D /\ \A p \in D : r[p] = s[from[p]]
  OBVIOUS
<1> HIDE DEF from, r
<1>6. \A k \in D : s[k] \in Timer
  BY <1>1, <1>3, ElementOfSeq
<1>7. r \in [1 .. Len(s) -> Timer]
  <2>1. r = [p \in D |-> r[p]]
    BY DEF r
  <2> QED
    BY <1>3, <1>4, <1>5, <1>6, <2>1
<1>8. r \in Seq(Timer) /\ Len(r) = Len(s)
  <2>1. Len(s) \in Nat
    BY <1>1
  <2>2. r \in Seq(Timer)
    BY <1>7, <2>1, IsASeq
  <2> QED
    BY <1>7, <2>1, <2>2, LenProperties
<1>9. Sorted(r)
  <2> SUFFICES ASSUME NEW p \in D, NEW q \in D, p <= q PROVE r[p].at <= r[q].at
    BY <1>5 DEF Sorted
  <2>1. /\ from[p] \in D /\ Place(s, from[p]) = p
        /\ from[q] \in D /\ Place(s, from[q]) = q
    BY <1>4
  <2>2. ~(q < p)
    BY <1>3
  <2>3. ~(s[from[q]].at < s[from[p]].at)
    BY <1>1, <2>1, <2>2, PlacesOrder
  <2>4. s[from[p]].at \in Nat /\ s[from[q]].at \in Nat
    BY <1>6, <2>1 DEF Timer
  <2> QED
    BY <1>5, <2>3, <2>4
<1>10. ASSUME NEW p \in D PROVE r[p] = t \/ \E k \in DOMAIN ts : r[p] = ts[k]
  <2>1. from[p] \in 1 .. Len(ts) + 1 /\ r[p] = s[from[p]]
    BY <1>1, <1>3, <1>4, <1>5
  <2>2. CASE from[p] = Len(ts) + 1
    BY <1>1, <2>1, <2>2
  <2>3. CASE from[p] # Len(ts) + 1
    <3>1. from[p] \in 1 .. Len(ts)
      BY <1>1, <2>1, <2>3
    <3> QED
      BY <1>1, <2>1, <3>1
  <2> QED
    BY <2>2, <2>3
<1>11. ASSUME NEW T PROVE Occ(r, T) = Occ(s, T)
  <2> DEFINE A == {k \in D : r[k] \in T}
             B == {k \in D : s[k] \in T}
             f == [k \in A |-> from[k]]
  <2>1. IsFiniteSet(A) /\ IsFiniteSet(B)
    BY <1>1, <1>5, <1>8, OccNat
  <2>2. f \in [A -> B] /\ DOMAIN f = A
    BY <1>4, <1>5
  <2>3. \A a, b \in A : f[a] = f[b] => a = b
    BY <1>4
  <2>4. \A b \in B : \E a \in A : f[a] = b
    <3> SUFFICES ASSUME NEW b \in B PROVE \E a \in A : f[a] = b
      OBVIOUS
    <3>1. from[Place(s, b)] = b
      BY <1>3, <1>4
    <3>2. Place(s, b) \in A
      BY <1>3, <1>5, <3>1
    <3> QED
      BY <3>1, <3>2
  <2>5. Occ(r, T) = Cardinality(A) /\ Occ(s, T) = Cardinality(B)
    BY <1>5 DEF Occ
  <2> HIDE DEF A, B, f
  <2>6. f \in Injection(A, B)
    BY <2>2, <2>3 DEF Injection, IsInjective
  <2>7. f \in Surjection(A, B)
    BY <2>2, <2>4 DEF Surjection
  <2>8. ExistsBijection(A, B)
    BY <2>6, <2>7 DEF ExistsBijection, Bijection
  <2> QED
    BY <2>1, <2>5, <2>8, FS_Bijection
<1>12. ASSUME NEW T PROVE Occ(s, T) = Occ(ts, T) + (IF t \in T THEN 1 ELSE 0)
  BY OccAppend DEF s
<1> QED
  BY <1>1, <1>2, <1>5, <1>8, <1>9, <1>10, <1>11, <1>12

-----------------------------------------------------------------------------
(* The workflows of a test.                                                *)

Workflow == [inst : Instances, parent : 0 .. MaxWorkflows, of : 0 .. MaxIDs,
             state : {"open", "finished", "continued"}, pending : Seq(Event),
             waits : SUBSET Event, next : 1 .. MaxIDs + 1]

Insts(ws) == {ws[k].inst : k \in DOMAIN ws}

\* An instance is that of a workflow started before, the only one of them that
\* may be open or have events is the last; who is not open waits for nothing.
Latest(ws) ==
    \A k, l \in DOMAIN ws : k < l /\ ws[k].inst = ws[l].inst =>
      ws[k].state # "open" /\ ws[k].pending = <<>>

Continued(ws) ==
    \A k \in DOMAIN ws : ws[k].state = "continued" =>
      \E l \in DOMAIN ws : k < l /\ ws[k].inst = ws[l].inst

Waiting(w) ==
    /\ w.state # "open" => w.waits = {}
    /\ \A ev \in w.waits : ev.id \in Ids /\ ev.id < w.next

Ordered(ws) ==
    /\ ws # <<>> /\ ws[1].inst = 1
    /\ \A k \in DOMAIN ws : ws[k].inst <= k /\ ws[k].parent \in Insts(ws) \cup {0}
    /\ Latest(ws)
    /\ \A k \in DOMAIN ws : Waiting(ws[k])

Related(ws) == Ordered(ws) /\ Continued(ws)

LEMMA EvType ==
    ASSUME NEW kind \in {"start", "result", "timer", "child", "signal"}, NEW id \in 0 .. MaxIDs
    PROVE  Ev(kind, id) \in Event /\ Ev(kind, id).id = id /\ Ev(kind, id).kind = kind
BY DEF Ev, Event

LEMMA EventIsEv ==
    ASSUME NEW ev \in Event
    PROVE  ev = Ev(ev.kind, ev.id)
BY DEF Ev, Event

LEMMA Least ==
    ASSUME NEW T \in SUBSET Nat, T # {}
    PROVE  \E x \in T : \A y \in T : x <= y
<1> DEFINE R == {ss \in Nat \X Nat : ss[1] < ss[2]}
<1>1. IsWellFoundedOn(R, Nat)
  BY NatLessThanWellFounded DEF OpToRel
<1>2. \A x, y \in Nat : <<y, x>> \in R <=> y < x
  OBVIOUS
<1> HIDE DEF R
<1>3. PICK x \in T : \A y \in T : <<y, x>> \notin R
  BY <1>1, WFMin
<1>4. \A y \in T : x <= y
  <2> SUFFICES ASSUME NEW y \in T PROVE ~(y < x)
    OBVIOUS
  <2> QED
    BY <1>2, <1>3
<1> QED
  BY <1>4

LEMMA CurrentIs ==
    ASSUME NEW ws \in Seq(Workflow), NEW inst \in Insts(ws)
    PROVE  /\ Current(ws, inst) \in DOMAIN ws
           /\ ws[Current(ws, inst)].inst = inst
           /\ \A l \in DOMAIN ws : ws[l].inst = inst => l <= Current(ws, inst)
<1>1. DOMAIN ws = 1 .. Len(ws) /\ Len(ws) \in Nat
  BY LenProperties
<1> DEFINE T == {j \in 0 .. Len(ws) - 1 : ws[Len(ws) - j].inst = inst}
<1>2. PICK m \in DOMAIN ws : ws[m].inst = inst
  BY DEF Insts
<1>3. Len(ws) - m \in 0 .. Len(ws) - 1 /\ Len(ws) - (Len(ws) - m) = m
  BY <1>1
<1>4. T \in SUBSET Nat /\ T # {}
  BY <1>1, <1>2, <1>3
<1>5. PICK x \in T : \A y \in T : x <= y
  <2> HIDE DEF T
  <2> QED
    BY <1>4, Least
<1> DEFINE c == Len(ws) - x
<1>6. c \in DOMAIN ws /\ ws[c].inst = inst
  BY <1>1, <1>5
<1>7. ASSUME NEW l \in DOMAIN ws, ws[l].inst = inst PROVE l <= c
  <2>1. Len(ws) - l \in 0 .. Len(ws) - 1 /\ Len(ws) - (Len(ws) - l) = l
    BY <1>1
  <2>2. Len(ws) - l \in T
    BY <1>7, <2>1
  <2> QED
    BY <1>1, <1>5, <2>2
<1>8. \E k \in DOMAIN ws : ws[k].inst = inst /\ \A l \in DOMAIN ws : ws[l].inst = inst => l <= k
  BY <1>6, <1>7
<1> QED
  BY <1>8 DEF Current

\* An event is appended to those of the current workflow of its instance.
LEMMA Delivers ==
    ASSUME NEW ws \in Seq(Workflow), NEW inst \in Insts(ws), NEW ev \in Event
    PROVE  LET r == sendEvent(ws, inst, ev)
               c == Current(ws, inst) IN
           /\ r \in Seq(Workflow) /\ Len(r) = Len(ws) /\ DOMAIN r = DOMAIN ws
           /\ \A l \in DOMAIN ws :
                /\ r[l].inst = ws[l].inst /\ r[l].parent = ws[l].parent /\ r[l].of = ws[l].of
                /\ r[l].state = ws[l].state /\ r[l].waits = ws[l].waits /\ r[l].next = ws[l].next
                /\ r[l].pending = IF l = c THEN Append(ws[l].pending, ev) ELSE ws[l].pending
           /\ Insts(r) = Insts(ws)
<1> DEFINE c == Current(ws, inst)
           n == [ws[c] EXCEPT !.pending = Append(@, ev)]
           r == [ws EXCEPT ![c] = n]
<1>1. c \in DOMAIN ws /\ DOMAIN ws = 1 .. Len(ws) /\ Len(ws) \in Nat
  BY CurrentIs, LenProperties
<1>2. \A l \in 1 .. Len(ws) : ws[l] \in Workflow
  BY ElementOfSeq
<1>3. sendEvent(ws, inst, ev) = r
  BY DEF sendEvent
<1> HIDE DEF c
<1>4. Append(ws[c].pending, ev) \in Seq(Event)
  BY <1>1, <1>2, AppendProperties DEF Workflow
<1>5. /\ n \in Workflow
      /\ n.inst = ws[c].inst /\ n.parent = ws[c].parent /\ n.of = ws[c].of
      /\ n.state = ws[c].state /\ n.waits = ws[c].waits /\ n.next = ws[c].next
      /\ n.pending = Append(ws[c].pending, ev)
  BY <1>1, <1>2, <1>4 DEF Workflow
<1> HIDE DEF n
<1>6. /\ r \in Seq(Workflow) /\ Len(r) = Len(ws) /\ DOMAIN r = DOMAIN ws
      /\ \A l \in DOMAIN ws : r[l] = IF l = c THEN n ELSE ws[l]
  BY <1>1, <1>5, ExceptSeq
<1> HIDE DEF r
<1>7. \A l \in DOMAIN ws :
        /\ r[l].inst = ws[l].inst /\ r[l].parent = ws[l].parent /\ r[l].of = ws[l].of
        /\ r[l].state = ws[l].state /\ r[l].waits = ws[l].waits /\ r[l].next = ws[l].next
        /\ r[l].pending = IF l = c THEN Append(ws[l].pending, ev) ELSE ws[l].pending
  BY <1>5, <1>6
<1>8. Insts(r) = Insts(ws)
  BY <1>6, <1>7 DEF Insts
<1> QED
  BY <1>3, <1>6, <1>7, <1>8 DEF c

LEMMA DeliversRelated ==
    ASSUME NEW ws \in Seq(Workflow), NEW inst \in Insts(ws), NEW ev \in Event,
           Related(ws)
    PROVE  Related(sendEvent(ws, inst, ev))
<1> DEFINE c == Current(ws, inst)
           r == sendEvent(ws, inst, ev)
<1>1. /\ c \in DOMAIN ws /\ ws[c].inst = inst
      /\ \A l \in DOMAIN ws : ws[l].inst = inst => l <= c
      /\ DOMAIN ws = 1 .. Len(ws) /\ Len(ws) \in Nat
  BY CurrentIs, LenProperties
<1>2. /\ Len(r) = Len(ws) /\ DOMAIN r = DOMAIN ws /\ Insts(r) = Insts(ws)
      /\ \A l \in DOMAIN ws :
           /\ r[l].inst = ws[l].inst /\ r[l].parent = ws[l].parent
           /\ r[l].state = ws[l].state /\ r[l].waits = ws[l].waits /\ r[l].next = ws[l].next
           /\ l # c => r[l].pending = ws[l].pending
  BY Delivers
<1> HIDE DEF r, c
<1>3. r # <<>> /\ r[1].inst = 1
  <2>1. Len(ws) # 0
    BY EmptySeq DEF Related, Ordered
  <2>2. 1 \in DOMAIN ws /\ r # <<>>
    BY <1>1, <1>2, <2>1
  <2> QED
    BY <1>2, <2>2 DEF Related, Ordered
<1>4. \A l \in DOMAIN r : r[l].inst <= l /\ r[l].parent \in Insts(r) \cup {0}
  BY <1>2 DEF Related, Ordered
<1>5. Latest(r)
  <2> SUFFICES ASSUME NEW k \in DOMAIN ws, NEW l \in DOMAIN ws, k < l, ws[k].inst = ws[l].inst
               PROVE  r[k].state # "open" /\ r[k].pending = <<>>
    BY <1>2 DEF Latest
  <2>1. k # c
    BY <1>1
  <2> QED
    BY <1>2, <2>1 DEF Related, Ordered, Latest
<1>6. Continued(r)
  BY <1>2 DEF Related, Ordered, Continued
<1>7. \A l \in DOMAIN r : Waiting(r[l])
  BY <1>2 DEF Related, Ordered, Waiting
<1> QED
  BY <1>3, <1>4, <1>5, <1>6, <1>7 DEF Related, Ordered, r

\* A sub-workflow, or the continuation of the last workflow of an instance.
LEMMA AddsRelated ==
    ASSUME NEW ws \in Seq(Workflow), NEW w \in Workflow, Ordered(ws),
           w.inst <= Len(ws) + 1, w.parent \in Insts(ws) \cup {0},
           w.state = "open", w.waits = {},
           \A k \in DOMAIN ws : ws[k].inst = w.inst => ws[k].state # "open" /\ ws[k].pending = <<>>,
           \A k \in DOMAIN ws : ws[k].state = "continued" =>
             \/ ws[k].inst = w.inst
             \/ \E l \in DOMAIN ws : k < l /\ ws[k].inst = ws[l].inst
    PROVE  /\ Related(Append(ws, w))
           /\ Insts(Append(ws, w)) = Insts(ws) \cup {w.inst}
<1> DEFINE r == Append(ws, w)
           N == Len(ws) + 1
<1>1. /\ DOMAIN ws = 1 .. Len(ws) /\ Len(ws) \in Nat
      /\ r \in Seq(Workflow) /\ Len(r) = N /\ DOMAIN r = 1 .. N
      /\ r[N] = w /\ \A l \in DOMAIN ws : r[l] = ws[l]
  BY AppendProperties, LenProperties
<1>2. /\ \A l \in DOMAIN r : l \in DOMAIN ws \/ l = N
      /\ \A l \in DOMAIN ws : l \in DOMAIN r /\ l < N
      /\ N \in DOMAIN r /\ N \notin DOMAIN ws
  BY <1>1
<1> HIDE DEF r, N
<1>3. Insts(r) = Insts(ws) \cup {w.inst}
  BY <1>1, <1>2 DEF Insts
<1>4. r # <<>> /\ r[1].inst = 1
  <2>1. Len(ws) # 0
    BY EmptySeq DEF Ordered
  <2>2. 1 \in DOMAIN ws /\ r # <<>>
    BY <1>1, <1>2, <2>1
  <2> QED
    BY <1>1, <2>2 DEF Ordered
<1>5. ASSUME NEW l \in DOMAIN r PROVE r[l].inst <= l /\ r[l].parent \in Insts(r) \cup {0}
  BY <1>1, <1>2, <1>3 DEF Ordered, N
<1>6. Latest(r)
  <2> SUFFICES ASSUME NEW k \in DOMAIN r, NEW l \in DOMAIN r, k < l, r[k].inst = r[l].inst
               PROVE  r[k].state # "open" /\ r[k].pending = <<>>
    BY DEF Latest
  <2>1. k \in DOMAIN ws
    BY <1>1, <1>2
  <2>2. CASE l \in DOMAIN ws
    BY <1>1, <2>1, <2>2 DEF Ordered, Latest
  <2>3. CASE l = N
    BY <1>1, <2>1, <2>3
  <2> QED
    BY <1>2, <2>2, <2>3
<1>7. Continued(r)
  <2> SUFFICES ASSUME NEW k \in DOMAIN r, r[k].state = "continued"
               PROVE  \E l \in DOMAIN r : k < l /\ r[k].inst = r[l].inst
    BY DEF Continued
  <2>1. k \in DOMAIN ws /\ ws[k] = r[k]
    BY <1>1, <1>2
  <2>2. CASE ws[k].inst = w.inst
    BY <1>1, <1>2, <2>1, <2>2
  <2>3. CASE \E l \in DOMAIN ws : k < l /\ ws[k].inst = ws[l].inst
    BY <1>1, <1>2, <2>1, <2>3
  <2> QED
    BY <2>1, <2>2, <2>3
<1>8. \A l \in DOMAIN r : Waiting(r[l])
  BY <1>1, <1>2 DEF Ordered, Waiting
<1> QED
  BY <1>3, <1>4, <1>5, <1>6, <1>7, <1>8 DEF Related, Ordered, r
-----------------------------------------------------------------------------
(* Types, and which instances workflows, timers and callbacks name.        *)

Callback == [kind : {"event"}, inst : Instances, event : Event]
            \cup [kind : {"fire", "wall"}, timer : Timer]

Typed ==
    /\ menu \in Menus
    /\ wf \in Seq(Workflow)
    /\ pc \in {"pass", "poll", "fire", "waiting", "finished", "panic", "blocked"}
    /\ pass \in [next : Nat, end : Nat, new : BOOLEAN] /\ pass.next >= 1 /\ pass.end <= Len(wf)
    /\ timers \in Seq(Timer)
    /\ mode \in {"TimeTravel", "WallClock"} /\ wallSet \in BOOLEAN
    /\ armed \in Timer \cup {NoTimer} /\ forgotten \in Seq(Timer) /\ late \in Seq(Timer)
    /\ callbacks \in Seq(Callback)
    /\ running \subseteq Activities
    /\ clock \in Nat /\ signals \in Nat

TimersIn(ts, I) == \A k \in DOMAIN ts : ts[k].inst \in I \cup {0}

CallbackIn(c, I) == IF c.kind = "event" THEN c.inst \in I ELSE c.timer.inst \in I \cup {0}

CallbacksIn(cs, I) == \A k \in DOMAIN cs : CallbackIn(cs[k], I)

ActivitiesIn(run, I) == \A a \in run : a.inst \in I

Known ==
    /\ Related(wf)
    /\ TimersIn(timers, Insts(wf)) /\ TimersIn(forgotten, Insts(wf)) /\ TimersIn(late, Insts(wf))
    /\ armed # NoTimer => armed.inst \in Insts(wf) \cup {0}
    /\ CallbacksIn(callbacks, Insts(wf))
    /\ ActivitiesIn(running, Insts(wf))

SInv == Typed /\ Known

(* What a task does to its workflow.                                       *)

Num(w, d) == IF d = 0 THEN w.next ELSE w.next + 1

Left(w, x) == w.waits \ (ToSet(w.pending) \cup {Ev("timer", x)})

Begun(w, cmd, d) ==
    (IF d = 0 THEN {} ELSE {Ev("timer", w.next)})
    \cup (CASE cmd = "activity"        -> {Ev("result", Num(w, d))}
            [] cmd \in {"sub", "mock"} -> {Ev("child", Num(w, d))}
            [] OTHER                   -> {})

Closes(cmd) == cmd \in {"finish", "continue"}

\* What a task leaves an open workflow waiting for, and as what.
Remains(w, cmd, d, x) == IF Closes(cmd) THEN {} ELSE Left(w, x) \cup Begun(w, cmd, d)

Ends(cmd) == CASE cmd = "finish"   -> "finished"
               [] cmd = "continue" -> "continued"
               [] OTHER            -> "open"

Ran(w, cmd, d, x) ==
    [w EXCEPT !.pending = <<>>,
              !.waits = Remains(w, cmd, d, x),
              !.state = CASE cmd = "finish"   -> "finished"
                          [] cmd = "continue" -> "continued"
                          [] OTHER            -> @,
              !.next = @ + Cardinality(Begun(w, cmd, d))]

LEMMA BegunCount ==
    ASSUME NEW w \in Workflow, NEW cmd \in CommandKinds, NEW d \in Nat
    PROVE  /\ Cardinality(Begun(w, cmd, d)) \in Nat
           /\ Cardinality(Begun(w, cmd, d)) =
                (IF d = 0 THEN 0 ELSE 1) + (IF cmd \in {"activity", "sub", "mock"} THEN 1 ELSE 0)
<1> DEFINE A == IF d = 0 THEN {} ELSE {Ev("timer", w.next)}
           B == CASE cmd = "activity"        -> {Ev("result", Num(w, d))}
                  [] cmd \in {"sub", "mock"} -> {Ev("child", Num(w, d))}
                  [] OTHER                   -> {}
<1>1. /\ IsFiniteSet(A) /\ Cardinality(A) = IF d = 0 THEN 0 ELSE 1
  BY FS_EmptySet, FS_Singleton
<1>2. \E e : cmd \in {"activity", "sub", "mock"} => e \notin A /\ Begun(w, cmd, d) = A \cup {e}
  <2>1. CASE cmd = "activity"
    <3>1. Ev("result", Num(w, d)) \notin A
      BY DEF Ev
    <3>2. Begun(w, cmd, d) = A \cup {Ev("result", Num(w, d))}
      BY <2>1 DEF Begun
    <3> QED
      BY <3>1, <3>2
  <2>2. CASE cmd \in {"sub", "mock"}
    <3>1. Ev("child", Num(w, d)) \notin A
      BY DEF Ev
    <3>2. Begun(w, cmd, d) = A \cup {Ev("child", Num(w, d))}
      BY <2>2 DEF Begun
    <3> QED
      BY <3>1, <3>2
  <2> QED
    BY <2>1, <2>2
<1>3. PICK e : cmd \in {"activity", "sub", "mock"} => e \notin A /\ Begun(w, cmd, d) = A \cup {e}
  BY <1>2
<1>4. CASE cmd \in {"activity", "sub", "mock"}
  <2> HIDE DEF A
  <2>1. Cardinality(A \cup {e}) = Cardinality(A) + 1
    BY <1>1, <1>3, <1>4, FS_AddElement
  <2> QED
    BY <1>1, <1>3, <1>4, <2>1
<1>5. CASE cmd \notin {"activity", "sub", "mock"}
  <2>1. Begun(w, cmd, d) = A
    BY <1>5 DEF Begun
  <2> HIDE DEF A
  <2> QED
    BY <1>1, <1>5, <2>1
<1> QED
  BY <1>4, <1>5

LEMMA BegunIs ==
    ASSUME NEW w \in Workflow, NEW cmd \in CommandKinds, NEW d \in Nat,
           w.next + Cardinality(Begun(w, cmd, d)) <= MaxIDs + 1
    PROVE  /\ d # 0 => w.next \in Ids
           /\ cmd \in {"activity", "sub", "mock"} => Num(w, d) \in Ids
           /\ Begun(w, cmd, d) \in SUBSET Event
           /\ \A ev \in Begun(w, cmd, d) :
                /\ ev.id \in Ids /\ ev.id >= w.next
                /\ ev.id < w.next + Cardinality(Begun(w, cmd, d))
<1> DEFINE N == Cardinality(Begun(w, cmd, d))
<1>1. MaxIDs \in Nat /\ w.next \in 1 .. MaxIDs + 1
  BY TesterAssumption DEF Workflow
<1>2. /\ N \in Nat
      /\ N = (IF d = 0 THEN 0 ELSE 1) + (IF cmd \in {"activity", "sub", "mock"} THEN 1 ELSE 0)
  BY BegunCount
<1> HIDE DEF N
<1>3. d # 0 => w.next \in Ids /\ w.next < w.next + N
  BY <1>1, <1>2 DEF Ids, N
<1>4. cmd \in {"activity", "sub", "mock"} =>
        /\ Num(w, d) \in Ids /\ Num(w, d) >= w.next
        /\ Num(w, d) < w.next + N
  BY <1>1, <1>2 DEF Ids, Num, N
<1>5. ASSUME NEW ev \in Begun(w, cmd, d)
      PROVE  /\ ev \in Event /\ ev.id \in Ids /\ ev.id >= w.next /\ ev.id < w.next + N
  <2>1. \/ d # 0 /\ ev = Ev("timer", w.next)
        \/ cmd = "activity" /\ ev = Ev("result", Num(w, d))
        \/ cmd \in {"sub", "mock"} /\ ev = Ev("child", Num(w, d))
    BY DEF Begun
  <2>2. \A id \in Ids : id \in 0 .. MaxIDs
    BY <1>1 DEF Ids
  <2>3. CASE d # 0 /\ ev = Ev("timer", w.next)
    BY <1>1, <1>3, <2>2, <2>3, EvType
  <2>4. CASE cmd = "activity" /\ ev = Ev("result", Num(w, d))
    BY <1>4, <2>2, <2>4, EvType
  <2>5. CASE cmd \in {"sub", "mock"} /\ ev = Ev("child", Num(w, d))
    BY <1>4, <2>2, <2>5, EvType
  <2> QED
    BY <2>1, <2>3, <2>4, <2>5
<1> QED
  BY <1>3, <1>4, <1>5 DEF N

LEMMA RanIs ==
    ASSUME NEW w \in Workflow, NEW cmd \in CommandKinds, NEW d \in Nat, NEW x,
           Waiting(w), w.state = "open" \/ cmd = "finish",
           w.next + Cardinality(Begun(w, cmd, d)) <= MaxIDs + 1
    PROVE  /\ Ran(w, cmd, d, x) \in Workflow /\ Waiting(Ran(w, cmd, d, x))
           /\ Ran(w, cmd, d, x).inst = w.inst
           /\ Ran(w, cmd, d, x).parent = w.parent
           /\ Ran(w, cmd, d, x).of = w.of
           /\ Ran(w, cmd, d, x).pending = <<>>
           /\ Ran(w, cmd, d, x).waits = Remains(w, cmd, d, x)
           /\ Ran(w, cmd, d, x).state = Ends(cmd)
           /\ Ran(w, cmd, d, x).next = w.next + Cardinality(Begun(w, cmd, d))
<1> DEFINE N == Cardinality(Begun(w, cmd, d))
           waits == Remains(w, cmd, d, x)
           state == CASE cmd = "finish"   -> "finished"
                      [] cmd = "continue" -> "continued"
                      [] OTHER            -> w.state
           r == [w EXCEPT !.pending = <<>>, !.waits = waits, !.state = state, !.next = @ + N]
<1>1. Ran(w, cmd, d, x) = r
  BY DEF Ran
<1>2. MaxIDs \in Nat /\ w.next \in 1 .. MaxIDs + 1 /\ w.next \in Nat
  BY TesterAssumption DEF Workflow
<1>3. N \in Nat /\ w.next + N \in 1 .. MaxIDs + 1
  BY <1>2, BegunCount
<1>4. Left(w, x) \subseteq w.waits /\ w.waits \in SUBSET Event
  BY DEF Left, Workflow
<1>5. /\ Begun(w, cmd, d) \in SUBSET Event
      /\ \A ev \in Begun(w, cmd, d) : ev.id \in Ids /\ ev.id < w.next + N
  BY BegunIs
<1>6. /\ waits \in SUBSET Event
      /\ Closes(cmd) => waits = {}
      /\ \A ev \in waits : ev \in w.waits \/ ev \in Begun(w, cmd, d)
  BY <1>4, <1>5 DEF Remains
<1>7. /\ state \in {"open", "finished", "continued"}
      /\ state # "open" => Closes(cmd)
      /\ state = Ends(cmd)
  BY DEF Workflow, Closes, Ends
<1>8. waits = Remains(w, cmd, d, x)
  OBVIOUS
<1>9. <<>> \in Seq(Event)
  BY EmptySeq
<1> HIDE DEF N, waits, state
<1>10. /\ r \in Workflow
       /\ r.inst = w.inst /\ r.parent = w.parent /\ r.of = w.of
       /\ r.pending = <<>> /\ r.waits = waits /\ r.state = state /\ r.next = w.next + N
  BY <1>3, <1>6, <1>7, <1>9 DEF Workflow
<1> HIDE DEF r
<1>11. ASSUME NEW ev \in waits PROVE ev.id \in Ids /\ ev.id < w.next + N
  <2>1. CASE ev \in w.waits
    <3>1. ev.id \in Ids /\ ev.id < w.next
      BY <2>1 DEF Waiting
    <3> QED
      BY <1>2, <1>3, <3>1, TesterAssumption DEF Ids
  <2> QED
    BY <1>5, <1>6, <2>1
<1>12. Waiting(r)
  BY <1>6, <1>7, <1>10, <1>11 DEF Waiting
<1> QED
  BY <1>1, <1>7, <1>8, <1>10, <1>12 DEF N

\* Tells whether the parent is sent the end of its sub-workflow.
Told(w, cmd) == cmd = "finish" /\ w.parent # 0

\* The effect of a task, in terms of the workflow as it is left by it.
LEMMA Runs ==
    ASSUME SInv, NEW k \in Tasks, NEW cmd \in CommandKinds, NEW d \in Delays \cup {0},
           NEW x \in 0 .. MaxIDs, ExecuteTask(k, cmd, d, x)
    PROVE  LET w == wf[k]
               r == Ran(w, cmd, d, x)
               b == [wf EXCEPT ![k] = r]
               new == NewWorkflow(Len(wf) + 1, w.inst, Num(w, d))
               next == NewWorkflow(w.inst, w.parent, w.of)
           IN
           /\ k \in DOMAIN wf /\ w \in Workflow /\ d \in Nat
           /\ w.pending # <<>> /\ (w.state = "open" \/ cmd = "finish")
           /\ w.next + Cardinality(Begun(w, cmd, d)) <= MaxIDs + 1
           /\ cmd \in {"sub", "continue"} => Len(wf) < MaxWorkflows
           /\ cmd = "continue" => ~Unexpected(w) /\ Left(w, x) = {}
           /\ wf' = CASE Told(w, cmd)      -> sendEvent(b, w.parent, Ev("child", w.of))
                      [] cmd = "sub"      -> Append(b, new)
                      [] cmd = "continue" -> Append(b, next)
                      [] OTHER            -> b
<1> DEFINE w == wf[k]
           r == Ran(w, cmd, d, x)
           b == [wf EXCEPT ![k] = r]
           n == IF d = 0 THEN w.next ELSE w.next + 1
           left == w.waits \ (ToSet(w.pending) \cup {Ev("timer", x)})
           new == (IF d = 0 THEN {} ELSE {Ev("timer", w.next)})
                  \cup (CASE cmd = "activity"        -> {Ev("result", n)}
                          [] cmd \in {"sub", "mock"} -> {Ev("child", n)}
                          [] OTHER                   -> {})
           done == [wf EXCEPT ![k].pending = <<>>,
                              ![k].waits = IF cmd \in {"finish", "continue"} THEN {} ELSE left \cup new,
                              ![k].state = CASE cmd = "finish"   -> "finished"
                                             [] cmd = "continue" -> "continued"
                                             [] OTHER            -> @,
                              ![k].next = @ + Cardinality(new)]
<1>1. DOMAIN wf = 1 .. Len(wf) /\ Len(wf) \in Nat
  BY LenProperties DEF SInv, Typed
<1>2. k \in DOMAIN wf /\ w.pending # <<>>
  BY <1>1 DEF Tasks, SInv, Typed
<1>3. w \in Workflow /\ wf \in [DOMAIN wf -> Workflow]
  BY <1>1, <1>2, ElementOfSeq DEF SInv, Typed
<1>4. left = Left(w, x) /\ new = Begun(w, cmd, d) /\ n = Num(w, d)
  BY DEF Left, Begun, Num
<1>5. wf' = CASE Told(w, cmd)      -> sendEvent(done, w.parent, Ev("child", w.of))
              [] cmd = "sub"      -> Append(done, NewWorkflow(Len(wf) + 1, w.inst, n))
              [] cmd = "continue" -> Append(done, NewWorkflow(w.inst, w.parent, w.of))
              [] OTHER            -> done
  BY DEF ExecuteTask, Told
<1>6. /\ w.state = "finished" \/ Unexpected(w) => cmd = "finish" /\ x = 0
      /\ w.state = "open" /\ ~Unexpected(w) /\ cmd \in {"finish", "continue"} => left = {}
      /\ w.next + Cardinality(new) <= MaxIDs + 1
      /\ cmd \in {"sub", "continue"} => Len(wf) < MaxWorkflows
  BY DEF ExecuteTask
<1>7. done = b
  <2> HIDE DEF left, new, n
  <2>1. done = [wf EXCEPT ![k] = done[k]]
    BY <1>2, <1>3
  <2>2. done[k] = r
    BY <1>2, <1>3, <1>4 DEF Ran, Remains, Closes
  <2> QED
    BY <2>1, <2>2
<1>8. w.state # "continued"
  BY <1>2 DEF SInv, Known, Related, Ordered, Latest, Continued
<1>9. w.state = "open" \/ cmd = "finish"
  BY <1>3, <1>6, <1>8 DEF Workflow
<1>10. d \in Nat
  BY TesterAssumption
<1> HIDE DEF done, left, new, n
<1>11. wf' = CASE Told(w, cmd)      -> sendEvent(b, w.parent, Ev("child", w.of))
               [] cmd = "sub"      -> Append(b, NewWorkflow(Len(wf) + 1, w.inst, Num(w, d)))
               [] cmd = "continue" -> Append(b, NewWorkflow(w.inst, w.parent, w.of))
               [] OTHER            -> b
  BY <1>4, <1>5, <1>7
<1>12. cmd = "continue" => ~Unexpected(w) /\ Left(w, x) = {}
  BY <1>4, <1>6, <1>9
<1> QED
  BY <1>2, <1>3, <1>4, <1>6, <1>9, <1>10, <1>11, <1>12

\* The workflows after a task, one by one.
LEMMA RunsEach ==
    ASSUME SInv, NEW k \in Tasks, NEW cmd \in CommandKinds, NEW d \in Delays \cup {0},
           NEW x \in 0 .. MaxIDs, ExecuteTask(k, cmd, d, x)
    PROVE  LET w == wf[k]
               r == Ran(w, cmd, d, x)
               ran(l) == IF l = k THEN r ELSE wf[l]
           IN
           /\ wf' \in Seq(Workflow) /\ Related(wf')
           /\ Len(wf) <= Len(wf') /\ DOMAIN wf \subseteq DOMAIN wf'
           /\ Insts(wf) \subseteq Insts(wf')
           /\ \A l \in DOMAIN wf :
                /\ wf'[l].inst = ran(l).inst /\ wf'[l].parent = ran(l).parent
                /\ wf'[l].state = ran(l).state /\ wf'[l].waits = ran(l).waits
                /\ \/ wf'[l].pending = ran(l).pending
                   \/ /\ Told(w, cmd)
                      /\ wf'[l].pending = Append(ran(l).pending, Ev("child", w.of))
           /\ \A l \in DOMAIN wf' \ DOMAIN wf :
                /\ cmd \in {"sub", "continue"}
                /\ wf'[l].inst = IF cmd = "continue" THEN w.inst ELSE Len(wf) + 1
                /\ wf'[l].waits = {} /\ wf'[l].pending = <<Ev("start", 0)>>
<1> DEFINE w == wf[k]
           r == Ran(w, cmd, d, x)
           b == [wf EXCEPT ![k] = r]
           new == NewWorkflow(Len(wf) + 1, w.inst, Num(w, d))
           next == NewWorkflow(w.inst, w.parent, w.of)
           child == Ev("child", w.of)
           L == Len(wf)
<1>1. /\ k \in DOMAIN wf /\ w \in Workflow /\ d \in Nat
      /\ w.pending # <<>> /\ (w.state = "open" \/ cmd = "finish")
      /\ w.next + Cardinality(Begun(w, cmd, d)) <= MaxIDs + 1
      /\ cmd \in {"sub", "continue"} => L < MaxWorkflows
      /\ wf' = CASE Told(w, cmd)      -> sendEvent(b, w.parent, child)
                 [] cmd = "sub"      -> Append(b, new)
                 [] cmd = "continue" -> Append(b, next)
                 [] OTHER            -> b
  BY Runs
<1>2. Related(wf) /\ Ordered(wf) /\ wf \in Seq(Workflow) /\ MaxIDs \in Nat /\ MaxWorkflows \in Nat
  BY TesterAssumption DEF SInv, Known, Related, Typed
<1>3. DOMAIN wf = 1 .. L /\ L \in Nat
  BY <1>2, LenProperties
<1>4. /\ r \in Workflow /\ Waiting(r)
      /\ r.inst = w.inst /\ r.parent = w.parent /\ r.of = w.of /\ r.pending = <<>>
      /\ cmd \notin {"finish", "continue"} => r.state = "open"
      /\ cmd = "finish" => r.state = "finished"
      /\ cmd = "continue" => r.state = "continued"
  <2>1. Waiting(w)
    BY <1>1, <1>2 DEF Ordered
  <2>2. /\ w \in Workflow /\ d \in Nat /\ (w.state = "open" \/ cmd = "finish")
        /\ w.next + Cardinality(Begun(w, cmd, d)) <= MaxIDs + 1
    BY <1>1
  <2> HIDE DEF w
  <2>3. /\ r \in Workflow /\ Waiting(r)
        /\ r.inst = w.inst /\ r.parent = w.parent /\ r.of = w.of /\ r.pending = <<>>
        /\ r.state = Ends(cmd)
    BY <2>1, <2>2, RanIs
  <2> QED
    BY <2>3 DEF Ends
<1> HIDE DEF r
<1>5. /\ b \in Seq(Workflow) /\ Len(b) = L /\ DOMAIN b = DOMAIN wf
      /\ \A l \in DOMAIN wf : b[l] = IF l = k THEN r ELSE wf[l]
  BY <1>1, <1>2, <1>3, <1>4, ExceptSeq
<1> HIDE DEF b
<1>6. /\ \A l \in DOMAIN wf : b[l].inst = wf[l].inst /\ b[l].parent = wf[l].parent
      /\ Insts(b) = Insts(wf)
  <2>1. \A l \in DOMAIN wf : b[l].inst = wf[l].inst /\ b[l].parent = wf[l].parent
    BY <1>4, <1>5
  <2> QED
    BY <1>5, <2>1 DEF Insts
<1>7. \A m \in DOMAIN wf : k < m => wf[m].inst # w.inst
  BY <1>1, <1>2 DEF Ordered, Latest
<1>8. Latest(b)
  <2> SUFFICES ASSUME NEW j \in DOMAIN wf, NEW l \in DOMAIN wf, j < l, wf[j].inst = wf[l].inst
               PROVE  b[j].state # "open" /\ b[j].pending = <<>>
    BY <1>5, <1>6 DEF Latest
  <2>1. j # k
    BY <1>7
  <2> QED
    BY <1>2, <1>5, <2>1 DEF Ordered, Latest
<1>9. b # <<>> /\ b[1].inst = 1
  <2>1. L # 0
    BY <1>2, EmptySeq DEF Ordered
  <2>2. 1 \in DOMAIN wf /\ b # <<>>
    BY <1>3, <1>5, <2>1, EmptySeq
  <2> QED
    BY <1>2, <1>6, <2>2 DEF Ordered
<1>10. Ordered(b)
  <2>1. \A l \in DOMAIN b : Waiting(b[l])
    BY <1>2, <1>4, <1>5 DEF Ordered
  <2>2. \A l \in DOMAIN b : b[l].inst <= l /\ b[l].parent \in Insts(b) \cup {0}
    BY <1>2, <1>5, <1>6 DEF Ordered
  <2> QED
    BY <1>8, <1>9, <2>1, <2>2 DEF Ordered
<1>11. \A l \in DOMAIN wf : l # k \/ cmd # "continue" =>
         (b[l].state = "continued" => \E m \in DOMAIN wf : l < m /\ b[l].inst = b[m].inst)
  <2> SUFFICES ASSUME NEW l \in DOMAIN wf, l # k \/ cmd # "continue", b[l].state = "continued"
               PROVE  \E m \in DOMAIN wf : l < m /\ b[l].inst = b[m].inst
    OBVIOUS
  <2>1. l # k
    BY <1>4, <1>5
  <2>2. PICK m \in DOMAIN wf : l < m /\ wf[l].inst = wf[m].inst
    BY <1>2, <1>5, <2>1 DEF Related, Continued
  <2> QED
    BY <1>6, <2>2
<1>12. 0 \in 0 .. MaxIDs /\ <<Ev("start", 0)>> \in Seq(Event)
  <2>1. 0 \in 0 .. MaxIDs
    BY <1>2
  <2>2. Ev("start", 0) \in Event
    BY <2>1, EvType
  <2>3. \A e \in Event : <<e>> \in Seq(Event)
    OBVIOUS
  <2> QED
    BY <2>1, <2>2, <2>3
<1>13. CASE Told(w, cmd)
  <2>1. wf' = sendEvent(b, w.parent, child)
    BY <1>1, <1>13 DEF Told
  <2>2. w.parent \in Insts(b) /\ child \in Event
    <3>1. w.parent \in Insts(wf)
      BY <1>1, <1>2, <1>13 DEF Ordered, Told
    <3>2. w.of \in 0 .. MaxIDs
      BY <1>1 DEF Workflow
    <3> QED
      BY <1>6, <3>1, <3>2, EvType
  <2>3. Related(b)
    BY <1>5, <1>10, <1>11, <1>13 DEF Related, Continued, Told
  <2>4. Related(wf')
    BY <1>5, <2>1, <2>2, <2>3, DeliversRelated
  <2>5. /\ wf' \in Seq(Workflow) /\ Len(wf') = L /\ DOMAIN wf' = DOMAIN b /\ Insts(wf') = Insts(b)
        /\ \A l \in DOMAIN b :
             /\ wf'[l].inst = b[l].inst /\ wf'[l].parent = b[l].parent
             /\ wf'[l].state = b[l].state /\ wf'[l].waits = b[l].waits
             /\ \/ wf'[l].pending = b[l].pending
                \/ wf'[l].pending = Append(b[l].pending, child)
    BY <1>5, <2>1, <2>2, Delivers
  <2> QED
    BY <1>3, <1>5, <1>6, <1>13, <2>4, <2>5 DEF r
<1>14. ASSUME NEW v \in Workflow, wf' = Append(b, v), cmd \in {"sub", "continue"}, Related(wf'),
              v.inst = IF cmd = "continue" THEN w.inst ELSE L + 1,
              v.waits = {}, v.pending = <<Ev("start", 0)>>
       PROVE  /\ wf' \in Seq(Workflow) /\ Len(wf') = L + 1
              /\ DOMAIN wf' = DOMAIN wf \cup {L + 1}
              /\ \A l \in DOMAIN wf : wf'[l] = b[l]
              /\ wf'[L + 1] = v
              /\ Insts(wf) \subseteq Insts(wf')
  <2>1. /\ wf' \in Seq(Workflow) /\ Len(wf') = L + 1
        /\ DOMAIN wf' = DOMAIN wf \cup {L + 1}
        /\ \A l \in DOMAIN wf : wf'[l] = b[l]
        /\ wf'[L + 1] = v
    BY <1>3, <1>5, <1>14, AppendProperties, LenProperties
  <2> QED
    BY <1>5, <1>6, <2>1 DEF Insts
<1>15. CASE cmd = "sub"
  <2>1. wf' = Append(b, new) /\ ~Told(w, cmd)
    BY <1>1, <1>15 DEF Told
  <2>2. /\ new \in Workflow /\ new.inst = L + 1 /\ new.parent = w.inst
        /\ new.waits = {} /\ new.pending = <<Ev("start", 0)>> /\ new.state = "open"
    <3>1. Num(w, d) \in 0 .. MaxIDs
      BY <1>1, <1>2, <1>15, BegunIs DEF Ids
    <3>2. L + 1 \in Instances /\ w.inst \in 0 .. MaxWorkflows /\ 1 \in 1 .. MaxIDs + 1
      <4>1. w.inst \in Instances
        BY <1>1 DEF Workflow
      <4>2. L < MaxWorkflows
        BY <1>1, <1>15
      <4> QED
        BY <1>2, <1>3, <4>1, <4>2 DEF Instances
    <3> QED
      BY <1>12, <3>1, <3>2 DEF NewWorkflow, Workflow
  <2>3. \A l \in DOMAIN b : b[l].inst # L + 1
    BY <1>2, <1>3, <1>5, <1>6 DEF Ordered
  <2>4. w.inst \in Insts(b)
    BY <1>1, <1>6 DEF Insts
  <2>5. \A l \in DOMAIN b : b[l].state = "continued" =>
          \E m \in DOMAIN b : l < m /\ b[l].inst = b[m].inst
    BY <1>5, <1>11, <1>15
  <2> HIDE DEF new
  <2>6. Related(wf')
    BY <1>5, <1>10, <2>1, <2>2, <2>3, <2>4, <2>5, AddsRelated
  <2>7. new.inst = IF cmd = "continue" THEN w.inst ELSE L + 1
    BY <1>15, <2>2
  <2>8. /\ wf' \in Seq(Workflow) /\ Len(wf') = L + 1
        /\ DOMAIN wf' = DOMAIN wf \cup {L + 1}
        /\ \A l \in DOMAIN wf : wf'[l] = b[l]
        /\ wf'[L + 1] = new
        /\ Insts(wf) \subseteq Insts(wf')
    BY <1>14, <1>15, <2>1, <2>2, <2>6, <2>7
  <2> QED
    BY <1>3, <1>5, <1>15, <2>2, <2>6, <2>7, <2>8 DEF r
<1>16. CASE cmd = "continue"
  <2>1. wf' = Append(b, next) /\ ~Told(w, cmd)
    BY <1>1, <1>16 DEF Told
  <2>2. /\ next \in Workflow /\ next.inst = w.inst /\ next.parent = w.parent
        /\ next.waits = {} /\ next.pending = <<Ev("start", 0)>> /\ next.state = "open"
    <3>1. 1 \in 1 .. MaxIDs + 1
      BY <1>2
    <3> QED
      BY <1>1, <1>12, <3>1 DEF NewWorkflow, Workflow
  <2>3. \A l \in DOMAIN b : b[l].inst = w.inst => b[l].state # "open" /\ b[l].pending = <<>>
    <3> SUFFICES ASSUME NEW l \in DOMAIN wf, wf[l].inst = w.inst
                 PROVE  b[l].state # "open" /\ b[l].pending = <<>>
      BY <1>5, <1>6
    <3>1. CASE l = k
      BY <1>4, <1>5, <1>16, <3>1
    <3>2. CASE l # k
      <4>1. l < k
        BY <1>1, <1>3, <1>7, <3>2
      <4> QED
        BY <1>1, <1>2, <1>5, <3>2, <4>1 DEF Ordered, Latest
    <3> QED
      BY <3>1, <3>2
  <2>4. w.parent \in Insts(b) \cup {0} /\ w.inst <= L + 1
    <3>1. w.inst <= k /\ w.inst \in Nat
      BY <1>1, <1>2 DEF Ordered, Workflow, Instances
    <3> QED
      BY <1>1, <1>2, <1>3, <1>6, <3>1 DEF Ordered
  <2>5. \A l \in DOMAIN b : b[l].state = "continued" =>
          \/ b[l].inst = w.inst
          \/ \E m \in DOMAIN b : l < m /\ b[l].inst = b[m].inst
    BY <1>5, <1>6, <1>11
  <2> HIDE DEF next
  <2>6. Related(wf')
    BY <1>5, <1>10, <2>1, <2>2, <2>3, <2>4, <2>5, AddsRelated
  <2>7. next.inst = IF cmd = "continue" THEN w.inst ELSE L + 1
    BY <1>16, <2>2
  <2>8. /\ wf' \in Seq(Workflow) /\ Len(wf') = L + 1
        /\ DOMAIN wf' = DOMAIN wf \cup {L + 1}
        /\ \A l \in DOMAIN wf : wf'[l] = b[l]
        /\ wf'[L + 1] = next
        /\ Insts(wf) \subseteq Insts(wf')
    BY <1>14, <1>16, <2>1, <2>2, <2>6, <2>7
  <2> QED
    BY <1>3, <1>5, <1>16, <2>2, <2>6, <2>7, <2>8 DEF r
<1>17. CASE ~Told(w, cmd) /\ cmd \notin {"sub", "continue"}
  <2>1. wf' = b
    BY <1>1, <1>17
  <2>2. Related(b)
    BY <1>5, <1>10, <1>11, <1>17 DEF Related, Continued
  <2> QED
    BY <1>3, <1>5, <1>6, <2>1, <2>2 DEF r
<1> QED
  BY <1>13, <1>15, <1>16, <1>17

-----------------------------------------------------------------------------
(* Types and known instances are kept.                                     *)

LEMMA Appended ==
    ASSUME NEW S, NEW s \in Seq(S), NEW e \in S
    PROVE  /\ Append(s, e) \in Seq(S) /\ Append(s, e) # <<>>
           /\ \A k \in DOMAIN Append(s, e) :
                \/ k \in DOMAIN s /\ Append(s, e)[k] = s[k]
                \/ k = Len(s) + 1 /\ Append(s, e)[k] = e
           /\ \A k \in DOMAIN s : k \in DOMAIN Append(s, e) /\ Append(s, e)[k] = s[k]
           /\ Len(s) + 1 \in DOMAIN Append(s, e) /\ Append(s, e)[Len(s) + 1] = e
<1>1. /\ Append(s, e) \in Seq(S) /\ Len(Append(s, e)) = Len(s) + 1
      /\ Append(s, e)[Len(s) + 1] = e
      /\ \A j \in 1 .. Len(s) : Append(s, e)[j] = s[j]
      /\ DOMAIN s = 1 .. Len(s) /\ Len(s) \in Nat
  BY AppendProperties, LenProperties
<1>2. DOMAIN Append(s, e) = 1 .. Len(s) + 1
  BY <1>1, LenProperties
<1>3. Append(s, e) # <<>>
  BY <1>1, EmptySeq
<1> QED
  BY <1>1, <1>2, <1>3

LEMMA LeftOver ==
    ASSUME NEW S, NEW s \in Seq(S), NEW r \in Seq(S), NEW i \in 1 .. Len(s), LeavesOut(s, i, r)
    PROVE  /\ \A j \in DOMAIN r : \E m \in DOMAIN s : r[j] = s[m] /\ j <= m /\ m <= j + 1
           /\ \A m \in DOMAIN s : m = i \/ \E j \in DOMAIN r : r[j] = s[m]
<1>1. /\ DOMAIN s = 1 .. Len(s) /\ Len(s) \in Nat
      /\ DOMAIN r = 1 .. Len(r) /\ Len(r) \in Nat
  BY LenProperties
<1>2. ASSUME NEW j \in DOMAIN r
      PROVE  \E m \in DOMAIN s : r[j] = s[m] /\ j <= m /\ m <= j + 1
  <2>1. j \in DOMAIN s /\ j + 1 \in DOMAIN s /\ j <= j /\ j <= j + 1 /\ j + 1 <= j + 1
    BY <1>1 DEF LeavesOut
  <2>2. r[j] = s[j] \/ r[j] = s[j + 1]
    BY <1>1 DEF LeavesOut
  <2> QED
    BY <2>1, <2>2
<1>3. ASSUME NEW m \in DOMAIN s, m # i PROVE \E j \in DOMAIN r : r[j] = s[m]
  <2>1. CASE m < i
    <3>1. m \in DOMAIN r /\ r[m] = s[m]
      BY <1>1, <2>1 DEF LeavesOut
    <3> QED
      BY <3>1
  <2>2. CASE ~(m < i)
    <3>1. m - 1 \in 1 .. Len(r) /\ ~(m - 1 < i) /\ (m - 1) + 1 = m
      BY <1>1, <1>3, <2>2 DEF LeavesOut
    <3>2. r[m - 1] = s[m]
      BY <3>1 DEF LeavesOut
    <3> QED
      BY <1>1, <3>1, <3>2
  <2> QED
    BY <2>1, <2>2
<1> QED
  BY <1>2, <1>3

LEMMA Popped ==
    ASSUME NEW S, NEW s \in Seq(S), s # <<>>
    PROVE  /\ Tail(s) \in Seq(S) /\ Head(s) \in S /\ Head(s) = s[1]
           /\ 1 \in 1 .. Len(s) /\ 1 \in DOMAIN s
           /\ LeavesOut(s, 1, Tail(s))
<1>1. /\ Tail(s) \in Seq(S) /\ Head(s) \in S /\ Head(s) = s[1]
      /\ Len(Tail(s)) = Len(s) - 1
      /\ \A j \in 1 .. Len(Tail(s)) : Tail(s)[j] = s[j + 1]
  BY HeadTailProperties
<1>2. Len(s) \in Nat /\ Len(s) # 0 /\ DOMAIN s = 1 .. Len(s)
  BY LenProperties, EmptySeq
<1> QED
  BY <1>1, <1>2 DEF LeavesOut

\* The first timer of the instance with the schedule event id goes, if any.
LEMMA Cancels ==
    ASSUME NEW ts \in Seq(Timer), NEW inst, NEW id
    PROVE  \/ /\ cancelTimer(ts, inst, id) = ts
              /\ \A k \in DOMAIN ts : ~(ts[k].inst = inst /\ ts[k].id = id)
           \/ \E i \in 1 .. Len(ts) :
                /\ ts[i].inst = inst /\ ts[i].id = id
                /\ cancelTimer(ts, inst, id) \in Seq(Timer)
                /\ LeavesOut(ts, i, cancelTimer(ts, inst, id))
<1> DEFINE K == {k \in DOMAIN ts : ts[k].inst = inst /\ ts[k].id = id}
<1>1. DOMAIN ts = 1 .. Len(ts) /\ Len(ts) \in Nat
  BY LenProperties
<1>2. CASE K = {}
  BY <1>2 DEF cancelTimer
<1>3. CASE K # {}
  <2> DEFINE i == CHOOSE k \in K : \A l \in K : k <= l
  <2>1. K \in SUBSET Nat
    BY <1>1
  <2>2. \E k \in K : \A l \in K : k <= l
    <3> HIDE DEF K
    <3> QED
      BY <1>3, <2>1, Least
  <2>3. i \in K
    <3> HIDE DEF K
    <3> QED
      BY <2>2
  <2>4. cancelTimer(ts, inst, id) = RemoveAt(ts, i)
    BY <1>3 DEF cancelTimer
  <2> HIDE DEF i
  <2>5. i \in 1 .. Len(ts) /\ ts[i].inst = inst /\ ts[i].id = id
    BY <1>1, <2>3
  <2> QED
    BY <2>4, <2>5, Removal
<1> QED
  BY <1>2, <1>3

LEMMA CancelsType ==
    ASSUME NEW ts \in Seq(Timer), NEW inst, NEW id
    PROVE  /\ cancelTimer(ts, inst, id) \in Seq(Timer)
           /\ \A j \in DOMAIN cancelTimer(ts, inst, id) :
                \E m \in DOMAIN ts : cancelTimer(ts, inst, id)[j] = ts[m]
<1> DEFINE r == cancelTimer(ts, inst, id)
<1> HIDE DEF r
<1>1. \/ r = ts
      \/ \E i \in 1 .. Len(ts) : r \in Seq(Timer) /\ LeavesOut(ts, i, r)
  BY Cancels DEF r
<1>2. CASE r = ts
  BY <1>2 DEF r
<1>3. ASSUME NEW i \in 1 .. Len(ts), r \in Seq(Timer), LeavesOut(ts, i, r)
      PROVE  r \in Seq(Timer) /\ \A j \in DOMAIN r : \E m \in DOMAIN ts : r[j] = ts[m]
  BY <1>3, LeftOver
<1> QED
  BY <1>1, <1>2, <1>3 DEF r

LEMMA CallbackType ==
    /\ \A inst \in Instances, ev \in Event :
         /\ EventFor(inst, ev) \in Callback /\ EventFor(inst, ev).kind = "event"
         /\ EventFor(inst, ev).inst = inst /\ EventFor(inst, ev).event = ev
    /\ \A kind \in {"fire", "wall"}, t \in Timer :
         LET c == [kind |-> kind, timer |-> t] IN
         c \in Callback /\ c.kind = kind /\ c.timer = t
BY DEF EventFor, Callback

\* Instances stay known as workflows are added.
LEMMA StaysKnown ==
    ASSUME NEW I, NEW J, I \subseteq J
    PROVE  /\ \A ts : TimersIn(ts, I) => TimersIn(ts, J)
           /\ \A cs : CallbacksIn(cs, I) => CallbacksIn(cs, J)
           /\ \A run : ActivitiesIn(run, I) => ActivitiesIn(run, J)
<1>1. ASSUME NEW ts, TimersIn(ts, I) PROVE TimersIn(ts, J)
  BY <1>1 DEF TimersIn
<1>2. ASSUME NEW cs, CallbacksIn(cs, I) PROVE CallbacksIn(cs, J)
  <2>1. ASSUME NEW k \in DOMAIN cs PROVE CallbackIn(cs[k], J)
    BY <1>2 DEF CallbacksIn, CallbackIn
  <2> QED
    BY <2>1 DEF CallbacksIn
<1>3. ASSUME NEW run, ActivitiesIn(run, I) PROVE ActivitiesIn(run, J)
  BY <1>3 DEF ActivitiesIn
<1> QED
  BY <1>1, <1>2, <1>3

LEMMA TimersInOps ==
    ASSUME NEW I, NEW ts \in Seq(Timer), TimersIn(ts, I)
    PROVE  /\ \A t \in Timer : t.inst \in I \cup {0} => TimersIn(Append(ts, t), I)
           /\ ts # <<>> => /\ TimersIn(Tail(ts), I) /\ Head(ts).inst \in I \cup {0}
                           /\ Tail(ts) \in Seq(Timer) /\ Head(ts) \in Timer
           /\ \A k \in DOMAIN ts : /\ TimersIn(RemoveAt(ts, k), I) /\ ts[k].inst \in I \cup {0}
                                   /\ RemoveAt(ts, k) \in Seq(Timer) /\ ts[k] \in Timer
<1>1. ASSUME NEW t \in Timer, t.inst \in I \cup {0} PROVE TimersIn(Append(ts, t), I)
  <2>1. \A k \in DOMAIN Append(ts, t) :
          (k \in DOMAIN ts /\ Append(ts, t)[k] = ts[k]) \/ Append(ts, t)[k] = t
    BY Appended
  <2> QED
    BY <1>1, <2>1 DEF TimersIn
<1>2. ASSUME ts # <<>>
      PROVE  /\ TimersIn(Tail(ts), I) /\ Head(ts).inst \in I \cup {0}
             /\ Tail(ts) \in Seq(Timer) /\ Head(ts) \in Timer
  <2>1. /\ Tail(ts) \in Seq(Timer) /\ Head(ts) \in Timer /\ Head(ts) = ts[1]
        /\ 1 \in 1 .. Len(ts) /\ 1 \in DOMAIN ts /\ LeavesOut(ts, 1, Tail(ts))
    BY <1>2, Popped
  <2> DEFINE r == Tail(ts)
  <2> HIDE DEF r
  <2>2. r \in Seq(Timer) /\ LeavesOut(ts, 1, r)
    BY <2>1 DEF r
  <2>3. \A j \in DOMAIN r : \E m \in DOMAIN ts : r[j] = ts[m]
    BY <2>1, <2>2, LeftOver
  <2>4. TimersIn(r, I)
    BY <2>3 DEF TimersIn
  <2> QED
    BY <2>1, <2>4 DEF TimersIn, r
<1>3. ASSUME NEW k \in DOMAIN ts
      PROVE  /\ TimersIn(RemoveAt(ts, k), I) /\ ts[k].inst \in I \cup {0}
             /\ RemoveAt(ts, k) \in Seq(Timer) /\ ts[k] \in Timer
  <2> DEFINE r == RemoveAt(ts, k)
  <2>1. k \in 1 .. Len(ts)
    BY LenProperties
  <2>2. r \in Seq(Timer) /\ LeavesOut(ts, k, r)
    BY <2>1, Removal
  <2> HIDE DEF r
  <2>3. \A j \in DOMAIN r : \E m \in DOMAIN ts : r[j] = ts[m]
    BY <2>1, <2>2, LeftOver
  <2>4. TimersIn(r, I)
    BY <2>3 DEF TimersIn
  <2>5. ts[k] \in Timer
    BY <2>1, ElementOfSeq
  <2> QED
    BY <2>2, <2>4, <2>5 DEF TimersIn, r
<1> QED
  BY <1>1, <1>2, <1>3

LEMMA CallbacksInOps ==
    ASSUME NEW I, NEW cs \in Seq(Callback), CallbacksIn(cs, I)
    PROVE  /\ \A c \in Callback : CallbackIn(c, I) => CallbacksIn(Append(cs, c), I)
           /\ cs # <<>> => /\ CallbacksIn(Tail(cs), I) /\ CallbackIn(Head(cs), I)
                           /\ Tail(cs) \in Seq(Callback) /\ Head(cs) \in Callback
<1>1. ASSUME NEW c \in Callback, CallbackIn(c, I) PROVE CallbacksIn(Append(cs, c), I)
  <2>1. \A k \in DOMAIN Append(cs, c) :
          (k \in DOMAIN cs /\ Append(cs, c)[k] = cs[k]) \/ Append(cs, c)[k] = c
    BY Appended
  <2> QED
    BY <1>1, <2>1 DEF CallbacksIn
<1>2. ASSUME cs # <<>>
      PROVE  /\ CallbacksIn(Tail(cs), I) /\ CallbackIn(Head(cs), I)
             /\ Tail(cs) \in Seq(Callback) /\ Head(cs) \in Callback
  <2>1. /\ Tail(cs) \in Seq(Callback) /\ Head(cs) \in Callback /\ Head(cs) = cs[1]
        /\ 1 \in 1 .. Len(cs) /\ 1 \in DOMAIN cs /\ LeavesOut(cs, 1, Tail(cs))
    BY <1>2, Popped
  <2> DEFINE r == Tail(cs)
  <2> HIDE DEF r
  <2>2. r \in Seq(Callback) /\ LeavesOut(cs, 1, r)
    BY <2>1 DEF r
  <2>3. \A j \in DOMAIN r : \E m \in DOMAIN cs : r[j] = cs[m]
    BY <2>1, <2>2, LeftOver
  <2>4. CallbacksIn(r, I)
    BY <2>3 DEF CallbacksIn
  <2> QED
    BY <2>1, <2>4 DEF CallbacksIn, r
<1> QED
  BY <1>1, <1>2

LEMMA ExecuteTaskKnown ==
    ASSUME SInv, NEW k \in Tasks, NEW cmd \in CommandKinds, NEW d \in Delays \cup {0},
           NEW x \in 0 .. MaxIDs, ExecuteTask(k, cmd, d, x)
    PROVE  SInv'
<1> DEFINE w == wf[k]
           n == Num(w, d)
           I == Insts(wf)
           J == Insts(wf')
           canceled == IF x = 0 THEN timers ELSE cancelTimer(timers, w.inst, x)
           t == [inst |-> w.inst, id |-> w.next, at |-> clock + d]
           b == pass.new \/ d # 0 \/ GotNewEvents(cmd, Told(w, cmd))
<1>1. /\ k \in DOMAIN wf /\ w \in Workflow /\ d \in Nat
      /\ w.next + Cardinality(Begun(w, cmd, d)) <= MaxIDs + 1
  BY Runs
<1>2. wf' \in Seq(Workflow) /\ Related(wf') /\ Len(wf) <= Len(wf') /\ I \subseteq J
  BY RunsEach
<1>3. w.inst \in I /\ w.inst \in Instances /\ w.inst \in 0 .. MaxWorkflows
  BY <1>1, TesterAssumption DEF Insts, Workflow, Instances
<1>4. /\ d # 0 => w.next \in Ids
      /\ cmd \in {"activity", "sub", "mock"} => n \in Ids
  BY <1>1, BegunIs
<1>5. Ids \subseteq 0 .. MaxIDs
  BY TesterAssumption DEF Ids
<1>6. /\ pc' = pc /\ menu' = menu /\ clock' = clock /\ signals' = signals
      /\ mode' = mode /\ wallSet' = wallSet /\ armed' = armed /\ forgotten' = forgotten
      /\ late' = late
      /\ callbacks' = IF cmd = "mock"
                      THEN Append(callbacks, EventFor(w.inst, Ev("child", n))) ELSE callbacks
      /\ running' = IF cmd = "activity"
                    THEN running \cup {[inst |-> w.inst, id |-> n, sent |-> FALSE]} ELSE running
      /\ timers' = IF d = 0 THEN canceled ELSE scheduleTimer(canceled, t)
      /\ pass' = [pass EXCEPT !.next = k + 1, !.new = b]
  BY DEF ExecuteTask, Num, Told, wall
<1>7. b \in BOOLEAN
  BY Zenon
<1> HIDE DEF b
<1>8. /\ pass' \in [next : Nat, end : Nat, new : BOOLEAN]
      /\ pass'.next >= 1 /\ pass'.end <= Len(wf')
  <2>1. /\ pass \in [next : Nat, end : Nat, new : BOOLEAN]
        /\ pass.end <= Len(wf) /\ wf \in Seq(Workflow)
    BY DEF SInv, Typed
  <2>2. k \in 1 .. Len(wf) /\ Len(wf) \in Nat /\ Len(wf') \in Nat
    BY <1>1, <1>2, <2>1, LenProperties
  <2>3. k \in Nat /\ k + 1 \in Nat /\ k + 1 >= 1
    BY <2>2
  <2> DEFINE e == k + 1
  <2> HIDE DEF e
  <2>4. e \in Nat /\ e >= 1 /\ pass' = [pass EXCEPT !.next = e, !.new = b]
    BY <1>6, <2>3 DEF e
  <2>5. /\ pass' \in [next : Nat, end : Nat, new : BOOLEAN]
        /\ pass'.next = e /\ pass'.end = pass.end
    BY <1>7, <2>1, <2>4
  <2> QED
    BY <1>2, <2>1, <2>2, <2>4, <2>5
<1>9. canceled \in Seq(Timer) /\ TimersIn(canceled, J)
  <2>1. timers \in Seq(Timer) /\ TimersIn(timers, J)
    BY <1>2, StaysKnown DEF SInv, Typed, Known
  <2> DEFINE r == cancelTimer(timers, w.inst, x)
  <2>2. r \in Seq(Timer) /\ \A j \in DOMAIN r : \E m \in DOMAIN timers : r[j] = timers[m]
    BY <2>1, CancelsType
  <2> HIDE DEF r
  <2>3. TimersIn(r, J)
    BY <2>1, <2>2 DEF TimersIn
  <2> QED
    BY <2>1, <2>2, <2>3 DEF r
<1> HIDE DEF canceled
<1>10. timers' \in Seq(Timer) /\ TimersIn(timers', J)
  <2>1. CASE d = 0
    BY <1>6, <1>9, <2>1
  <2>2. CASE d # 0
    <3>1. t \in Timer /\ t.inst = w.inst
      <4>1. clock \in Nat
        BY DEF SInv, Typed
      <4>2. clock + d \in Nat
        BY <1>1, <4>1
      <4>3. w.next \in 0 .. MaxIDs
        BY <1>4, <1>5, <2>2
      <4> QED
        BY <1>3, <4>2, <4>3 DEF Timer
    <3> HIDE DEF t
    <3> DEFINE r == scheduleTimer(canceled, t)
    <3>2. /\ r \in Seq(Timer)
          /\ \A p \in DOMAIN r : r[p] = t \/ \E m \in DOMAIN canceled : r[p] = canceled[m]
      BY <1>9, <3>1, Scheduled
    <3> HIDE DEF r
    <3>3. TimersIn(r, J)
      BY <1>2, <1>3, <1>9, <3>1, <3>2 DEF TimersIn
    <3> QED
      BY <1>6, <2>2, <3>2, <3>3 DEF r
  <2> QED
    BY <2>1, <2>2
<1>11. callbacks' \in Seq(Callback) /\ CallbacksIn(callbacks', J)
  <2>1. callbacks \in Seq(Callback) /\ CallbacksIn(callbacks, J)
    BY <1>2, StaysKnown DEF SInv, Typed, Known
  <2>2. CASE cmd = "mock"
    <3> DEFINE c == EventFor(w.inst, Ev("child", n))
    <3>1. n \in 0 .. MaxIDs
      BY <1>4, <1>5, <2>2
    <3>2. Ev("child", n) \in Event
      BY <3>1, EvType
    <3>3. c \in Callback /\ c.kind = "event" /\ c.inst = w.inst
      BY <1>3, <3>2, CallbackType
    <3> HIDE DEF c
    <3>4. CallbackIn(c, J)
      BY <1>2, <1>3, <3>3 DEF CallbackIn
    <3>5. callbacks' = Append(callbacks, c)
      BY <1>6, <2>2 DEF c
    <3> QED
      BY <2>1, <3>3, <3>4, <3>5, CallbacksInOps, Appended
  <2> QED
    BY <1>6, <2>1, <2>2
<1>12. running' \subseteq Activities /\ ActivitiesIn(running', J)
  <2>1. running \subseteq Activities /\ ActivitiesIn(running, J)
    BY <1>2, StaysKnown DEF SInv, Typed, Known
  <2>2. CASE cmd = "activity"
    <3> DEFINE a == [inst |-> w.inst, id |-> n, sent |-> FALSE]
    <3>1. n \in Ids
      BY <1>4, <2>2
    <3>2. running' = running \cup {a}
      BY <1>6, <2>2
    <3> HIDE DEF n
    <3>3. a \in Activities /\ a.inst = w.inst
      BY <1>3, <3>1 DEF Activities
    <3> HIDE DEF a
    <3> QED
      BY <1>2, <1>3, <2>1, <3>2, <3>3 DEF ActivitiesIn
  <2> QED
    BY <1>6, <2>1, <2>2
<1>13. Typed'
  BY <1>2, <1>6, <1>8, <1>10, <1>11, <1>12 DEF SInv, Typed
<1>14. Known'
  <2>1. TimersIn(forgotten, J) /\ TimersIn(late, J)
    BY <1>2, StaysKnown DEF SInv, Known
  <2>2. armed # NoTimer => armed.inst \in J \cup {0}
    BY <1>2 DEF SInv, Known
  <2> QED
    BY <1>2, <1>6, <1>10, <1>11, <1>12, <2>1, <2>2 DEF Known
<1> QED
  BY <1>13, <1>14 DEF SInv

LEMMA RunCallbackKnown ==
    ASSUME SInv, RunCallback
    PROVE  SInv'
<1> DEFINE c == Head(callbacks)
           fires == c.kind \in {"fire", "wall"}
           again == fires /\ c.timer.inst = 0
           I == Insts(wf)
           sig == EventFor(1, Ev("signal", 0))
<1>1. /\ wf \in Seq(Workflow) /\ timers \in Seq(Timer) /\ callbacks \in Seq(Callback)
      /\ callbacks # <<>> /\ forgotten \in Seq(Timer) /\ armed \in Timer \cup {NoTimer}
      /\ Len(wf) \in Nat
  BY LenProperties DEF SInv, Typed, RunCallback
<1>2. /\ CallbacksIn(Tail(callbacks), I) /\ CallbackIn(c, I)
      /\ Tail(callbacks) \in Seq(Callback) /\ c \in Callback
  BY <1>1, CallbacksInOps DEF SInv, Known
<1>3. /\ menu' = menu /\ mode' = mode /\ late' = late /\ running' = running
      /\ clock' = clock /\ signals' = signals
  BY DEF RunCallback
<1>4. CASE c.kind = "wall" /\ timers = <<>>
  <2>1. /\ pc' = "panic" /\ wf' = wf /\ pass' = pass /\ timers' = timers /\ wallSet' = wallSet
        /\ armed' = armed /\ forgotten' = forgotten /\ callbacks' = callbacks
    BY <1>4 DEF RunCallback
  <2> QED
    BY <1>3, <2>1 DEF SInv, Typed, Known
<1>5. CASE ~(c.kind = "wall" /\ timers = <<>>)
  <2>1. /\ timers' = IF c.kind = "wall" THEN Tail(timers) ELSE timers
        /\ IF ClearsWallClockTimer(c)
           THEN /\ wallSet' = FALSE /\ armed' = NoTimer
                /\ forgotten' = IF armed = NoTimer THEN forgotten ELSE Append(forgotten, armed)
           ELSE wallSet' = wallSet /\ armed' = armed /\ forgotten' = forgotten
        /\ wf' = CASE again -> wf
                   [] fires /\ ~again -> sendEvent(wf, c.timer.inst, Ev("timer", c.timer.id))
                   [] OTHER -> sendEvent(wf, c.inst, c.event)
        /\ callbacks' = IF again THEN Append(Tail(callbacks), sig) ELSE Tail(callbacks)
        /\ pc' = IF again THEN "poll" ELSE "pass"
        /\ pass' = IF again THEN pass ELSE NewPass(Len(wf))
    BY <1>5 DEF RunCallback
  <2>2. /\ ~fires => c.kind = "event" /\ c.inst \in I /\ c.event \in Event
        /\ fires => c.timer \in Timer /\ c.timer.inst \in I \cup {0}
    BY <1>2 DEF CallbackIn, Callback
  <2>3. wf' \in Seq(Workflow) /\ Len(wf') = Len(wf) /\ Related(wf') /\ Insts(wf') = I
    <3>1. CASE again
      BY <1>1, <2>1, <3>1 DEF SInv, Known
    <3>2. ASSUME NEW inst \in I, NEW ev \in Event, wf' = sendEvent(wf, inst, ev)
          PROVE  wf' \in Seq(Workflow) /\ Len(wf') = Len(wf) /\ Related(wf') /\ Insts(wf') = I
      BY <1>1, <3>2, Delivers, DeliversRelated DEF SInv, Known
    <3>3. CASE fires /\ ~again
      <4>1. wf' = sendEvent(wf, c.timer.inst, Ev("timer", c.timer.id))
        BY <2>1, <3>3
      <4>2. c.timer.inst \in I /\ c.timer.id \in 0 .. MaxIDs
        BY <2>2, <3>3 DEF Timer
      <4>3. Ev("timer", c.timer.id) \in Event
        BY <4>2, EvType
      <4> QED
        BY <3>2, <4>1, <4>2, <4>3
    <3>4. CASE ~fires
      BY <2>1, <2>2, <3>2, <3>4
    <3> QED
      BY <3>1, <3>3, <3>4
  <2>4. timers' \in Seq(Timer) /\ TimersIn(timers', I)
    BY <1>1, <1>5, <2>1, TimersInOps DEF SInv, Known
  <2>5. /\ wallSet' \in BOOLEAN /\ armed' \in Timer \cup {NoTimer}
        /\ forgotten' \in Seq(Timer) /\ TimersIn(forgotten', I)
        /\ armed' # NoTimer => armed'.inst \in I \cup {0}
    <3>1. ASSUME armed # NoTimer
          PROVE  Append(forgotten, armed) \in Seq(Timer) /\ TimersIn(Append(forgotten, armed), I)
      <4>1. armed \in Timer /\ armed.inst \in I \cup {0} /\ TimersIn(forgotten, I)
        BY <1>1, <3>1 DEF SInv, Known
      <4> QED
        BY <1>1, <4>1, TimersInOps, AppendProperties
    <3>2. CASE ClearsWallClockTimer(c)
      BY <1>1, <2>1, <3>1, <3>2 DEF SInv, Known
    <3>3. CASE ~ClearsWallClockTimer(c)
      BY <1>1, <2>1, <3>3 DEF SInv, Known, Typed
    <3> QED
      BY <3>2, <3>3
  <2>6. callbacks' \in Seq(Callback) /\ CallbacksIn(callbacks', I)
    <3>1. CASE ~again
      BY <1>2, <2>1, <3>1
    <3>2. CASE again
      <4>1. 0 \in 0 .. MaxIDs /\ 1 \in Instances
        BY TesterAssumption DEF Instances
      <4>2. Ev("signal", 0) \in Event
        BY <4>1, EvType
      <4>3. sig \in Callback /\ sig.kind = "event" /\ sig.inst = 1
        BY <4>1, <4>2, CallbackType
      <4> HIDE DEF sig
      <4>4. 1 \in I
        <5>1. wf # <<>> /\ wf[1].inst = 1
          BY DEF SInv, Known, Related, Ordered
        <5>2. 1 \in DOMAIN wf
          BY <1>1, <5>1, EmptySeq, LenProperties
        <5> QED
          BY <5>1, <5>2 DEF Insts
      <4>5. CallbackIn(sig, I)
        BY <4>3, <4>4 DEF CallbackIn
      <4> QED
        BY <1>2, <2>1, <3>2, <4>3, <4>5, CallbacksInOps, AppendProperties
    <3> QED
      BY <3>1, <3>2
  <2>7. /\ pass' \in [next : Nat, end : Nat, new : BOOLEAN]
        /\ pass'.next >= 1 /\ pass'.end <= Len(wf')
    BY <1>1, <2>1, <2>3 DEF NewPass, SInv, Typed
  <2>8. Typed'
    BY <1>3, <2>1, <2>3, <2>4, <2>5, <2>6, <2>7 DEF SInv, Typed
  <2>9. Known'
    BY <1>3, <2>3, <2>4, <2>5, <2>6 DEF SInv, Known
  <2> QED
    BY <2>8, <2>9 DEF SInv
<1> QED
  BY <1>4, <1>5


LEMMA OthersKnown ==
    ASSUME SInv,
           \/ EndPass \/ PollNothing \/ Blocked \/ fireTimer \/ WallClockFires \/ WallClockSends
           \/ UNCHANGED vars
    PROVE  SInv'
<1> DEFINE I == Insts(wf)
<1>1. /\ wf \in Seq(Workflow) /\ timers \in Seq(Timer) /\ callbacks \in Seq(Callback)
      /\ forgotten \in Seq(Timer) /\ late \in Seq(Timer) /\ armed \in Timer \cup {NoTimer}
      /\ Len(wf) \in Nat /\ running \subseteq Activities
  BY LenProperties DEF SInv, Typed
<1>2. /\ TimersIn(timers, I) /\ TimersIn(forgotten, I) /\ TimersIn(late, I)
      /\ armed # NoTimer => armed.inst \in I \cup {0}
      /\ CallbacksIn(callbacks, I)
  BY DEF SInv, Known
<1>3. \A kind \in {"fire", "wall"}, t \in Timer : t.inst \in I \cup {0} =>
        /\ Append(callbacks, [kind |-> kind, timer |-> t]) \in Seq(Callback)
        /\ CallbacksIn(Append(callbacks, [kind |-> kind, timer |-> t]), I)
  <2> SUFFICES ASSUME NEW kind \in {"fire", "wall"}, NEW t \in Timer, t.inst \in I \cup {0}
               PROVE  /\ Append(callbacks, [kind |-> kind, timer |-> t]) \in Seq(Callback)
                      /\ CallbacksIn(Append(callbacks, [kind |-> kind, timer |-> t]), I)
    OBVIOUS
  <2> DEFINE c == [kind |-> kind, timer |-> t]
  <2>1. c \in Callback /\ c.kind = kind /\ c.timer = t
    BY CallbackType
  <2> HIDE DEF c
  <2>2. CallbackIn(c, I)
    BY <2>1 DEF CallbackIn
  <2> QED
    BY <1>1, <1>2, <2>1, <2>2, CallbacksInOps, AppendProperties DEF c
<1>4. CASE EndPass
  <2>1. /\ wf' = wf /\ timers' = timers /\ callbacks' = callbacks /\ running' = running
        /\ mode' = mode /\ wallSet' = wallSet /\ armed' = armed /\ forgotten' = forgotten
        /\ late' = late /\ menu' = menu /\ clock' = clock /\ signals' = signals
        /\ pc' \in {"finished", "pass", "poll"}
        /\ pass' = pass \/ pass' = NewPass(Len(wf))
    BY <1>4 DEF EndPass, wall
  <2>2. /\ pass' \in [next : Nat, end : Nat, new : BOOLEAN]
        /\ pass'.next >= 1 /\ pass'.end <= Len(wf')
    <3>1. /\ NewPass(Len(wf)) \in [next : Nat, end : Nat, new : BOOLEAN]
          /\ NewPass(Len(wf)).next >= 1 /\ NewPass(Len(wf)).end <= Len(wf)
      BY <1>1 DEF NewPass
    <3>2. CASE pass' = pass
      BY <2>1, <3>2 DEF SInv, Typed
    <3>3. CASE pass' = NewPass(Len(wf))
      BY <2>1, <3>1, <3>3
    <3> QED
      BY <2>1, <3>2, <3>3
  <2> QED
    BY <2>1, <2>2 DEF SInv, Typed, Known
<1>5. CASE PollNothing
  BY <1>5 DEF PollNothing, wall, SInv, Typed, Known
<1>6. CASE Blocked
  BY <1>6 DEF Blocked, wall, SInv, Typed, Known
<1>7. CASE fireTimer
  <2>1. /\ menu' = menu /\ wf' = wf /\ pass' = pass /\ running' = running /\ signals' = signals
    BY <1>7 DEF fireTimer
  <2>2. CASE timers = <<>>
    <3>1. pc' = "waiting" /\ UNCHANGED <<wall, timers, callbacks, clock>>
      BY <1>7, <2>2 DEF fireTimer
    <3> QED
      BY <2>1, <3>1 DEF wall, SInv, Typed, Known
  <2>3. CASE timers # <<>> /\ newTimerMode = "TimeTravel"
    <3> DEFINE stops == mode = "WallClock" /\ newTimerMode = "TimeTravel"
               still == wallSet /\ ~stops
    <3>1. /\ mode' = newTimerMode /\ wallSet' = still
          /\ armed' = IF stops THEN NoTimer ELSE armed
          /\ timers' = Tail(timers) /\ clock' = Head(timers).at
          /\ callbacks' = Append(callbacks, [kind |-> "fire", timer |-> Head(timers)])
          /\ pc' = "poll" /\ forgotten' = forgotten /\ late' = late
      BY <1>7, <2>3 DEF fireTimer
    <3>2. still \in BOOLEAN
      BY Zenon DEF SInv, Typed
    <3> HIDE DEF still, stops
    <3>3. /\ Head(timers) \in Timer /\ Head(timers).inst \in I \cup {0}
          /\ Tail(timers) \in Seq(Timer) /\ TimersIn(Tail(timers), I)
      BY <1>1, <1>2, <2>3, TimersInOps
    <3>4. clock' \in Nat
      BY <3>1, <3>3 DEF Timer
    <3>5. callbacks' \in Seq(Callback) /\ CallbacksIn(callbacks', I)
      BY <1>3, <3>1, <3>3
    <3>6. mode' \in {"TimeTravel", "WallClock"}
      BY <3>1 DEF newTimerMode
    <3>7. armed' \in Timer \cup {NoTimer} /\ (armed' # NoTimer => armed'.inst \in I \cup {0})
      BY <1>1, <1>2, <3>1
    <3>8. Typed'
      BY <2>1, <3>1, <3>2, <3>3, <3>4, <3>5, <3>6, <3>7 DEF SInv, Typed
    <3>9. Known'
      BY <2>1, <3>1, <3>3, <3>5, <3>7 DEF SInv, Known
    <3> QED
      BY <3>8, <3>9 DEF SInv
  <2>4. CASE timers # <<>> /\ newTimerMode # "TimeTravel"
    <3>1. newTimerMode = "WallClock"
      BY <2>4 DEF newTimerMode
    <3>2. /\ mode' = newTimerMode /\ wallSet' = TRUE
          /\ armed' = IF wallSet THEN armed ELSE Head(timers)
          /\ pc' = "waiting" /\ forgotten' = forgotten /\ late' = late
          /\ timers' = timers /\ callbacks' = callbacks /\ clock' = clock
      BY <1>7, <2>4, <3>1 DEF fireTimer
    <3>3. Head(timers) \in Timer /\ Head(timers).inst \in I \cup {0}
      BY <1>1, <1>2, <2>4, TimersInOps
    <3>4. armed' \in Timer \cup {NoTimer} /\ (armed' # NoTimer => armed'.inst \in I \cup {0})
      BY <1>1, <1>2, <3>2, <3>3
    <3>5. Typed'
      BY <2>1, <3>1, <3>2, <3>4 DEF SInv, Typed
    <3>6. Known'
      BY <2>1, <3>2, <3>4 DEF SInv, Known
    <3> QED
      BY <3>5, <3>6 DEF SInv
  <2> QED
    BY <2>2, <2>3, <2>4
<1>8. CASE WallClockFires
  <2>1. /\ menu' = menu /\ wf' = wf /\ pc' = pc /\ pass' = pass /\ timers' = timers
        /\ mode' = mode /\ wallSet' = wallSet /\ callbacks' = callbacks /\ running' = running
        /\ clock' = clock /\ signals' = signals
    BY <1>8 DEF WallClockFires
  <2>2. ASSUME NEW t \in Timer, t.inst \in I \cup {0}
        PROVE  Append(late, t) \in Seq(Timer) /\ TimersIn(Append(late, t), I)
    BY <1>1, <1>2, <2>2, TimersInOps, AppendProperties
  <2>3. /\ armed' \in Timer \cup {NoTimer} /\ (armed' # NoTimer => armed'.inst \in I \cup {0})
        /\ forgotten' \in Seq(Timer) /\ TimersIn(forgotten', I)
        /\ late' \in Seq(Timer) /\ TimersIn(late', I)
    <3>1. CASE /\ armed # NoTimer
               /\ armed' = NoTimer /\ late' = Append(late, armed) /\ UNCHANGED forgotten
      <4>1. armed \in Timer /\ armed.inst \in I \cup {0}
        BY <1>1, <1>2, <3>1
      <4> QED
        BY <1>1, <1>2, <2>2, <3>1, <4>1
    <3>2. ASSUME NEW k \in DOMAIN forgotten, forgotten' = RemoveAt(forgotten, k),
                 late' = Append(late, forgotten[k]), UNCHANGED armed
          PROVE  /\ armed' \in Timer \cup {NoTimer}
                 /\ armed' # NoTimer => armed'.inst \in I \cup {0}
                 /\ forgotten' \in Seq(Timer) /\ TimersIn(forgotten', I)
                 /\ late' \in Seq(Timer) /\ TimersIn(late', I)
      BY <1>1, <1>2, <2>2, <3>2, TimersInOps
    <3> QED
      BY <1>8, <3>1, <3>2 DEF WallClockFires
  <2>4. Typed'
    BY <2>1, <2>3 DEF SInv, Typed
  <2>5. Known'
    BY <2>1, <2>3, <1>2 DEF SInv, Known
  <2> QED
    BY <2>4, <2>5 DEF SInv
<1>9. CASE WallClockSends
  <2>1. /\ menu' = menu /\ wf' = wf /\ pc' = pc /\ pass' = pass /\ timers' = timers
        /\ mode' = mode /\ wallSet' = wallSet /\ armed' = armed /\ forgotten' = forgotten
        /\ running' = running /\ clock' = clock /\ signals' = signals
        /\ late # <<>> /\ late' = Tail(late)
        /\ callbacks' = Append(callbacks, [kind |-> "wall", timer |-> Head(late)])
    BY <1>9 DEF WallClockSends
  <2>2. /\ Head(late) \in Timer /\ Head(late).inst \in I \cup {0}
        /\ Tail(late) \in Seq(Timer) /\ TimersIn(Tail(late), I)
    BY <1>1, <1>2, <2>1, TimersInOps
  <2>3. callbacks' \in Seq(Callback) /\ CallbacksIn(callbacks', I)
    BY <1>3, <2>1, <2>2
  <2>4. Typed'
    BY <2>1, <2>2, <2>3 DEF SInv, Typed
  <2>5. Known'
    BY <2>1, <2>2, <2>3, <1>2 DEF SInv, Known
  <2> QED
    BY <2>4, <2>5 DEF SInv
<1>10. CASE UNCHANGED vars
  BY <1>10 DEF vars, SInv, Typed, Known
<1> QED
  BY <1>4, <1>5, <1>6, <1>7, <1>8, <1>9, <1>10


LEMMA ActivitiesKnown ==
    ASSUME SInv, NEW a \in Activities,
           \/ \E inst \in Instances : ActivitySignals(a, inst)
           \/ ActivityCompletes(a) \/ ActivityEnds(a)
    PROVE  SInv'
<1> DEFINE I == Insts(wf)
<1>1. /\ a.inst \in Instances /\ a.id \in Ids /\ a.sent \in BOOLEAN
      /\ [a EXCEPT !.sent = TRUE] \in Activities
      /\ [a EXCEPT !.sent = TRUE].inst = a.inst
  BY DEF Activities
<1>2. /\ callbacks \in Seq(Callback) /\ CallbacksIn(callbacks, I)
      /\ running \subseteq Activities /\ ActivitiesIn(running, I)
      /\ signals \in Nat /\ a \in running
  BY DEF SInv, Typed, Known, ActivitySignals, ActivityCompletes, ActivityEnds
<1>3. /\ UNCHANGED <<menu, wf, pc, pass, timers, wall, clock>>
  BY DEF ActivitySignals, ActivityCompletes, ActivityEnds
<1>4. ASSUME NEW inst \in I, inst \in Instances, NEW ev \in Event,
             callbacks' = Append(callbacks, EventFor(inst, ev))
      PROVE  callbacks' \in Seq(Callback) /\ CallbacksIn(callbacks', I)
  <2> DEFINE c == EventFor(inst, ev)
  <2>1. c \in Callback /\ c.kind = "event" /\ c.inst = inst
    BY <1>4, CallbackType
  <2> HIDE DEF c
  <2>2. CallbackIn(c, I)
    BY <2>1 DEF CallbackIn
  <2> QED
    BY <1>2, <1>4, <2>1, <2>2, CallbacksInOps, AppendProperties DEF c
<1>5. 0 \in 0 .. MaxIDs /\ a.id \in 0 .. MaxIDs
  BY <1>1, TesterAssumption DEF Ids
<1>6. /\ callbacks' \in Seq(Callback) /\ CallbacksIn(callbacks', I)
      /\ running' \subseteq Activities /\ ActivitiesIn(running', I)
      /\ signals' \in Nat
  <2>1. ASSUME NEW inst \in Instances, ActivitySignals(a, inst)
        PROVE  /\ callbacks' \in Seq(Callback) /\ CallbacksIn(callbacks', I)
               /\ running' \subseteq Activities /\ ActivitiesIn(running', I)
               /\ signals' \in Nat
    <3>1. inst \in I /\ callbacks' = Append(callbacks, EventFor(inst, Ev("signal", 0)))
      BY <2>1 DEF ActivitySignals, Insts
    <3>2. Ev("signal", 0) \in Event
      BY <1>5, EvType
    <3> QED
      BY <1>2, <1>4, <2>1, <3>1, <3>2 DEF ActivitySignals
  <2>2. CASE ActivityCompletes(a)
    <3>1. callbacks' = Append(callbacks, EventFor(a.inst, Ev("result", a.id)))
      BY <2>2 DEF ActivityCompletes, ResultOf
    <3>2. Ev("result", a.id) \in Event
      BY <1>5, EvType
    <3>3. a.inst \in I
      BY <1>2 DEF ActivitiesIn
    <3>4. callbacks' \in Seq(Callback) /\ CallbacksIn(callbacks', I)
      BY <1>1, <1>4, <3>1, <3>2, <3>3
    <3> QED
      BY <1>1, <1>2, <2>2, <3>3, <3>4 DEF ActivityCompletes, ActivitiesIn
  <2>3. CASE ActivityEnds(a)
    BY <1>2, <2>3 DEF ActivityEnds, ActivitiesIn
  <2> QED
    BY <2>1, <2>2, <2>3
<1>7. Typed'
  BY <1>3, <1>6 DEF wall, SInv, Typed
<1>8. Known'
  BY <1>3, <1>6 DEF wall, SInv, Known
<1> QED
  BY <1>7, <1>8 DEF SInv

LEMMA StepSInv == SInv /\ [Next]_vars => SInv'
<1> SUFFICES ASSUME SInv, [Next]_vars PROVE SInv'
  OBVIOUS
<1>1. ASSUME NEW k \in Tasks, NEW cmd \in CommandKinds, NEW d \in Delays \cup {0},
             NEW x \in 0 .. MaxIDs, ExecuteTask(k, cmd, d, x)
      PROVE  SInv'
  BY <1>1, ExecuteTaskKnown
<1>2. CASE RunCallback
  BY <1>2, RunCallbackKnown
<1>3. CASE \/ EndPass \/ PollNothing \/ Blocked \/ fireTimer \/ WallClockFires \/ WallClockSends
           \/ UNCHANGED vars
  BY <1>3, OthersKnown
<1>4. ASSUME NEW a \in Activities,
             \/ \E inst \in Instances : ActivitySignals(a, inst)
             \/ ActivityCompletes(a) \/ ActivityEnds(a)
      PROVE  SInv'
  BY <1>4, ActivitiesKnown
<1> QED
  BY <1>1, <1>2, <1>3, <1>4 DEF Next, Execute

LEMMA InitSInv == Init => SInv
<1> SUFFICES ASSUME Init PROVE SInv
  OBVIOUS
<1> DEFINE w == NewWorkflow(1, 0, 0)
<1>1. MaxWorkflows \in Nat \ {0} /\ MaxIDs \in Nat /\ Callbacks \in Seq(Nat)
  BY TesterAssumption
<1>2. /\ w \in Workflow /\ w.inst = 1 /\ w.parent = 0 /\ w.state = "open" /\ w.waits = {}
  <2>1. 0 \in 0 .. MaxIDs /\ 1 \in 1 .. MaxIDs + 1 /\ 0 \in 0 .. MaxWorkflows /\ 1 \in Instances
    BY <1>1 DEF Instances
  <2>2. Ev("start", 0) \in Event
    BY <2>1, EvType
  <2>3. \A e \in Event : <<e>> \in Seq(Event)
    OBVIOUS
  <2> QED
    BY <2>1, <2>2, <2>3 DEF NewWorkflow, Workflow
<1> HIDE DEF w
<1>3. \A v \in Workflow : /\ <<v>> \in Seq(Workflow) /\ Len(<<v>>) = 1 /\ DOMAIN <<v>> = {1}
                          /\ <<v>>[1] = v /\ <<v>> # <<>>
  OBVIOUS
<1>4. wf = <<w>>
  BY DEF Init, w
<1>5. /\ wf \in Seq(Workflow) /\ Len(wf) = 1 /\ DOMAIN wf = {1} /\ wf[1] = w /\ wf # <<>>
  BY <1>2, <1>3, <1>4
<1>6. Related(wf)
  BY <1>2, <1>5 DEF Related, Ordered, Latest, Continued, Waiting, Insts
<1>7. timers \in Seq(Timer) /\ TimersIn(timers, Insts(wf))
  <2>1. /\ DOMAIN Callbacks = 1 .. Len(Callbacks) /\ Len(Callbacks) \in Nat
        /\ \A k \in 1 .. Len(Callbacks) : Callbacks[k] \in Nat
    BY <1>1, LenProperties, ElementOfSeq
  <2>2. \A n \in Nat : CallbackAt(n) \in Timer /\ CallbackAt(n).inst = 0
    BY <1>1 DEF CallbackAt, Timer
  <2>3. timers = [k \in 1 .. Len(Callbacks) |-> CallbackAt(Callbacks[k])]
    BY <2>1 DEF Init
  <2>4. timers \in [1 .. Len(Callbacks) -> Timer]
    BY <2>1, <2>2, <2>3
  <2>5. timers \in Seq(Timer)
    BY <2>1, <2>4, IsASeq
  <2> QED
    BY <2>1, <2>2, <2>3, <2>5 DEF TimersIn
<1>8. \A S : <<>> \in Seq(S) /\ DOMAIN <<>> = {}
  OBVIOUS
<1>9. pass \in [next : Nat, end : Nat, new : BOOLEAN] /\ pass.next >= 1 /\ pass.end <= Len(wf)
  BY <1>5 DEF Init, NewPass
<1>10. Typed
  BY <1>5, <1>7, <1>8, <1>9 DEF Init, Typed
<1>11. Known
  BY <1>6, <1>7, <1>8 DEF Init, Known, TimersIn, CallbacksIn, ActivitiesIn
<1> QED
  BY <1>10, <1>11 DEF SInv

LEMMA SInvHolds == Spec => []SInv
<1> QED
  BY InitSInv, StepSInv, PTL DEF Spec


-----------------------------------------------------------------------------
(* What running a callback does.                                           *)

Fires(c) == c.kind \in {"fire", "wall"}

\* A callback of ScheduleCallback: it issues another one.
Again(c) == Fires(c) /\ c.timer.inst = 0

\* The instance a callback's event is for, and the event.
Target(c) == IF Fires(c) THEN c.timer.inst ELSE c.inst

Carries(c) == IF Fires(c) THEN Ev("timer", c.timer.id) ELSE c.event

LEMMA RunCallbackIs ==
    ASSUME SInv, RunCallback
    PROVE  LET c == Head(callbacks) IN
           /\ callbacks # <<>> /\ c \in Callback
           /\ \/ /\ c.kind = "wall" /\ timers = <<>> /\ pc' = "panic"
                 /\ UNCHANGED <<wf, pass, timers, wallSet, armed, forgotten, callbacks>>
              \/ /\ c.kind = "wall" => timers # <<>>
                 /\ timers' = IF c.kind = "wall" THEN Tail(timers) ELSE timers
                 /\ IF c.kind = "wall"
                    THEN wallSet' = FALSE /\ armed' = NoTimer
                    ELSE UNCHANGED <<wallSet, armed, forgotten>>
                 /\ \/ /\ Again(c) /\ wf' = wf /\ pc' = "poll" /\ pass' = pass
                       /\ callbacks' = Append(Tail(callbacks), EventFor(1, Ev("signal", 0)))
                    \/ /\ ~Again(c) /\ Target(c) \in Insts(wf) /\ Carries(c) \in Event
                       /\ wf' = sendEvent(wf, Target(c), Carries(c))
                       /\ pc' = "pass" /\ pass' = NewPass(Len(wf))
                       /\ callbacks' = Tail(callbacks)
           /\ UNCHANGED <<menu, mode, late, running, clock, signals>>
           /\ pc \in {"poll", "waiting"}
<1> DEFINE c == Head(callbacks)
           I == Insts(wf)
           A == /\ c.kind = "wall" /\ timers = <<>> /\ pc' = "panic"
                /\ UNCHANGED <<wf, pass, timers, wallSet, armed, forgotten, callbacks>>
           B == /\ c.kind = "wall" => timers # <<>>
                /\ timers' = IF c.kind = "wall" THEN Tail(timers) ELSE timers
                /\ IF c.kind = "wall"
                   THEN wallSet' = FALSE /\ armed' = NoTimer
                   ELSE UNCHANGED <<wallSet, armed, forgotten>>
           C == /\ Again(c) /\ wf' = wf /\ pc' = "poll" /\ pass' = pass
                /\ callbacks' = Append(Tail(callbacks), EventFor(1, Ev("signal", 0)))
           D == /\ ~Again(c) /\ Target(c) \in Insts(wf) /\ Carries(c) \in Event
                /\ wf' = sendEvent(wf, Target(c), Carries(c))
                /\ pc' = "pass" /\ pass' = NewPass(Len(wf))
                /\ callbacks' = Tail(callbacks)
<1>1. callbacks # <<>> /\ callbacks \in Seq(Callback) /\ CallbacksIn(callbacks, I)
  BY DEF RunCallback, SInv, Typed, Known
<1>2. c \in Callback /\ CallbackIn(c, I)
  BY <1>1, CallbacksInOps
<1>3. UNCHANGED <<menu, mode, late, running, clock, signals>> /\ pc \in {"poll", "waiting"}
  BY DEF RunCallback
<1>4. CASE c.kind = "wall" /\ timers = <<>>
  <2>1. A
    BY <1>4 DEF RunCallback
  <2> QED
    BY <1>1, <1>2, <1>3, <2>1
<1>5. CASE ~(c.kind = "wall" /\ timers = <<>>)
  <2>1. B
    BY <1>5 DEF RunCallback, ClearsWallClockTimer
  <2>2. /\ wf' = CASE Again(c) -> wf
                   [] Fires(c) /\ ~Again(c) -> sendEvent(wf, c.timer.inst, Ev("timer", c.timer.id))
                   [] OTHER -> sendEvent(wf, c.inst, c.event)
        /\ callbacks' = IF Again(c) THEN Append(Tail(callbacks), EventFor(1, Ev("signal", 0)))
                        ELSE Tail(callbacks)
        /\ pc' = IF Again(c) THEN "poll" ELSE "pass"
        /\ pass' = IF Again(c) THEN pass ELSE NewPass(Len(wf))
    BY <1>5 DEF RunCallback, Again, Fires
  <2>3. CASE Again(c)
    <3>1. C
      BY <2>2, <2>3
    <3> QED
      BY <1>1, <1>2, <1>3, <2>1, <3>1
  <2>4. CASE ~Again(c)
    <3>1. /\ ~Fires(c) => c.kind = "event" /\ c.inst \in I /\ c.event \in Event
          /\ Fires(c) => c.timer \in Timer /\ c.timer.inst \in I \cup {0}
      BY <1>2 DEF CallbackIn, Callback, Fires
    <3>2. Target(c) \in I /\ Carries(c) \in Event
      <4>1. CASE Fires(c)
        <5>1. c.timer.inst \in I /\ c.timer.id \in 0 .. MaxIDs
          BY <2>4, <3>1, <4>1 DEF Again, Timer
        <5> QED
          BY <4>1, <5>1, EvType DEF Target, Carries
      <4>2. CASE ~Fires(c)
        BY <3>1, <4>2 DEF Target, Carries
      <4> QED
        BY <4>1, <4>2
    <3>3. wf' = sendEvent(wf, Target(c), Carries(c))
      BY <2>2, <2>4 DEF Target, Carries, Again
    <3>4. D
      BY <2>2, <2>4, <3>2, <3>3
    <3> QED
      BY <1>1, <1>2, <1>3, <2>1, <3>4
  <2> QED
    BY <2>3, <2>4
<1> QED
  BY <1>4, <1>5

-----------------------------------------------------------------------------
(* Nothing is left behind.                                                 *)

\* As long as the pass has not noted new events, those that are pending are
\* those of workflows it has still to look at; then there are none.
Seen ==
    /\ pc = "pass" /\ ~pass.new =>
         \A k \in DOMAIN wf : wf[k].pending # <<>> => k \in pass.next .. pass.end
    /\ pc \in {"poll", "fire", "waiting", "blocked"} =>
         \A k \in DOMAIN wf : wf[k].pending = <<>>

LEMMA SeenStep == SInv /\ Seen /\ [Next]_vars => Seen'
<1> SUFFICES ASSUME SInv, Seen, [Next]_vars PROVE Seen'
  OBVIOUS
<1>1. /\ wf \in Seq(Workflow) /\ DOMAIN wf = 1 .. Len(wf) /\ Len(wf) \in Nat
      /\ pass \in [next : Nat, end : Nat, new : BOOLEAN]
      /\ pass.next >= 1 /\ pass.end <= Len(wf)
  BY LenProperties DEF SInv, Typed
<1>2. ASSUME NEW k \in Tasks, NEW cmd \in CommandKinds, NEW d \in Delays \cup {0},
             NEW x \in 0 .. MaxIDs, ExecuteTask(k, cmd, d, x)
      PROVE  Seen'
  <2>1. /\ pc = "pass" /\ pc' = pc /\ \A l \in Tasks : k <= l
        /\ pass' = [pass EXCEPT !.next = k + 1,
                                !.new = @ \/ d # 0 \/ GotNewEvents(cmd, Told(wf[k], cmd))]
    BY <1>2 DEF ExecuteTask, Told
  <2> SUFFICES ASSUME ~pass'.new, NEW l \in DOMAIN wf', wf'[l].pending # <<>>
               PROVE  l \in pass'.next .. pass'.end
    BY <2>1 DEF Seen
  <2>2. ~pass.new /\ ~Told(wf[k], cmd) /\ cmd \notin {"sub", "continue"}
        /\ pass'.next = k + 1 /\ pass'.end = pass.end
    BY <1>1, <2>1 DEF GotNewEvents
  <2>3. /\ k \in DOMAIN wf /\ wf[k] \in Workflow /\ d \in Nat
        /\ (wf[k].state = "open" \/ cmd = "finish")
        /\ wf[k].next + Cardinality(Begun(wf[k], cmd, d)) <= MaxIDs + 1
    BY <1>2, Runs
  <2>4. Ran(wf[k], cmd, d, x).pending = <<>>
    <3>1. Waiting(wf[k])
      BY <2>3 DEF SInv, Known, Related, Ordered
    <3> QED
      BY <2>3, <3>1, RanIs
  <2> DEFINE r == Ran(wf[k], cmd, d, x)
  <2> HIDE DEF r
  <2>5. /\ \A m \in DOMAIN wf : \/ wf'[m].pending = (IF m = k THEN r ELSE wf[m]).pending
                                \/ Told(wf[k], cmd)
        /\ \A m \in DOMAIN wf' \ DOMAIN wf : cmd \in {"sub", "continue"}
    BY <1>2, RunsEach DEF r
  <2>6. l \in DOMAIN wf /\ l # k /\ wf'[l].pending = wf[l].pending
    BY <2>2, <2>4, <2>5 DEF r
  <2>7. l \in pass.next .. pass.end
    BY <2>1, <2>2, <2>6 DEF Seen
  <2>8. l \in Tasks
    BY <2>6, <2>7 DEF Tasks
  <2> QED
    BY <1>1, <2>1, <2>2, <2>3, <2>6, <2>7, <2>8
<1>3. ASSUME wf' = wf, pass' = pass,
             pc' = pc \/ /\ pc \in {"poll", "fire", "waiting", "blocked"}
                         /\ pc' \in {"poll", "fire", "waiting", "blocked"}
      PROVE  Seen'
  BY <1>3 DEF Seen
<1>4. ASSUME NEW n \in Nat, pass' = NewPass(n), n = Len(wf'), wf' \in Seq(Workflow), pc' = "pass"
      PROVE  Seen'
  BY <1>4, LenProperties DEF Seen, NewPass
<1>5. CASE EndPass
  <2>1. wf' = wf /\ pc = "pass" /\ Tasks = {}
    BY <1>5 DEF EndPass
  <2>2. CASE pc' = "finished"
    BY <2>2 DEF Seen
  <2>3. CASE pass.new /\ pass' = NewPass(Len(wf)) /\ pc' = pc
    BY <1>1, <1>4, <2>1, <2>3
  <2>4. CASE ~pass.new /\ pc' = "poll"
    <3>1. \A k \in DOMAIN wf : wf[k].pending = <<>>
      BY <2>1, <2>4 DEF Seen, Tasks
    <3> QED
      BY <2>1, <2>4, <3>1 DEF Seen
  <2> QED
    BY <1>5, <2>2, <2>3, <2>4 DEF EndPass
<1>6. CASE RunCallback
  <2> DEFINE c == Head(callbacks)
  <2>1. \/ pc' = "panic"
        \/ wf' = wf /\ pc' = "poll" /\ pass' = pass /\ pc \in {"poll", "waiting"}
        \/ /\ Target(c) \in Insts(wf) /\ Carries(c) \in Event
           /\ wf' = sendEvent(wf, Target(c), Carries(c))
           /\ pc' = "pass" /\ pass' = NewPass(Len(wf))
    BY <1>6, RunCallbackIs
  <2>2. CASE pc' = "panic"
    BY <2>2 DEF Seen
  <2>3. CASE /\ Target(c) \in Insts(wf) /\ Carries(c) \in Event
             /\ wf' = sendEvent(wf, Target(c), Carries(c))
             /\ pc' = "pass" /\ pass' = NewPass(Len(wf))
    <3>1. wf' \in Seq(Workflow) /\ Len(wf') = Len(wf)
      BY <1>1, <2>3, Delivers
    <3> QED
      BY <1>1, <1>4, <2>3, <3>1
  <2> QED
    BY <1>3, <2>1, <2>2, <2>3
<1>7. CASE PollNothing \/ Blocked
  BY <1>3, <1>7 DEF PollNothing, Blocked
<1>8. CASE fireTimer
  <2>1. wf' = wf /\ pass' = pass /\ pc = "fire"
    BY <1>8 DEF fireTimer
  <2>2. pc' \in {"waiting", "poll"}
    BY <1>8 DEF fireTimer, newTimerMode
  <2> QED
    BY <1>3, <2>1, <2>2
<1>9. CASE \/ WallClockFires \/ WallClockSends \/ UNCHANGED vars
           \/ \E a \in Activities : \/ \E inst \in Instances : ActivitySignals(a, inst)
                                    \/ ActivityCompletes(a) \/ ActivityEnds(a)
  <2>1. wf' = wf /\ pass' = pass /\ pc' = pc
    BY <1>9 DEF WallClockFires, WallClockSends, vars, ActivitySignals, ActivityCompletes, ActivityEnds
  <2> QED
    BY <1>3, <2>1
<1> QED
  BY <1>2, <1>5, <1>6, <1>7, <1>8, <1>9 DEF Next, Execute


HasWall(cs) == \E c \in DOMAIN cs : cs[c].kind = "wall"

\* Whoever waits with timers waits for the callback of a wall-clock timer.
Wall ==
    /\ wallSet => armed # NoTimer \/ late # <<>> \/ HasWall(callbacks)
    /\ ~wallSet => armed = NoTimer
    /\ pc = "waiting" => wallSet \/ timers = <<>>
    /\ pc = "blocked" => timers = <<>>

LEMMA HasWallOps ==
    ASSUME NEW cs \in Seq(Callback)
    PROVE  /\ \A c \in Callback : HasWall(cs) \/ c.kind = "wall" => HasWall(Append(cs, c))
           /\ cs # <<>> /\ HasWall(cs) /\ Head(cs).kind # "wall" => HasWall(Tail(cs))
           /\ cs # <<>> => Tail(cs) \in Seq(Callback)
           /\ HasWall(cs) => cs # <<>>
<1>1. ASSUME NEW c \in Callback, HasWall(cs) \/ c.kind = "wall" PROVE HasWall(Append(cs, c))
  <2> DEFINE r == Append(cs, c)
  <2>1. /\ \A k \in DOMAIN cs : k \in DOMAIN r /\ r[k] = cs[k]
        /\ Len(cs) + 1 \in DOMAIN r /\ r[Len(cs) + 1] = c
    BY Appended
  <2> HIDE DEF r
  <2> QED
    BY <1>1, <2>1 DEF HasWall, r
<1>2. ASSUME cs # <<>> PROVE Tail(cs) \in Seq(Callback)
  BY <1>2, Popped
<1>3. ASSUME cs # <<>>, HasWall(cs), Head(cs).kind # "wall" PROVE HasWall(Tail(cs))
  <2> DEFINE r == Tail(cs)
  <2>1. r \in Seq(Callback) /\ LeavesOut(cs, 1, r) /\ Head(cs) = cs[1] /\ 1 \in 1 .. Len(cs)
    BY <1>3, Popped
  <2> HIDE DEF r
  <2>2. \A m \in DOMAIN cs : m = 1 \/ \E j \in DOMAIN r : r[j] = cs[m]
    BY <2>1, LeftOver
  <2> QED
    BY <1>3, <2>1, <2>2 DEF HasWall, r
<1>4. ASSUME HasWall(cs) PROVE cs # <<>>
  BY <1>4 DEF HasWall
<1> QED
  BY <1>1, <1>2, <1>3, <1>4

LEMMA WallStep == SInv /\ Wall /\ [Next]_vars => Wall'
<1> SUFFICES ASSUME SInv, Wall, [Next]_vars PROVE Wall'
  OBVIOUS
<1>1. /\ callbacks \in Seq(Callback) /\ timers \in Seq(Timer) /\ late \in Seq(Timer)
      /\ armed \in Timer \cup {NoTimer} /\ wallSet \in BOOLEAN
      /\ forgotten \in Seq(Timer)
  BY DEF SInv, Typed
<1>2. \A kind \in {"fire", "wall"}, t \in Timer : [kind |-> kind, timer |-> t] \in Callback
  BY CallbackType
\* Callbacks are added and the rest stays.
<1>3. ASSUME UNCHANGED <<wallSet, armed, late>>,
             callbacks' = callbacks \/ \E c \in Callback : callbacks' = Append(callbacks, c),
             pc' = "waiting" => pc = "waiting" /\ timers' = timers,
             pc' = "blocked" => pc = "blocked" /\ timers' = timers
      PROVE  Wall'
  <2>1. HasWall(callbacks) => HasWall(callbacks')
    BY <1>1, <1>3, HasWallOps
  <2> QED
    BY <1>3, <2>1 DEF Wall
<1>4. ASSUME NEW k \in Tasks, NEW cmd \in CommandKinds, NEW d \in Delays \cup {0},
             NEW x \in 0 .. MaxIDs, ExecuteTask(k, cmd, d, x)
      PROVE  Wall'
  <2> DEFINE c == EventFor(wf[k].inst, Ev("child", Num(wf[k], d)))
  <2>1. /\ UNCHANGED <<wallSet, armed, late>> /\ pc = "pass" /\ pc' = pc
        /\ callbacks' = IF cmd = "mock" THEN Append(callbacks, c) ELSE callbacks
    BY <1>4 DEF ExecuteTask, Num, wall
  <2>2. cmd = "mock" => c \in Callback
    <3>1. /\ wf[k] \in Workflow /\ d \in Nat
          /\ wf[k].next + Cardinality(Begun(wf[k], cmd, d)) <= MaxIDs + 1
      BY <1>4, Runs
    <3>2. cmd = "mock" => Num(wf[k], d) \in Ids
      BY <3>1, BegunIs
    <3>3. Ids \subseteq 0 .. MaxIDs /\ wf[k].inst \in Instances
      BY <3>1, TesterAssumption DEF Ids, Workflow
    <3>4. cmd = "mock" => Ev("child", Num(wf[k], d)) \in Event
      BY <3>2, <3>3, EvType
    <3> QED
      BY <3>3, <3>4, CallbackType
  <2> HIDE DEF c
  <2>3. callbacks' = callbacks \/ \E e \in Callback : callbacks' = Append(callbacks, e)
    BY <2>1, <2>2
  <2> QED
    BY <1>3, <2>1, <2>3
<1>5. CASE EndPass
  <2>1. /\ UNCHANGED <<wallSet, armed, late, callbacks>> /\ pc = "pass"
        /\ pc' \in {"finished", "pass", "poll"}
    BY <1>5 DEF EndPass, wall
  <2> QED
    BY <1>3, <2>1
<1>6. CASE RunCallback
  <2> DEFINE c == Head(callbacks)
             sig == EventFor(1, Ev("signal", 0))
  <2>1. /\ callbacks # <<>> /\ late' = late /\ pc' \in {"panic", "poll", "pass"}
        /\ \/ UNCHANGED <<wallSet, armed, callbacks>>
           \/ /\ IF c.kind = "wall"
                 THEN wallSet' = FALSE /\ armed' = NoTimer ELSE UNCHANGED <<wallSet, armed>>
              /\ callbacks' = Tail(callbacks) \/ callbacks' = Append(Tail(callbacks), sig)
    BY <1>6, RunCallbackIs
  <2>2. sig \in Callback
    <3>1. 0 \in 0 .. MaxIDs /\ 1 \in Instances
      BY TesterAssumption DEF Instances
    <3> QED
      BY <3>1, EvType, CallbackType
  <2> HIDE DEF sig
  <2>3. CASE UNCHANGED <<wallSet, armed, callbacks>>
    BY <1>3, <2>1, <2>3
  <2>4. CASE c.kind = "wall" /\ wallSet' = FALSE /\ armed' = NoTimer
    BY <2>1, <2>4 DEF Wall
  <2>5. CASE /\ c.kind # "wall" /\ UNCHANGED <<wallSet, armed>>
             /\ callbacks' = Tail(callbacks) \/ callbacks' = Append(Tail(callbacks), sig)
    <3> DEFINE r == Tail(callbacks)
    <3>1. r \in Seq(Callback) /\ (HasWall(callbacks) => HasWall(r))
      BY <1>1, <2>1, <2>5, HasWallOps
    <3> HIDE DEF r
    <3>2. HasWall(r) => HasWall(Append(r, sig))
      BY <2>2, <3>1, HasWallOps
    <3>3. HasWall(callbacks) => HasWall(callbacks')
      BY <2>5, <3>1, <3>2 DEF r
    <3> QED
      BY <2>1, <2>5, <3>3 DEF Wall
  <2> QED
    BY <2>1, <2>3, <2>4, <2>5
<1>7. CASE PollNothing
  <2>1. UNCHANGED <<wallSet, armed, late, callbacks>> /\ pc' = "fire"
    BY <1>7 DEF PollNothing, wall
  <2> QED
    BY <1>3, <2>1
<1>8. CASE Blocked
  <2>1. /\ UNCHANGED <<wallSet, armed, late, callbacks, timers>> /\ pc = "waiting" /\ pc' = "blocked"
        /\ callbacks = <<>> /\ armed = NoTimer /\ late = <<>>
    BY <1>8 DEF Blocked, TimeoutPasses, wall
  <2>2. ~wallSet
    BY <1>1, <2>1, HasWallOps DEF Wall
  <2> QED
    BY <2>1, <2>2 DEF Wall
<1>9. CASE fireTimer
  <2>1. CASE timers = <<>>
    <3>1. pc' = "waiting" /\ UNCHANGED <<wallSet, armed, late, timers, callbacks>>
      BY <1>9, <2>1 DEF fireTimer, wall
    <3> QED
      BY <2>1, <3>1 DEF Wall
  <2>2. CASE timers # <<>> /\ newTimerMode = "TimeTravel"
    <3> DEFINE stops == mode = "WallClock" /\ newTimerMode = "TimeTravel"
               c == [kind |-> "fire", timer |-> Head(timers)]
    <3>1. /\ wallSet' = (wallSet /\ ~stops)
          /\ armed' = IF stops THEN NoTimer ELSE armed
          /\ callbacks' = Append(callbacks, c)
          /\ pc' = "poll" /\ late' = late
      BY <1>9, <2>2 DEF fireTimer
    <3>2. c \in Callback
      BY <1>1, <1>2, <2>2, Popped
    <3> HIDE DEF c, stops
    <3>3. HasWall(callbacks) => HasWall(callbacks')
      BY <1>1, <3>1, <3>2, HasWallOps
    <3>4. CASE stops
      BY <3>1, <3>4 DEF Wall
    <3>5. CASE ~stops
      BY <3>1, <3>3, <3>5 DEF Wall
    <3> QED
      BY <3>4, <3>5
  <2>3. CASE timers # <<>> /\ newTimerMode # "TimeTravel"
    <3>1. /\ wallSet' = TRUE /\ armed' = IF wallSet THEN armed ELSE Head(timers)
          /\ pc' = "waiting" /\ late' = late /\ callbacks' = callbacks
      BY <1>9, <2>3 DEF fireTimer, newTimerMode
    <3>2. Head(timers) # NoTimer
      BY <1>1, <2>3, Popped, NoTimerAssumption
    <3> QED
      BY <3>1, <3>2 DEF Wall
  <2> QED
    BY <2>1, <2>2, <2>3
<1>10. CASE WallClockFires
  <2>1. /\ UNCHANGED <<wallSet, pc, timers, callbacks>>
        /\ armed' = armed \/ armed' = NoTimer
        /\ \E t \in Timer : late' = Append(late, t)
    <3>1. \A k \in DOMAIN forgotten : forgotten[k] \in Timer
      BY <1>1, LenProperties, ElementOfSeq
    <3> QED
      BY <1>1, <1>10, <3>1 DEF WallClockFires
  <2>2. late' # <<>>
    BY <1>1, <2>1, Appended
  <2> QED
    BY <2>1, <2>2 DEF Wall
<1>11. CASE WallClockSends
  <2> DEFINE c == [kind |-> "wall", timer |-> Head(late)]
  <2>1. /\ UNCHANGED <<wallSet, armed, pc, timers>> /\ late # <<>>
        /\ callbacks' = Append(callbacks, c)
    BY <1>11 DEF WallClockSends
  <2>2. c \in Callback /\ c.kind = "wall"
    BY <1>1, <1>2, <2>1, Popped
  <2> HIDE DEF c
  <2>3. HasWall(callbacks')
    BY <1>1, <2>1, <2>2, HasWallOps
  <2> QED
    BY <2>1, <2>3 DEF Wall
<1>12. ASSUME NEW a \in Activities,
              \/ \E inst \in Instances : ActivitySignals(a, inst)
              \/ ActivityCompletes(a) \/ ActivityEnds(a)
       PROVE  Wall'
  <2>1. /\ UNCHANGED <<wallSet, armed, late, pc, timers>>
        /\ \/ callbacks' = callbacks
           \/ \E inst \in Instances : callbacks' = Append(callbacks, EventFor(inst, Ev("signal", 0)))
           \/ callbacks' = Append(callbacks, EventFor(a.inst, Ev("result", a.id)))
    BY <1>12 DEF ActivitySignals, ActivityCompletes, ActivityEnds, ResultOf, wall
  <2>2. 0 \in 0 .. MaxIDs /\ a.id \in 0 .. MaxIDs /\ a.inst \in Instances
    BY TesterAssumption DEF Activities, Ids
  <2>3. Ev("signal", 0) \in Event /\ Ev("result", a.id) \in Event
    BY <2>2, EvType
  <2>4. callbacks' = callbacks \/ \E c \in Callback : callbacks' = Append(callbacks, c)
    BY <2>1, <2>2, <2>3, CallbackType
  <2> QED
    BY <1>3, <2>1, <2>4
<1>13. CASE UNCHANGED vars
  BY <1>3, <1>13 DEF vars
<1> QED
  BY <1>4, <1>5, <1>6, <1>7, <1>8, <1>9, <1>10, <1>11, <1>12, <1>13 DEF Next, Execute

(***************************************************************************)
(* Nothing is left behind: when Execute turns from workflows to timers     *)
(* every workflow has seen its events, and when TestTimeout's panic says   *)
(* that there are no pending timers there are none (tester.Execute,        *)
(* fireTimer), whatever the menus, delays, callbacks and bounds.           *)
(***************************************************************************)
THEOREM NothingIsLeftBehind == Spec => []NothingLeftBehind
<1>1. Init => SInv /\ Seen /\ Wall
  <2>1. Init => Seen
    <3> SUFFICES ASSUME Init PROVE Seen
      OBVIOUS
    <3>1. /\ pc = "pass" /\ pass.next = 1 /\ pass.end = 1 /\ DOMAIN wf = {1}
      BY DEF Init, NewPass
    <3> QED
      BY <3>1 DEF Seen
  <2>2. Init => Wall
    BY DEF Init, Wall
  <2> QED
    BY <2>1, <2>2, InitSInv
<1>2. SInv /\ Seen /\ Wall /\ [Next]_vars => (SInv /\ Seen /\ Wall)'
  BY StepSInv, SeenStep, WallStep
<1>3. Seen /\ Wall => NothingLeftBehind
  BY DEF Seen, Wall, NothingLeftBehind
<1> QED
  BY <1>1, <1>2, <1>3, PTL DEF Spec


-----------------------------------------------------------------------------
(* Time travel.                                                            *)

\* The callbacks are scheduled in the order of their delays: ScheduleCallback
\* appends them and only scheduleTimer sorts.
Ascending == \A k, l \in DOMAIN Callbacks : k <= l => Callbacks[k] <= Callbacks[l]

Ahead(ts, now) == Sorted(ts) /\ \A k \in DOMAIN ts : ts[k].at >= now

LEMMA AheadLeavesOut ==
    ASSUME NEW ts \in Seq(Timer), NEW r \in Seq(Timer), NEW i \in 1 .. Len(ts),
           LeavesOut(ts, i, r), NEW now \in Nat, Ahead(ts, now)
    PROVE  Ahead(r, now)
<1>1. /\ DOMAIN ts = 1 .. Len(ts) /\ DOMAIN r = 1 .. Len(r)
      /\ Len(ts) \in Nat /\ Len(r) \in Nat
  BY LenProperties
<1>2. \A j \in DOMAIN r : \E m \in DOMAIN ts : r[j] = ts[m] /\ j <= m /\ m <= j + 1
  BY LeftOver
<1>3. \A j \in DOMAIN r : r[j] \in Timer /\ r[j].at \in Nat
  <2>1. \A j \in 1 .. Len(r) : r[j] \in Timer
    BY ElementOfSeq
  <2> QED
    BY <1>1, <2>1 DEF Timer
<1>4. ASSUME NEW k \in DOMAIN r, NEW l \in DOMAIN r, k <= l PROVE r[k].at <= r[l].at
  <2>1. CASE k = l
    BY <1>3, <2>1
  <2>2. CASE k < l
    <3>1. PICK m \in DOMAIN ts : r[k] = ts[m] /\ m <= k + 1
      BY <1>2
    <3>2. PICK n \in DOMAIN ts : r[l] = ts[n] /\ l <= n
      BY <1>2
    <3>3. m <= n
      BY <1>1, <2>2, <3>1, <3>2
    <3> QED
      BY <3>1, <3>2, <3>3 DEF Ahead, Sorted
  <2> QED
    BY <1>1, <1>4, <2>1, <2>2
<1>5. \A j \in DOMAIN r : r[j].at >= now
  BY <1>2 DEF Ahead
<1> QED
  BY <1>4, <1>5 DEF Ahead, Sorted

LEMMA AheadStep ==
    SInv /\ Ahead(timers, clock) /\ [Next]_vars
      => Ahead(timers, clock)' /\ (clock' = clock \/ clock' >= clock)
<1> SUFFICES ASSUME SInv, Ahead(timers, clock), [Next]_vars
             PROVE  Ahead(timers', clock') /\ (clock' = clock \/ clock' >= clock)
  OBVIOUS
<1>1. timers \in Seq(Timer) /\ clock \in Nat
  BY DEF SInv, Typed
<1>2. ASSUME NEW k \in Tasks, NEW cmd \in CommandKinds, NEW d \in Delays \cup {0},
             NEW x \in 0 .. MaxIDs, ExecuteTask(k, cmd, d, x)
      PROVE  Ahead(timers', clock') /\ clock' = clock
  <2> DEFINE w == wf[k]
             c == IF x = 0 THEN timers ELSE cancelTimer(timers, w.inst, x)
             at == clock + d
             t == [inst |-> w.inst, id |-> w.next, at |-> at]
  <2>1. clock' = clock /\ timers' = IF d = 0 THEN c ELSE scheduleTimer(c, t)
    BY <1>2 DEF ExecuteTask
  <2>2. /\ w \in Workflow /\ d \in Nat
        /\ w.next + Cardinality(Begun(w, cmd, d)) <= MaxIDs + 1
    BY <1>2, Runs
  <2>3. d # 0 => w.next \in Ids
    BY <2>2, BegunIs
  <2>4. c \in Seq(Timer) /\ Ahead(c, clock)
    <3> DEFINE r == cancelTimer(timers, w.inst, x)
    <3> HIDE DEF r
    <3>1. \/ r = timers
          \/ \E i \in 1 .. Len(timers) : r \in Seq(Timer) /\ LeavesOut(timers, i, r)
      BY <1>1, Cancels DEF r
    <3>2. r \in Seq(Timer) /\ Ahead(r, clock)
      BY <1>1, <3>1, AheadLeavesOut
    <3> QED
      BY <1>1, <3>2 DEF r
  <2> HIDE DEF c
  <2>5. CASE d = 0
    BY <2>1, <2>4, <2>5
  <2>6. CASE d # 0
    <3>1. at \in Nat /\ at >= clock
      BY <1>1, <2>2
    <3>2. w.inst \in 0 .. MaxWorkflows /\ w.next \in 0 .. MaxIDs
      BY <2>2, <2>3, <2>6, TesterAssumption DEF Workflow, Instances, Ids
    <3> HIDE DEF at, w
    <3>3. t \in Timer /\ t.at = at
      BY <3>1, <3>2 DEF Timer
    <3> HIDE DEF t
    <3> DEFINE r == scheduleTimer(c, t)
    <3>4. /\ Sorted(r)
          /\ \A p \in DOMAIN r : r[p] = t \/ \E m \in DOMAIN c : r[p] = c[m]
      BY <2>4, <3>3, Scheduled
    <3> HIDE DEF r
    <3>5. \A p \in DOMAIN r : r[p].at >= clock
      BY <2>4, <3>1, <3>3, <3>4 DEF Ahead
    <3> QED
      BY <2>1, <2>6, <3>4, <3>5 DEF Ahead, r
  <2> QED
    BY <2>5, <2>6
<1>3. ASSUME timers # <<>>
      PROVE  /\ Head(timers) \in Timer /\ Head(timers).at >= clock
             /\ Ahead(Tail(timers), clock) /\ Ahead(Tail(timers), Head(timers).at)
  <2> DEFINE r == Tail(timers)
  <2>1. /\ r \in Seq(Timer) /\ Head(timers) \in Timer /\ Head(timers) = timers[1]
        /\ 1 \in 1 .. Len(timers) /\ 1 \in DOMAIN timers /\ LeavesOut(timers, 1, r)
    BY <1>1, <1>3, Popped
  <2> HIDE DEF r
  <2>2. /\ Ahead(r, clock)
        /\ \A j \in DOMAIN r : \E m \in DOMAIN timers : r[j] = timers[m]
    BY <1>1, <2>1, AheadLeavesOut, LeftOver
  <2>3. /\ Head(timers).at >= clock /\ Head(timers).at \in Nat
        /\ \A m \in DOMAIN timers : Head(timers).at <= timers[m].at
    <3>1. \A m \in DOMAIN timers : 1 <= m
      BY <1>1, LenProperties
    <3> QED
      BY <2>1, <3>1 DEF Ahead, Sorted, Timer
  <2>4. \A m \in DOMAIN timers : timers[m].at \in Nat
    <3>1. \A m \in 1 .. Len(timers) : timers[m] \in Timer
      BY <1>1, ElementOfSeq
    <3>2. DOMAIN timers = 1 .. Len(timers)
      BY <1>1, LenProperties
    <3> QED
      BY <3>1, <3>2 DEF Timer
  <2>5. Ahead(r, Head(timers).at)
    <3>1. ASSUME NEW j \in DOMAIN r PROVE r[j].at >= Head(timers).at
      <4>1. PICK m \in DOMAIN timers : r[j] = timers[m]
        BY <2>2
      <4> QED
        BY <2>3, <2>4, <4>1
    <3> QED
      BY <2>2, <3>1 DEF Ahead
  <2> QED
    BY <2>1, <2>2, <2>3, <2>5 DEF r
<1>4. CASE RunCallback
  <2>1. /\ clock' = clock
        /\ \/ timers' = timers
           \/ timers # <<>> /\ timers' = Tail(timers)
    BY <1>4, RunCallbackIs
  <2> QED
    BY <1>3, <2>1
<1>5. CASE fireTimer
  <2>1. CASE timers = <<>> \/ newTimerMode # "TimeTravel"
    <3>1. clock' = clock /\ timers' = timers
      BY <1>5, <2>1 DEF fireTimer, newTimerMode
    <3> QED
      BY <3>1
  <2>2. CASE timers # <<>> /\ newTimerMode = "TimeTravel"
    <3>1. clock' = Head(timers).at /\ timers' = Tail(timers)
      BY <1>5, <2>2 DEF fireTimer
    <3> QED
      BY <1>3, <2>2, <3>1
  <2> QED
    BY <2>1, <2>2
<1>6. CASE \/ EndPass \/ PollNothing \/ Blocked \/ WallClockFires \/ WallClockSends
           \/ UNCHANGED vars
           \/ \E a \in Activities : \/ \E inst \in Instances : ActivitySignals(a, inst)
                                    \/ ActivityCompletes(a) \/ ActivityEnds(a)
  <2>1. clock' = clock /\ timers' = timers
    BY <1>6 DEF EndPass, PollNothing, Blocked, WallClockFires, WallClockSends, vars,
                ActivitySignals, ActivityCompletes, ActivityEnds
  <2> QED
    BY <2>1
<1> QED
  BY <1>2, <1>4, <1>5, <1>6 DEF Next, Execute

(***************************************************************************)
(* Time travel goes forward (fireTimer sets the clock to the time of the   *)
(* first timer), if the test schedules its callbacks in the order of their *)
(* delays.                                                                 *)
(***************************************************************************)
THEOREM TimeTravelGoesForward == Ascending => (Spec => TimeGoesForward)
<1> SUFFICES ASSUME Ascending PROVE Spec => TimeGoesForward
  OBVIOUS
<1>1. Init => SInv /\ Ahead(timers, clock)
  <2> SUFFICES ASSUME Init PROVE Ahead(timers, clock)
    BY InitSInv
  <2>1. \A n \in Nat : CallbackAt(n).at = n
    BY DEF CallbackAt
  <2>2. DOMAIN timers = DOMAIN Callbacks
        /\ \A k \in DOMAIN Callbacks : Callbacks[k] \in Nat /\ timers[k].at = Callbacks[k]
    <3>1. \A k \in DOMAIN Callbacks : Callbacks[k] \in Nat
      BY TesterAssumption, LenProperties, ElementOfSeq
    <3> QED
      BY <2>1, <3>1 DEF Init
  <2>3. clock = 0
    BY DEF Init
  <2> QED
    BY <2>2, <2>3 DEF Ascending, Ahead, Sorted
<1>2. SInv /\ Ahead(timers, clock) /\ [Next]_vars => (SInv /\ Ahead(timers, clock))'
  BY StepSInv, AheadStep
<1>3. SInv /\ Ahead(timers, clock) /\ [Next]_vars => [clock' >= clock]_clock
  BY AheadStep
<1> QED
  BY <1>1, <1>2, <1>3, PTL DEF Spec, TimeGoesForward


-----------------------------------------------------------------------------
(* Events that are on their way once.                                      *)

\* An event is pending, or counted in E of its instance, once for every open
\* workflow that waits for it and not at all for the others.
Balanced(ws, ev, E) ==
    \A l \in DOMAIN ws : ws[l].state = "open" =>
      Occ(ws[l].pending, {ev}) + E[ws[l].inst] = IF ev \in ws[l].waits THEN 1 ELSE 0

LEMMA LeftDue ==
    ASSUME NEW w \in Workflow, NEW ev \in Event, NEW e \in Nat, NEW x, ev # Ev("timer", x),
           Occ(w.pending, {ev}) + e = IF ev \in w.waits THEN 1 ELSE 0
    PROVE  e = IF ev \in Left(w, x) THEN 1 ELSE 0
<1>1. w.pending \in Seq(Event)
  BY DEF Workflow
<1>2. Occ(w.pending, {ev}) \in Nat
  BY <1>1, OccNat
<1>3. Occ(w.pending, {ev}) = 0 <=> \A k \in DOMAIN w.pending : w.pending[k] \notin {ev}
  BY <1>1, OccZero
<1>4. Occ(w.pending, {ev}) = 0 <=> ev \notin ToSet(w.pending)
  BY <1>3 DEF ToSet
<1>5. ev \in Left(w, x) <=> ev \in w.waits /\ ev \notin ToSet(w.pending)
  BY DEF Left
<1> QED
  BY <1>2, <1>4, <1>5

\* A task keeps the balance if elsewhere it adds and takes away what it says.
LEMMA TaskBalanced ==
    ASSUME SInv, NEW k \in Tasks, NEW cmd \in CommandKinds, NEW d \in Delays \cup {0},
           NEW x \in 0 .. MaxIDs, ExecuteTask(k, cmd, d, x),
           NEW ev \in Event, ev.kind \in {"result", "timer"},
           NEW E \in [Instances -> Nat], NEW F \in [Instances -> Nat],
           Balanced(wf, ev, E),
           \A i \in Instances : i # wf[k].inst => F[i] = E[i],
           \A i \in Instances : i \notin Insts(wf) => E[i] = 0,
           wf[k].state = "open" =>
             F[wf[k].inst] = (IF ev \in Left(wf[k], x) THEN 1 ELSE 0)
                             + (IF ev \in Begun(wf[k], cmd, d) THEN 1 ELSE 0)
    PROVE  Balanced(wf', ev, F)
<1> DEFINE w == wf[k]
           r == Ran(w, cmd, d, x)
           ran(l) == IF l = k THEN r ELSE wf[l]
           child == Ev("child", w.of)
           start == Ev("start", 0)
<1>1. /\ k \in DOMAIN wf /\ w \in Workflow /\ d \in Nat
      /\ w.pending # <<>> /\ (w.state = "open" \/ cmd = "finish")
      /\ w.next + Cardinality(Begun(w, cmd, d)) <= MaxIDs + 1
      /\ cmd = "continue" => Left(w, x) = {}
  BY Runs
<1>2. /\ wf' \in Seq(Workflow) /\ DOMAIN wf \subseteq DOMAIN wf'
      /\ \A l \in DOMAIN wf :
           /\ wf'[l].inst = ran(l).inst
           /\ wf'[l].state = ran(l).state /\ wf'[l].waits = ran(l).waits
           /\ wf'[l].pending = ran(l).pending \/ wf'[l].pending = Append(ran(l).pending, child)
      /\ \A l \in DOMAIN wf' \ DOMAIN wf :
           /\ cmd \in {"sub", "continue"}
           /\ wf'[l].inst = IF cmd = "continue" THEN w.inst ELSE Len(wf) + 1
           /\ wf'[l].waits = {} /\ wf'[l].pending = <<start>>
  <2>1. /\ wf' \in Seq(Workflow) /\ DOMAIN wf \subseteq DOMAIN wf'
        /\ \A l \in DOMAIN wf :
             /\ wf'[l].inst = ran(l).inst
             /\ wf'[l].state = ran(l).state /\ wf'[l].waits = ran(l).waits
             /\ \/ wf'[l].pending = ran(l).pending
                \/ /\ Told(w, cmd)
                   /\ wf'[l].pending = Append(ran(l).pending, Ev("child", w.of))
        /\ \A l \in DOMAIN wf' \ DOMAIN wf :
             /\ cmd \in {"sub", "continue"}
             /\ wf'[l].inst = IF cmd = "continue" THEN w.inst ELSE Len(wf) + 1
             /\ wf'[l].waits = {} /\ wf'[l].pending = <<Ev("start", 0)>>
    BY RunsEach
  <2> HIDE DEF r
  <2> QED
    BY <2>1
<1>3. Waiting(w)
  BY <1>1 DEF SInv, Known, Related, Ordered
<1>4. /\ r.inst = w.inst /\ r.pending = <<>> /\ r.waits = Remains(w, cmd, d, x)
      /\ r.state = Ends(cmd)
  BY <1>1, <1>3, RanIs
<1> HIDE DEF r
<1>5. /\ wf \in Seq(Workflow) /\ DOMAIN wf = 1 .. Len(wf) /\ Len(wf) \in Nat
      /\ DOMAIN wf' = 1 .. Len(wf')
      /\ \A l \in DOMAIN wf : wf[l] \in Workflow
      /\ \A l \in DOMAIN wf' : wf'[l] \in Workflow
  BY <1>2, LenProperties, ElementOfSeq DEF SInv, Typed
<1>6. child \in Event /\ start \in Event /\ ev # child /\ ev # start
  <2>1. w.of \in 0 .. MaxIDs /\ 0 \in 0 .. MaxIDs
    BY <1>1, TesterAssumption DEF Workflow
  <2>2. child \in Event /\ start \in Event /\ child.kind = "child" /\ start.kind = "start"
    BY <2>1, EvType
  <2> QED
    BY <2>2
<1> HIDE DEF child, start
<1>7. \A s \in Seq(Event) : Occ(s, {ev}) \in Nat /\ Occ(Append(s, child), {ev}) = Occ(s, {ev})
  <2> TAKE s \in Seq(Event)
  <2>1. Occ(s, {ev}) \in Nat
    BY OccNat
  <2>2. Occ(Append(s, child), {ev}) = Occ(s, {ev}) + (IF child \in {ev} THEN 1 ELSE 0)
    BY <1>6, OccAppend
  <2> QED
    BY <1>6, <2>1, <2>2
<1>8. <<>> \in Seq(Event) /\ Occ(<<>>, {ev}) = 0
  <2>1. <<>> \in Seq(Event) /\ DOMAIN <<>> = {}
    OBVIOUS
  <2> QED
    BY <2>1, OccZero
<1>9. Occ(<<start>>, {ev}) = 0
  <2>1. <<start>> \in Seq(Event) /\ DOMAIN <<start>> = {1} /\ <<start>>[1] = start
    BY <1>6
  <2> DEFINE s == <<start>>
  <2> HIDE DEF s
  <2>2. s \in Seq(Event) /\ \A j \in DOMAIN s : s[j] \notin {ev}
    BY <1>6, <2>1 DEF s
  <2>3. Occ(s, {ev}) = 0
    BY <2>2, OccZero
  <2> QED
    BY <2>3 DEF s
<1>10. ASSUME NEW l \in DOMAIN wf', wf'[l].state = "open"
       PROVE  Occ(wf'[l].pending, {ev}) + F[wf'[l].inst] = IF ev \in wf'[l].waits THEN 1 ELSE 0
  <2>1. CASE l \notin DOMAIN wf
    <3>1. /\ cmd \in {"sub", "continue"}
          /\ wf'[l].inst = IF cmd = "continue" THEN w.inst ELSE Len(wf) + 1
          /\ wf'[l].waits = {} /\ Occ(wf'[l].pending, {ev}) = 0 /\ wf'[l].inst \in Instances
      BY <1>2, <1>5, <1>9, <2>1 DEF Workflow
    <3>2. CASE cmd = "continue"
      <4>1. d = 0
        BY <3>2 DEF ExecuteTask
      <4>2. Begun(w, cmd, d) = {}
        BY <3>2, <4>1 DEF Begun
      <4>3. F[w.inst] = 0
        BY <1>1, <3>2, <4>2
      <4> QED
        BY <3>1, <3>2, <4>3
    <3>3. CASE cmd # "continue"
      <4>1. wf'[l].inst \notin Insts(wf) /\ wf'[l].inst # w.inst
        <5>1. \A m \in DOMAIN wf : wf[m].inst # Len(wf) + 1
          BY <1>5 DEF SInv, Known, Related, Ordered
        <5> QED
          BY <1>1, <3>1, <3>3, <5>1 DEF Insts
      <4>2. F[wf'[l].inst] = 0
        BY <3>1, <4>1
      <4> QED
        BY <3>1, <4>2
    <3> QED
      BY <3>2, <3>3
  <2>2. CASE l = k
    <3>1. /\ wf'[l].inst = w.inst /\ wf'[l].waits = Remains(w, cmd, d, x)
          /\ Ends(cmd) = "open"
          /\ wf'[l].pending = r.pending \/ wf'[l].pending = Append(r.pending, child)
      <4>1. /\ wf'[l].inst = r.inst /\ wf'[l].state = r.state /\ wf'[l].waits = r.waits
            /\ wf'[l].pending = r.pending \/ wf'[l].pending = Append(r.pending, child)
        BY <1>1, <1>2, <2>2
      <4> QED
        BY <1>4, <1>10, <4>1
    <3>2. Occ(wf'[l].pending, {ev}) = 0
      <4>1. r.pending \in Seq(Event) /\ Occ(r.pending, {ev}) = 0
        BY <1>4, <1>8
      <4> DEFINE s == r.pending
      <4>2. /\ s \in Seq(Event) /\ Occ(s, {ev}) = 0
            /\ wf'[l].pending = s \/ wf'[l].pending = Append(s, child)
        BY <3>1, <4>1
      <4> HIDE DEF s
      <4>3. Occ(Append(s, child), {ev}) = Occ(s, {ev})
        BY <1>7, <4>2
      <4>4. CASE wf'[l].pending = s
        BY <4>2, <4>4
      <4>5. CASE wf'[l].pending = Append(s, child)
        BY <4>2, <4>3, <4>5
      <4> QED
        BY <4>2, <4>4, <4>5
    <3>3. ~Closes(cmd)
      BY <3>1 DEF Ends, Closes
    <3>4. w.state = "open"
      BY <1>1, <3>3 DEF Closes
    <3>5. ev \in wf'[l].waits <=> ev \in Left(w, x) \/ ev \in Begun(w, cmd, d)
      BY <3>1, <3>3 DEF Remains
    <3>6. ~(ev \in Left(w, x) /\ ev \in Begun(w, cmd, d))
      <4>1. ev \in Begun(w, cmd, d) => ev.id \in Ids /\ ev.id >= w.next
        BY <1>1, BegunIs
      <4>2. ev \in Left(w, x) => ev.id < w.next
        BY <1>3 DEF Left, Waiting
      <4> QED
        BY <1>1, <4>1, <4>2, TesterAssumption DEF Workflow, Ids
    <3> QED
      BY <3>1, <3>2, <3>4, <3>5, <3>6
  <2>3. CASE l \in DOMAIN wf /\ l # k
    <3>1. /\ wf'[l].inst = wf[l].inst /\ wf'[l].waits = wf[l].waits /\ wf[l].state = "open"
          /\ wf'[l].pending = wf[l].pending \/ wf'[l].pending = Append(wf[l].pending, child)
      BY <1>2, <1>10, <2>3
    <3>2. Occ(wf'[l].pending, {ev}) = Occ(wf[l].pending, {ev})
      BY <1>5, <1>7, <2>3, <3>1 DEF Workflow
    <3>3. wf[l].inst # w.inst
      <4>1. Latest(wf)
        BY DEF SInv, Known, Related, Ordered
      <4>2. l < k \/ k < l
        BY <1>1, <1>5, <2>3
      <4> QED
        BY <1>1, <2>3, <3>1, <4>1, <4>2 DEF Latest
    <3>4. wf[l].inst \in Instances
      BY <1>5, <2>3 DEF Workflow
    <3> QED
      BY <2>3, <3>1, <3>2, <3>3, <3>4 DEF Balanced
  <2> QED
    BY <2>1, <2>2, <2>3
<1> QED
  BY <1>10 DEF Balanced

\* So does a callback that delivers what it takes away elsewhere.
LEMMA DeliveryBalanced ==
    ASSUME NEW ws \in Seq(Workflow), NEW inst \in Insts(ws), NEW e \in Event, Latest(ws),
           NEW ev \in Event, NEW E \in [Instances -> Nat], NEW F \in [Instances -> Nat],
           Balanced(ws, ev, E),
           \A i \in Instances : E[i] = F[i] + (IF i = inst /\ ev = e THEN 1 ELSE 0)
    PROVE  Balanced(sendEvent(ws, inst, e), ev, F)
<1> DEFINE c == Current(ws, inst)
           r == sendEvent(ws, inst, e)
<1>1. /\ c \in DOMAIN ws /\ ws[c].inst = inst
      /\ \A l \in DOMAIN ws : ws[l].inst = inst => l <= c
      /\ DOMAIN ws = 1 .. Len(ws) /\ Len(ws) \in Nat
  BY CurrentIs, LenProperties
<1>2. /\ DOMAIN r = DOMAIN ws
      /\ \A l \in DOMAIN ws :
           /\ r[l].inst = ws[l].inst /\ r[l].state = ws[l].state /\ r[l].waits = ws[l].waits
           /\ r[l].pending = IF l = c THEN Append(ws[l].pending, e) ELSE ws[l].pending
  BY Delivers
<1> HIDE DEF c, r
<1>3. \A l \in DOMAIN ws : ws[l] \in Workflow
  BY <1>1, ElementOfSeq
<1>4. ASSUME NEW l \in DOMAIN ws, ws[l].state = "open"
      PROVE  Occ(r[l].pending, {ev}) + F[r[l].inst] = IF ev \in r[l].waits THEN 1 ELSE 0
  <2>1. /\ Occ(ws[l].pending, {ev}) + E[ws[l].inst] = IF ev \in ws[l].waits THEN 1 ELSE 0
        /\ ws[l].inst \in Instances /\ ws[l].pending \in Seq(Event)
    BY <1>3, <1>4 DEF Balanced, Workflow
  <2>2. /\ Occ(ws[l].pending, {ev}) \in Nat
        /\ Occ(Append(ws[l].pending, e), {ev})
             = Occ(ws[l].pending, {ev}) + (IF e \in {ev} THEN 1 ELSE 0)
    <3> DEFINE s == ws[l].pending
    <3>1. s \in Seq(Event)
      BY <2>1
    <3> HIDE DEF s
    <3>2. Occ(s, {ev}) \in Nat
      BY <3>1, OccNat
    <3>3. Occ(Append(s, e), {ev}) = Occ(s, {ev}) + (IF e \in {ev} THEN 1 ELSE 0)
      BY <3>1, OccAppend
    <3> QED
      BY <3>2, <3>3 DEF s
  <2>3. ws[l].inst = inst <=> l = c
    <3>1. ASSUME ws[l].inst = inst, l # c PROVE FALSE
      <4>1. l < c
        BY <1>1, <3>1
      <4> QED
        BY <1>1, <1>4, <3>1, <4>1 DEF Latest
    <3> QED
      BY <1>1, <3>1
  <2>4. /\ E[ws[l].inst] = F[ws[l].inst] + (IF ws[l].inst = inst /\ ev = e THEN 1 ELSE 0)
        /\ F[ws[l].inst] \in Nat
    <3> DEFINE i == ws[l].inst
    <3>1. i \in Instances
      BY <2>1
    <3> HIDE DEF i
    <3>2. E[i] = F[i] + (IF i = inst /\ ev = e THEN 1 ELSE 0) /\ F[i] \in Nat
      BY <3>1
    <3> QED
      BY <3>2 DEF i
  <2>5. CASE l = c
    <3>1. /\ r[l].pending = Append(ws[l].pending, e)
          /\ r[l].inst = ws[l].inst /\ r[l].waits = ws[l].waits
      BY <1>2, <2>5
    <3>2. Occ(r[l].pending, {ev}) = Occ(ws[l].pending, {ev}) + (IF e \in {ev} THEN 1 ELSE 0)
      BY <2>2, <3>1
    <3>3. E[ws[l].inst] = F[ws[l].inst] + (IF e \in {ev} THEN 1 ELSE 0)
      BY <2>3, <2>4, <2>5
    <3> QED
      BY <2>1, <2>2, <2>4, <3>1, <3>2, <3>3
  <2>6. CASE l # c
    BY <1>2, <2>1, <2>2, <2>3, <2>4, <2>6
  <2> QED
    BY <2>5, <2>6
<1> QED
  BY <1>2, <1>4 DEF Balanced, r


-----------------------------------------------------------------------------
(* Results of activities.                                                  *)

Unsent(i, id) == [inst |-> i, id |-> id, sent |-> FALSE]

\* How often a result for an instance is sent, or still to be sent.
ResultsFor(cs, run, id) ==
    [i \in Instances |-> Occ(cs, {EventFor(i, Ev("result", id))})
                         + (IF Unsent(i, id) \in run THEN 1 ELSE 0)]

Results == \A id \in Ids : Balanced(wf, Ev("result", id), ResultsFor(callbacks, running, id))

LEMMA ResultsForType ==
    ASSUME NEW cs \in Seq(Callback), NEW run, NEW id
    PROVE  /\ ResultsFor(cs, run, id) \in [Instances -> Nat]
           /\ \A i \in Instances :
                /\ Occ(cs, {EventFor(i, Ev("result", id))}) \in Nat
                /\ ResultsFor(cs, run, id)[i] = Occ(cs, {EventFor(i, Ev("result", id))})
                                                + (IF Unsent(i, id) \in run THEN 1 ELSE 0)
<1>1. \A i \in Instances : Occ(cs, {EventFor(i, Ev("result", id))}) \in Nat
  BY OccNat
<1> QED
  BY <1>1 DEF ResultsFor

\* Callbacks that are no such results do not count.
LEMMA ResultsForOther ==
    ASSUME NEW cs \in Seq(Callback), NEW run, NEW id, NEW c \in Callback,
           \A i \in Instances : c # EventFor(i, Ev("result", id))
    PROVE  ResultsFor(Append(cs, c), run, id) = ResultsFor(cs, run, id)
<1>1. ASSUME NEW i \in Instances
      PROVE  Occ(Append(cs, c), {EventFor(i, Ev("result", id))})
               = Occ(cs, {EventFor(i, Ev("result", id))})
  <2> DEFINE T == {EventFor(i, Ev("result", id))}
  <2>1. c \notin T
    OBVIOUS
  <2> HIDE DEF T
  <2>2. Occ(Append(cs, c), T) = Occ(cs, T) + (IF c \in T THEN 1 ELSE 0) /\ Occ(cs, T) \in Nat
    BY OccAppend, OccNat
  <2>3. Occ(Append(cs, c), T) = Occ(cs, T)
    BY <2>1, <2>2
  <2> QED
    BY <2>3 DEF T
<1> QED
  BY <1>1 DEF ResultsFor

LEMMA NoResult ==
    ASSUME NEW id, NEW i
    PROVE  /\ \A j, n : EventFor(j, Ev("child", n)) # EventFor(i, Ev("result", id))
           /\ \A j, n : EventFor(j, Ev("signal", n)) # EventFor(i, Ev("result", id))
           /\ \A kind \in {"fire", "wall"} : \A t : [kind |-> kind, timer |-> t] # EventFor(i, Ev("result", id))
           /\ \A j, n : EventFor(j, Ev("result", n)) = EventFor(i, Ev("result", id)) <=> j = i /\ n = id
<1>1. /\ \A j, e : EventFor(j, e).kind = "event" /\ EventFor(j, e).inst = j /\ EventFor(j, e).event = e
      /\ \A kind, n : Ev(kind, n).kind = kind /\ Ev(kind, n).id = n
      /\ \A kind, t : [kind |-> kind, timer |-> t].kind = kind
  BY DEF EventFor, Ev
<1>2. ASSUME NEW j, NEW n
      PROVE  /\ EventFor(j, Ev("child", n)) # EventFor(i, Ev("result", id))
             /\ EventFor(j, Ev("signal", n)) # EventFor(i, Ev("result", id))
             /\ EventFor(j, Ev("result", n)) = EventFor(i, Ev("result", id)) <=> j = i /\ n = id
  <2>1. Ev("child", n) # Ev("result", id) /\ Ev("signal", n) # Ev("result", id)
    BY <1>1
  <2>2. Ev("result", n) = Ev("result", id) => n = id
    BY <1>1
  <2> QED
    BY <1>1, <2>1, <2>2
<1>3. ASSUME NEW kind \in {"fire", "wall"}, NEW t
      PROVE  [kind |-> kind, timer |-> t] # EventFor(i, Ev("result", id))
  BY <1>1
<1> QED
  BY <1>2, <1>3

LEMMA TaskResults ==
    ASSUME SInv, Results, NEW k \in Tasks, NEW cmd \in CommandKinds, NEW d \in Delays \cup {0},
           NEW x \in 0 .. MaxIDs, ExecuteTask(k, cmd, d, x), NEW id \in Ids
    PROVE  Balanced(wf', Ev("result", id), ResultsFor(callbacks', running', id))
<1> DEFINE w == wf[k]
           n == Num(w, d)
           ev == Ev("result", id)
           E == ResultsFor(callbacks, running, id)
           F == ResultsFor(callbacks', running', id)
<1>1. /\ k \in DOMAIN wf /\ w \in Workflow /\ d \in Nat
      /\ w.next + Cardinality(Begun(w, cmd, d)) <= MaxIDs + 1
  BY Runs
<1>2. callbacks \in Seq(Callback) /\ callbacks' \in Seq(Callback)
  BY ExecuteTaskKnown DEF SInv, Typed
<1>3. E \in [Instances -> Nat] /\ F \in [Instances -> Nat]
  BY <1>2, ResultsForType
<1>4. id \in 0 .. MaxIDs /\ Ids \subseteq 0 .. MaxIDs
  BY TesterAssumption DEF Ids
<1>5. ev \in Event /\ ev.kind = "result" /\ ev.id = id
  BY <1>4, EvType
<1>6. Balanced(wf, ev, E)
  BY DEF Results
<1>7. ASSUME NEW i \in Instances
      PROVE  Occ(callbacks', {EventFor(i, ev)}) = Occ(callbacks, {EventFor(i, ev)})
  <2>1. CASE cmd = "mock"
    <3> DEFINE c == EventFor(w.inst, Ev("child", n))
               T == {EventFor(i, ev)}
    <3>1. callbacks' = Append(callbacks, c)
      BY <2>1 DEF ExecuteTask, Num
    <3>2. c \notin T
      BY NoResult
    <3>3. n \in Ids /\ w.inst \in Instances
      BY <1>1, <2>1, BegunIs DEF Workflow
    <3>4. Ev("child", n) \in Event
      BY <1>4, <3>3, EvType
    <3>5. c \in Callback
      BY <3>3, <3>4, CallbackType
    <3> HIDE DEF c, T
    <3>6. Occ(Append(callbacks, c), T) = Occ(callbacks, T) + (IF c \in T THEN 1 ELSE 0)
          /\ Occ(callbacks, T) \in Nat
      BY <1>2, <3>5, OccAppend, OccNat
    <3>7. Occ(callbacks', T) = Occ(callbacks, T)
      BY <3>1, <3>2, <3>6
    <3> QED
      BY <3>7 DEF T
  <2>2. CASE cmd # "mock"
    BY <2>2 DEF ExecuteTask
  <2> QED
    BY <2>1, <2>2
<1>8. \A i \in Instances : Unsent(i, id) \in running' <=>
        Unsent(i, id) \in running \/ (cmd = "activity" /\ i = w.inst /\ id = n)
  <2>1. running' = IF cmd = "activity" THEN running \cup {Unsent(w.inst, n)} ELSE running
    BY DEF ExecuteTask, Num, Unsent
  <2>2. \A i, j, m : Unsent(i, id) = Unsent(j, m) <=> i = j /\ id = m
    BY DEF Unsent
  <2> HIDE DEF n
  <2> QED
    BY <2>1, <2>2
<1>9. \A i \in Instances :
        /\ E[i] = Occ(callbacks, {EventFor(i, ev)}) + (IF Unsent(i, id) \in running THEN 1 ELSE 0)
        /\ F[i] = Occ(callbacks, {EventFor(i, ev)}) + (IF Unsent(i, id) \in running' THEN 1 ELSE 0)
        /\ Occ(callbacks, {EventFor(i, ev)}) \in Nat
  <2> TAKE i \in Instances
  <2>1. /\ E[i] = Occ(callbacks, {EventFor(i, ev)}) + (IF Unsent(i, id) \in running THEN 1 ELSE 0)
        /\ Occ(callbacks, {EventFor(i, ev)}) \in Nat
    BY <1>2, ResultsForType
  <2>2. F[i] = Occ(callbacks', {EventFor(i, ev)}) + (IF Unsent(i, id) \in running' THEN 1 ELSE 0)
    BY <1>2, ResultsForType
  <2> HIDE DEF E, F
  <2> QED
    BY <1>7, <2>1, <2>2
<1> HIDE DEF E, F
<1>10. \A i \in Instances : i # w.inst => F[i] = E[i]
  BY <1>8, <1>9
<1>11. ASSUME NEW i \in Instances, i \notin Insts(wf) PROVE E[i] = 0
  <2>1. Unsent(i, id) \notin running
    BY <1>11 DEF SInv, Known, ActivitiesIn, Unsent
  <2>2. \A m \in DOMAIN callbacks : callbacks[m] \notin {EventFor(i, ev)}
    <3>1. EventFor(i, ev).kind = "event" /\ EventFor(i, ev).inst = i
      BY DEF EventFor
    <3> QED
      BY <1>11, <3>1 DEF SInv, Known, CallbacksIn, CallbackIn
  <2>3. Occ(callbacks, {EventFor(i, ev)}) = 0
    BY <1>2, <2>2, OccZero
  <2> QED
    BY <1>9, <2>1, <2>3
<1>12. ASSUME w.state = "open"
       PROVE  F[w.inst] = (IF ev \in Left(w, x) THEN 1 ELSE 0)
                          + (IF ev \in Begun(w, cmd, d) THEN 1 ELSE 0)
  <2>1. w.inst \in Instances
    BY <1>1 DEF Workflow
  <2>2. ev # Ev("timer", x)
    BY DEF Ev
  <2>3. Occ(w.pending, {ev}) + E[w.inst] = IF ev \in w.waits THEN 1 ELSE 0
    BY <1>1, <1>6, <1>12 DEF Balanced
  <2>4. E[w.inst] = IF ev \in Left(w, x) THEN 1 ELSE 0
    <3> DEFINE e == E[w.inst]
    <3>1. e \in Nat
      BY <1>3, <2>1
    <3> HIDE DEF e
    <3>2. Occ(w.pending, {ev}) + e = IF ev \in w.waits THEN 1 ELSE 0
      BY <2>3 DEF e
    <3>3. e = IF ev \in Left(w, x) THEN 1 ELSE 0
      BY <1>1, <1>5, <2>2, <3>1, <3>2, LeftDue
    <3> QED
      BY <3>3 DEF e
  <2>5. ev \in Begun(w, cmd, d) <=> cmd = "activity" /\ id = n
    <3>1. \A m : ev # Ev("timer", m) /\ ev # Ev("child", m) /\ (ev = Ev("result", m) <=> id = m)
      BY DEF Ev
    <3>2. CASE cmd = "activity"
      BY <3>1, <3>2 DEF Begun
    <3>3. CASE cmd # "activity"
      BY <3>1, <3>3 DEF Begun
    <3> QED
      BY <3>2, <3>3
  <2>6. cmd = "activity" /\ id = n => ev \notin Left(w, x)
    <3>1. Waiting(w)
      BY <1>1 DEF SInv, Known, Related, Ordered
    <3>2. ev \in Left(w, x) => id < w.next
      BY <1>5, <3>1 DEF Left, Waiting
    <3>3. w.next <= n
      BY <1>1, TesterAssumption DEF Num, Workflow
    <3>4. w.next \in Int /\ n \in Int
      BY <1>1, TesterAssumption DEF Num, Workflow
    <3> HIDE DEF n
    <3> QED
      BY <3>2, <3>3, <3>4
  <2> HIDE DEF n
  <2>7. /\ E[w.inst] = Occ(callbacks, {EventFor(w.inst, ev)}) + (IF Unsent(w.inst, id) \in running THEN 1 ELSE 0)
        /\ F[w.inst] = Occ(callbacks, {EventFor(w.inst, ev)}) + (IF Unsent(w.inst, id) \in running' THEN 1 ELSE 0)
        /\ Occ(callbacks, {EventFor(w.inst, ev)}) \in Nat
        /\ Unsent(w.inst, id) \in running' <=>
             Unsent(w.inst, id) \in running \/ (cmd = "activity" /\ id = n)
    BY <1>8, <1>9, <2>1
  <2> QED
    BY <2>4, <2>5, <2>6, <2>7
<1> HIDE DEF ev
<1>13. Balanced(wf', ev, F)
  BY <1>3, <1>5, <1>6, <1>10, <1>11, <1>12, TaskBalanced
<1> QED
  BY <1>13 DEF ev, F


LEMMA CallbackResults ==
    ASSUME SInv, Results, RunCallback, NEW id \in Ids
    PROVE  Balanced(wf', Ev("result", id), ResultsFor(callbacks', running', id))
<1> DEFINE c == Head(callbacks)
           rest == Tail(callbacks)
           sig == EventFor(1, Ev("signal", 0))
           ev == Ev("result", id)
           E == ResultsFor(callbacks, running, id)
           F == ResultsFor(rest, running, id)
<1>1. /\ callbacks # <<>> /\ c \in Callback /\ running' = running
      /\ \/ UNCHANGED <<wf, callbacks>>
         \/ Again(c) /\ wf' = wf /\ callbacks' = Append(rest, sig)
         \/ /\ ~Again(c) /\ Target(c) \in Insts(wf) /\ Carries(c) \in Event
            /\ wf' = sendEvent(wf, Target(c), Carries(c)) /\ callbacks' = rest
  BY RunCallbackIs
<1>2. callbacks \in Seq(Callback) /\ rest \in Seq(Callback) /\ wf \in Seq(Workflow)
  BY <1>1, Popped DEF SInv, Typed
<1>3. Balanced(wf, ev, E)
  BY DEF Results
<1>4. 0 \in 0 .. MaxIDs /\ 1 \in Instances /\ id \in 0 .. MaxIDs
  BY TesterAssumption DEF Instances, Ids
<1>5. ev \in Event /\ ev.kind = "result"
  BY <1>4, EvType
<1>6. ASSUME NEW i \in Instances
      PROVE  /\ E[i] = F[i] + (IF c = EventFor(i, ev) THEN 1 ELSE 0)
             /\ F[i] \in Nat
  <2> DEFINE T == {EventFor(i, ev)}
  <2>1. /\ E[i] = Occ(callbacks, T) + (IF Unsent(i, id) \in running THEN 1 ELSE 0)
        /\ F[i] = Occ(rest, T) + (IF Unsent(i, id) \in running THEN 1 ELSE 0)
        /\ Occ(rest, T) \in Nat
    <3>1. E[i] = Occ(callbacks, T) + (IF Unsent(i, id) \in running THEN 1 ELSE 0)
      BY <1>2, ResultsForType
    <3>2. /\ F[i] = Occ(rest, T) + (IF Unsent(i, id) \in running THEN 1 ELSE 0)
          /\ Occ(rest, T) \in Nat
      <4>1. F[i] = Occ(rest, T) + (IF Unsent(i, id) \in running THEN 1 ELSE 0)
        BY DEF ResultsFor
      <4> HIDE DEF rest, T, F
      <4>2. Occ(rest, T) \in Nat
        BY <1>2, OccNat
      <4> QED
        BY <4>1, <4>2
    <3> QED
      BY <3>1, <3>2
  <2>2. c \in T <=> c = EventFor(i, ev)
    OBVIOUS
  <2> HIDE DEF T, E, F
  <2>3. Occ(callbacks, T) = Occ(rest, T) + (IF c \in T THEN 1 ELSE 0)
    BY <1>1, <1>2, OccTail
  <2> QED
    BY <2>1, <2>2, <2>3
<1>7. E \in [Instances -> Nat] /\ F \in [Instances -> Nat]
  BY <1>2, ResultsForType
<1>8. CASE UNCHANGED <<wf, callbacks>>
  BY <1>1, <1>3, <1>8
<1>9. CASE Again(c) /\ wf' = wf /\ callbacks' = Append(rest, sig)
  <2>1. sig \in Callback
    BY <1>4, EvType, CallbackType
  <2>2. \A i \in Instances : sig # EventFor(i, ev)
    BY NoResult
  <2>3. \A i \in Instances : c # EventFor(i, ev)
    BY <1>9 DEF Again, Fires, EventFor
  <2> HIDE DEF sig
  <2>4. ResultsFor(callbacks', running', id) = F
    BY <1>1, <1>2, <1>9, <2>1, <2>2, ResultsForOther
  <2>5. E = F
    <3> HIDE DEF E, F, ev
    <3>1. \A i \in Instances : E[i] = F[i]
      BY <1>6, <2>3
    <3> QED
      BY <1>7, <3>1
  <2> QED
    BY <1>3, <1>9, <2>4, <2>5
<1>10. CASE /\ ~Again(c) /\ Target(c) \in Insts(wf) /\ Carries(c) \in Event
            /\ wf' = sendEvent(wf, Target(c), Carries(c)) /\ callbacks' = rest
  <2>1. ASSUME NEW i \in Instances
        PROVE  c = EventFor(i, ev) <=> i = Target(c) /\ ev = Carries(c)
    <3>1. CASE Fires(c)
      <4>1. Carries(c) # ev
        BY <3>1 DEF Carries, Ev
      <4>2. c # EventFor(i, ev)
        BY <3>1 DEF Fires, EventFor
      <4> QED
        BY <4>1, <4>2
    <3>2. CASE ~Fires(c)
      <4>1. Target(c) = c.inst /\ Carries(c) = c.event
        BY <3>2 DEF Target, Carries
      <4>2. c = EventFor(c.inst, c.event)
        BY <1>1, <3>2 DEF Fires, Callback, EventFor
      <4>3. EventFor(i, ev).inst = i /\ EventFor(i, ev).event = ev
        BY DEF EventFor
      <4> HIDE DEF c, ev
      <4> QED
        BY <4>1, <4>2, <4>3
    <3> QED
      BY <3>1, <3>2
  <2>2. \A i \in Instances : E[i] = F[i] + (IF i = Target(c) /\ ev = Carries(c) THEN 1 ELSE 0)
    <3> HIDE DEF E, F, ev, c
    <3> QED
      BY <1>6, <2>1
  <2>3. Latest(wf)
    BY DEF SInv, Known, Related, Ordered
  <2> HIDE DEF E, F, ev, c
  <2>4. Balanced(sendEvent(wf, Target(c), Carries(c)), ev, F)
    BY <1>2, <1>3, <1>5, <1>7, <1>10, <2>2, <2>3, DeliveryBalanced
  <2>5. Balanced(wf', ev, F)
    BY <1>10, <2>4
  <2> QED
    BY <1>1, <1>10, <2>5 DEF ev, F
<1> QED
  BY <1>1, <1>8, <1>9, <1>10

LEMMA ActivityResults ==
    ASSUME SInv, Results, NEW a \in Activities, NEW id \in Ids,
           \/ \E inst \in Instances : ActivitySignals(a, inst)
           \/ ActivityCompletes(a) \/ ActivityEnds(a)
    PROVE  Balanced(wf', Ev("result", id), ResultsFor(callbacks', running', id))
<1>1. /\ callbacks \in Seq(Callback) /\ a \in running /\ wf' = wf
  BY DEF SInv, Typed, ActivitySignals, ActivityCompletes, ActivityEnds
<1>2. Balanced(wf, Ev("result", id), ResultsFor(callbacks, running, id))
  BY DEF Results
<1>3. /\ 0 \in 0 .. MaxIDs /\ a.id \in 0 .. MaxIDs /\ a.inst \in Instances /\ a.sent \in BOOLEAN
      /\ a = [inst |-> a.inst, id |-> a.id, sent |-> a.sent]
  BY TesterAssumption DEF Activities, Ids
<1>4. \A i : Unsent(i, id) = a <=> i = a.inst /\ id = a.id /\ ~a.sent
  <2> TAKE i
  <2>1. Unsent(i, id).inst = i /\ Unsent(i, id).id = id /\ Unsent(i, id).sent = FALSE
    BY DEF Unsent
  <2> QED
    BY <1>3, <2>1 DEF Unsent
<1>5. ASSUME NEW inst \in Instances, ActivitySignals(a, inst)
      PROVE  ResultsFor(callbacks', running', id) = ResultsFor(callbacks, running, id)
  <2> DEFINE c == EventFor(inst, Ev("signal", 0))
  <2>1. callbacks' = Append(callbacks, c) /\ running' = running
    BY <1>5 DEF ActivitySignals
  <2>2. c \in Callback /\ \A i \in Instances : c # EventFor(i, Ev("result", id))
    BY <1>3, EvType, CallbackType, NoResult
  <2> HIDE DEF c
  <2> QED
    BY <1>1, <2>1, <2>2, ResultsForOther
<1>6. CASE ActivityEnds(a)
  <2>1. callbacks' = callbacks /\ running' = running \ {a} /\ a.sent
    BY <1>6 DEF ActivityEnds
  <2>2. \A i \in Instances : Unsent(i, id) \in running' <=> Unsent(i, id) \in running
    BY <1>4, <2>1
  <2>3. ResultsFor(callbacks', running', id) = ResultsFor(callbacks, running, id)
    BY <2>1, <2>2 DEF ResultsFor
  <2> QED
    BY <1>1, <1>2, <2>3
<1>7. CASE ActivityCompletes(a)
  <2> DEFINE c == EventFor(a.inst, Ev("result", a.id))
             b == [a EXCEPT !.sent = TRUE]
  <2>1. /\ callbacks' = Append(callbacks, c) /\ running' = (running \ {a}) \cup {b} /\ ~a.sent
    BY <1>7 DEF ActivityCompletes, ResultOf
  <2>2. c \in Callback
    BY <1>3, EvType, CallbackType
  <2>3. \A i : Unsent(i, id) # b
    <3>1. b.sent = TRUE
      BY <1>3
    <3> HIDE DEF b
    <3> QED
      BY <3>1 DEF Unsent
  <2>4. \A i \in Instances : Unsent(i, id) \in running' <=>
          Unsent(i, id) \in running /\ ~(i = a.inst /\ id = a.id)
    BY <1>4, <2>1, <2>3
  <2>5. \A i \in Instances : i = a.inst /\ id = a.id => Unsent(i, id) \in running
    BY <1>1, <1>4, <2>1
  <2>6. ASSUME NEW i \in Instances
        PROVE  ResultsFor(callbacks', running', id)[i] = ResultsFor(callbacks, running, id)[i]
    <3> DEFINE T == {EventFor(i, Ev("result", id))}
    <3>1. c \in T <=> i = a.inst /\ id = a.id
      BY NoResult
    <3> HIDE DEF c, b
    <3>2. callbacks' \in Seq(Callback)
      BY <1>1, <2>1, <2>2, AppendProperties
    <3>3. /\ ResultsFor(callbacks, running, id)[i]
               = Occ(callbacks, T) + (IF Unsent(i, id) \in running THEN 1 ELSE 0)
          /\ ResultsFor(callbacks', running', id)[i]
               = Occ(callbacks', T) + (IF Unsent(i, id) \in running' THEN 1 ELSE 0)
          /\ Occ(callbacks, T) \in Nat
      <4>1. /\ ResultsFor(callbacks, running, id)[i]
                 = Occ(callbacks, T) + (IF Unsent(i, id) \in running THEN 1 ELSE 0)
            /\ Occ(callbacks, T) \in Nat
        BY <1>1, ResultsForType
      <4>2. ResultsFor(callbacks', running', id)[i]
               = Occ(callbacks', T) + (IF Unsent(i, id) \in running' THEN 1 ELSE 0)
        BY <3>2, ResultsForType
      <4> QED
        BY <4>1, <4>2
    <3> HIDE DEF T
    <3>4. Occ(callbacks', T) = Occ(callbacks, T) + (IF c \in T THEN 1 ELSE 0)
      BY <1>1, <2>1, <2>2, OccAppend
    <3> QED
      BY <2>4, <2>5, <3>1, <3>3, <3>4
  <2>7. ResultsFor(callbacks', running', id) = ResultsFor(callbacks, running, id)
    <3> HIDE DEF b, c
    <3>1. callbacks' \in Seq(Callback)
      BY <1>1, <2>1, <2>2, AppendProperties
    <3>2. /\ ResultsFor(callbacks', running', id) \in [Instances -> Nat]
          /\ ResultsFor(callbacks, running, id) \in [Instances -> Nat]
      BY <1>1, <3>1, ResultsForType
    <3> QED
      BY <2>6, <3>2
  <2> QED
    BY <1>1, <1>2, <2>7
<1> QED
  BY <1>1, <1>2, <1>5, <1>6, <1>7

LEMMA ResultsStep == SInv /\ Results /\ [Next]_vars => Results'
<1> SUFFICES ASSUME SInv, Results, [Next]_vars, NEW id \in Ids
             PROVE  Balanced(wf', Ev("result", id), ResultsFor(callbacks', running', id))
  BY DEF Results
<1> DEFINE Goal == Balanced(wf', Ev("result", id), ResultsFor(callbacks', running', id))
<1>1. callbacks \in Seq(Callback) /\ timers \in Seq(Timer) /\ late \in Seq(Timer)
  BY DEF SInv, Typed
<1>2. Balanced(wf, Ev("result", id), ResultsFor(callbacks, running, id))
  BY DEF Results
<1>3. ASSUME NEW kind \in {"fire", "wall"}, NEW t \in Timer, wf' = wf, running' = running,
             callbacks' = Append(callbacks, [kind |-> kind, timer |-> t])
      PROVE  Goal
  <2> DEFINE c == [kind |-> kind, timer |-> t]
  <2>1. c \in Callback /\ \A i \in Instances : c # EventFor(i, Ev("result", id))
    BY CallbackType, NoResult
  <2>2. callbacks' = Append(callbacks, c)
    BY <1>3
  <2> HIDE DEF c
  <2>3. ResultsFor(callbacks', running', id) = ResultsFor(callbacks, running, id)
    BY <1>1, <1>3, <2>1, <2>2, ResultsForOther
  <2> QED
    BY <1>2, <1>3, <2>3
<1>4. CASE UNCHANGED <<wf, callbacks, running>>
  BY <1>2, <1>4
<1>5. CASE \/ EndPass \/ PollNothing \/ Blocked \/ WallClockFires \/ UNCHANGED vars
  BY <1>4, <1>5 DEF EndPass, PollNothing, Blocked, WallClockFires, vars
<1>6. CASE fireTimer
  <2>1. CASE timers = <<>> \/ newTimerMode # "TimeTravel"
    BY <1>4, <1>6, <2>1 DEF fireTimer, newTimerMode
  <2>2. CASE timers # <<>> /\ newTimerMode = "TimeTravel"
    <3>1. /\ callbacks' = Append(callbacks, [kind |-> "fire", timer |-> Head(timers)])
          /\ wf' = wf /\ running' = running
      BY <1>6, <2>2 DEF fireTimer
    <3>2. Head(timers) \in Timer
      BY <1>1, <2>2, Popped
    <3> QED
      BY <1>3, <3>1, <3>2
  <2> QED
    BY <2>1, <2>2
<1>7. CASE WallClockSends
  <2>1. /\ callbacks' = Append(callbacks, [kind |-> "wall", timer |-> Head(late)])
        /\ wf' = wf /\ running' = running /\ late # <<>>
    BY <1>7 DEF WallClockSends
  <2>2. Head(late) \in Timer
    BY <1>1, <2>1, Popped
  <2> QED
    BY <1>3, <2>1, <2>2
<1>8. ASSUME NEW k \in Tasks, NEW cmd \in CommandKinds, NEW d \in Delays \cup {0},
             NEW x \in 0 .. MaxIDs, ExecuteTask(k, cmd, d, x)
      PROVE  Goal
  BY <1>8, TaskResults
<1>9. CASE RunCallback
  BY <1>9, CallbackResults
<1>10. ASSUME NEW a \in Activities,
              \/ \E inst \in Instances : ActivitySignals(a, inst)
              \/ ActivityCompletes(a) \/ ActivityEnds(a)
       PROVE  Goal
  BY <1>10, ActivityResults
<1> QED
  BY <1>5, <1>6, <1>7, <1>8, <1>9, <1>10 DEF Next, Execute

LEMMA ResultsInit == Init => Results
<1> SUFFICES ASSUME Init, NEW id \in Ids, NEW l \in DOMAIN wf
             PROVE  /\ ResultsFor(callbacks, running, id)[wf[l].inst] = 0
                    /\ Occ(wf[l].pending, {Ev("result", id)}) = 0
                    /\ Ev("result", id) \notin wf[l].waits
  BY DEF Results, Balanced
<1>1. /\ wf[l].inst = 1 /\ wf[l].waits = {} /\ wf[l].pending = <<Ev("start", 0)>>
      /\ callbacks = <<>> /\ running = {}
  BY DEF Init, NewWorkflow
<1>2. callbacks \in Seq(Callback) /\ DOMAIN callbacks = {} /\ 1 \in Instances
  BY <1>1, TesterAssumption DEF Instances
<1>3. Occ(callbacks, {EventFor(1, Ev("result", id))}) = 0
  BY <1>2, OccZero
<1>4. ResultsFor(callbacks, running, id)[1] = 0
  <2>1. ResultsFor(callbacks, running, id)[1]
          = Occ(callbacks, {EventFor(1, Ev("result", id))})
            + (IF Unsent(1, id) \in running THEN 1 ELSE 0)
    BY <1>2 DEF ResultsFor
  <2>2. Unsent(1, id) \notin running
    BY <1>1
  <2> QED
    BY <1>3, <2>1, <2>2
<1>5. Occ(wf[l].pending, {Ev("result", id)}) = 0
  <2> DEFINE s == <<Ev("start", 0)>>
  <2>1. /\ s \in Seq({Ev("start", 0)}) /\ DOMAIN s = {1} /\ s[1] = Ev("start", 0)
        /\ Ev("start", 0) # Ev("result", id)
    BY DEF Ev
  <2> HIDE DEF s
  <2>2. \A j \in DOMAIN s : s[j] \notin {Ev("result", id)}
    BY <2>1
  <2>3. Occ(s, {Ev("result", id)}) = 0
    BY <2>1, <2>2, OccZero
  <2> QED
    BY <1>1, <2>3 DEF s
<1> QED
  BY <1>1, <1>4, <1>5

(***************************************************************************)
(* The result of an activity is on its way to the workflow that waits for  *)
(* it exactly once: with the goroutine that still runs it, in the          *)
(* callbacks channel or among the workflow's pending events, whatever      *)
(* timers, signals, sub-workflows and continuations come in between        *)
(* (tester.scheduleActivity, sendEvent).                                   *)
(***************************************************************************)
THEOREM ResultsAreConserved == Spec => []ResultsConserved
<1>1. SInv /\ Results => ResultsConserved
  <2> SUFFICES ASSUME SInv, Results, NEW k \in DOMAIN wf, NEW id \in Ids,
                      Ev("result", id) \in wf[k].waits
               PROVE  OnItsWay(k, Ev("result", id))
                      + Count({a \in running : a.inst = wf[k].inst /\ a.id = id /\ ~a.sent}) = 1
    BY DEF ResultsConserved
  <2> DEFINE ev == Ev("result", id)
             i == wf[k].inst
             A == {a \in running : a.inst = i /\ a.id = id /\ ~a.sent}
             B == {c \in DOMAIN callbacks :
                     callbacks[c].kind = "event" /\ callbacks[c].inst = i /\ callbacks[c].event = ev}
             P == {l \in DOMAIN wf[k].pending : wf[k].pending[l] = ev}
  <2>1. /\ wf[k] \in Workflow /\ callbacks \in Seq(Callback) /\ running \subseteq Activities
    BY LenProperties, ElementOfSeq DEF SInv, Typed
  <2>2. i \in Instances /\ wf[k].state = "open" /\ wf[k].pending \in Seq(Event)
    BY <2>1 DEF Workflow, SInv, Known, Related, Ordered, Waiting
  <2>3. Occ(wf[k].pending, {ev}) + ResultsFor(callbacks, running, id)[i] = 1
    BY <2>2 DEF Results, Balanced
  <2>4. /\ ResultsFor(callbacks, running, id)[i]
             = Occ(callbacks, {EventFor(i, ev)}) + (IF Unsent(i, id) \in running THEN 1 ELSE 0)
        /\ Occ(callbacks, {EventFor(i, ev)}) \in Nat
    BY <2>1, <2>2, ResultsForType
  <2>5. Occ(wf[k].pending, {ev}) = Cardinality(P) /\ Cardinality(P) \in Nat
    <3>1. P = {l \in DOMAIN wf[k].pending : wf[k].pending[l] \in {ev}}
      OBVIOUS
    <3>2. Occ(wf[k].pending, {ev}) \in Nat
      BY <2>2, OccNat
    <3> QED
      BY <3>1, <3>2 DEF Occ
  <2>6. Occ(callbacks, {EventFor(i, ev)}) = Cardinality(B)
    <3>1. ASSUME NEW c \in DOMAIN callbacks
          PROVE  callbacks[c] = EventFor(i, ev) <=>
                   callbacks[c].kind = "event" /\ callbacks[c].inst = i /\ callbacks[c].event = ev
      <4>1. callbacks[c] \in Callback
        BY <2>1, LenProperties, ElementOfSeq
      <4> HIDE DEF ev, i
      <4> QED
        BY <4>1 DEF Callback, EventFor
    <3>2. B = {c \in DOMAIN callbacks : callbacks[c] \in {EventFor(i, ev)}}
      BY <3>1
    <3> QED
      BY <3>2 DEF Occ
  <2>7. Cardinality(A) = IF Unsent(i, id) \in running THEN 1 ELSE 0
    <3>1. \A a \in running : a.inst = i /\ a.id = id /\ ~a.sent <=> a = Unsent(i, id)
      <4> HIDE DEF i
      <4> QED
        BY <2>1 DEF Activities, Unsent
    <3>2. A = IF Unsent(i, id) \in running THEN {Unsent(i, id)} ELSE {}
      BY <3>1
    <3> HIDE DEF A
    <3> QED
      BY <3>2, FS_EmptySet, FS_Singleton
  <2>8. OnItsWay(k, ev) = Cardinality(P) + Cardinality(B)
    BY DEF OnItsWay, Count
  <2>9. Count(A) = Cardinality(A)
    BY DEF Count
  <2> HIDE DEF A, B, P, ev, i
  <2>10. OnItsWay(k, ev) + Count(A) = 1
    BY <2>3, <2>4, <2>5, <2>6, <2>7, <2>8, <2>9
  <2> QED
    BY <2>10 DEF A, ev, i
<1>2. SInv /\ Results /\ [Next]_vars => (SInv /\ Results)'
  BY StepSInv, ResultsStep
<1> QED
  BY <1>1, <1>2, InitSInv, ResultsInit, PTL DEF Spec


-----------------------------------------------------------------------------
(* Timers, in a test without activities.                                   *)

Named(i, id) == {t \in Timer : t.inst = i /\ t.id = id}

FireOf(i, id) == {c \in Callback : c.kind = "fire" /\ c.timer.inst = i /\ c.timer.id = id}

\* How often a timer of an instance is scheduled, or fired and not delivered.
TimersFor(cs, ts, id) ==
    [i \in Instances |-> Occ(ts, Named(i, id)) + Occ(cs, FireOf(i, id))]

\* The callback of a timer that has fired is alone, and run next.
Quiet ==
    /\ running = {} /\ armed = NoTimer /\ late = <<>> /\ forgotten = <<>>
    /\ \A c \in DOMAIN callbacks :
         /\ callbacks[c].kind # "wall"
         /\ callbacks[c].kind = "fire" => pc = "poll" /\ Len(callbacks) = 1
         /\ callbacks[c].kind = "event" => callbacks[c].event.kind # "timer"
    /\ pc = "fire" => callbacks = <<>>

TravelTimers == \A id \in Ids : Balanced(wf, Ev("timer", id), TimersFor(callbacks, timers, id))

LEMMA TimersForType ==
    ASSUME NEW cs \in Seq(Callback), NEW ts \in Seq(Timer), NEW id
    PROVE  /\ TimersFor(cs, ts, id) \in [Instances -> Nat]
           /\ \A i \in Instances :
                /\ Occ(ts, Named(i, id)) \in Nat /\ Occ(cs, FireOf(i, id)) \in Nat
                /\ TimersFor(cs, ts, id)[i] = Occ(ts, Named(i, id)) + Occ(cs, FireOf(i, id))
<1>1. \A i \in Instances : Occ(ts, Named(i, id)) \in Nat /\ Occ(cs, FireOf(i, id)) \in Nat
  BY OccNat
<1> QED
  BY <1>1 DEF TimersFor

LEMMA QuietTask ==
    ASSUME SInv, Quiet, "activity" \notin menu, NEW k \in Tasks, NEW cmd \in CommandKinds,
           NEW d \in Delays \cup {0}, NEW x \in 0 .. MaxIDs, ExecuteTask(k, cmd, d, x)
    PROVE  Quiet'
<1> DEFINE n == Num(wf[k], d)
           child == EventFor(wf[k].inst, Ev("child", n))
<1>1. /\ pc = "pass" /\ pc' = pc /\ cmd # "activity"
      /\ running' = running /\ armed' = armed /\ late' = late /\ forgotten' = forgotten
      /\ callbacks' = IF cmd = "mock" THEN Append(callbacks, child) ELSE callbacks
  BY DEF ExecuteTask, Num, wall
<1>2. callbacks \in Seq(Callback)
  BY DEF SInv, Typed
<1>3. \A c \in DOMAIN callbacks' :
        \/ c \in DOMAIN callbacks /\ callbacks'[c] = callbacks[c]
        \/ callbacks'[c] = child
  <2>1. CASE cmd = "mock"
    <3>1. /\ wf[k] \in Workflow /\ d \in Nat
          /\ wf[k].next + Cardinality(Begun(wf[k], cmd, d)) <= MaxIDs + 1
      BY Runs
    <3>2. n \in 0 .. MaxIDs /\ wf[k].inst \in Instances
      <4>1. n \in Ids
        BY <2>1, <3>1, BegunIs
      <4>2. Ids \subseteq 0 .. MaxIDs
        BY TesterAssumption DEF Ids
      <4> QED
        BY <3>1, <4>1, <4>2 DEF Workflow
    <3>3. child \in Callback
      BY <3>2, EvType, CallbackType
    <3> HIDE DEF child
    <3>4. callbacks' = Append(callbacks, child)
      BY <1>1, <2>1
    <3> QED
      BY <1>2, <3>3, <3>4, Appended
  <2>2. CASE cmd # "mock"
    BY <1>1, <2>2
  <2> QED
    BY <2>1, <2>2
<1>4. child.kind = "event" /\ child.event.kind = "child"
  BY DEF EventFor, Ev
<1> HIDE DEF child
<1> QED
  BY <1>1, <1>3, <1>4 DEF Quiet

LEMMA QuietCallback ==
    ASSUME SInv, Quiet, RunCallback
    PROVE  /\ Quiet'
           /\ Head(callbacks).kind \in {"fire", "event"}
           /\ Head(callbacks).kind = "event" => Head(callbacks).event.kind # "timer"
           /\ timers' = timers
<1> DEFINE c == Head(callbacks)
           rest == Tail(callbacks)
           sig == EventFor(1, Ev("signal", 0))
<1>1. /\ callbacks # <<>> /\ c \in Callback
      /\ late' = late /\ running' = running
      /\ \/ c.kind = "wall"
         \/ /\ timers' = timers /\ UNCHANGED <<armed, forgotten>>
            /\ pc' \in {"poll", "pass"}
            /\ callbacks' = Append(rest, sig) \/ callbacks' = rest
  BY RunCallbackIs
<1>2. /\ callbacks \in Seq(Callback) /\ rest \in Seq(Callback) /\ c = callbacks[1]
      /\ 1 \in DOMAIN callbacks /\ 1 \in 1 .. Len(callbacks) /\ LeavesOut(callbacks, 1, rest)
      /\ Len(callbacks) \in Nat
  BY <1>1, Popped, LenProperties DEF SInv, Typed
<1>3. c.kind # "wall"
  BY <1>2 DEF Quiet
<1>4. c.kind \in {"fire", "event"}
  <2> HIDE DEF c
  <2> QED
    BY <1>1, <1>3 DEF Callback
<1> HIDE DEF rest, c
<1>5. \A m \in DOMAIN rest : \E j \in DOMAIN callbacks :
        rest[m] = callbacks[j] /\ callbacks[j].kind # "fire"
  <2> TAKE m \in DOMAIN rest
  <2>1. PICK j \in DOMAIN callbacks : rest[m] = callbacks[j]
    BY <1>2, LeftOver
  <2>2. Len(callbacks) # 1
    <3>1. DOMAIN rest = 1 .. Len(rest) /\ Len(rest) \in Nat
      BY <1>2, LenProperties
    <3> QED
      BY <1>2, <3>1 DEF LeavesOut
  <2> QED
    BY <2>1, <2>2 DEF Quiet
<1>6. sig \in Callback /\ sig.kind = "event" /\ sig.event.kind = "signal"
  <2>1. 0 \in 0 .. MaxIDs /\ 1 \in Instances
    BY TesterAssumption DEF Instances
  <2>2. Ev("signal", 0) \in Event /\ Ev("signal", 0).kind = "signal"
    BY <2>1, EvType
  <2> QED
    BY <2>1, <2>2, CallbackType
<1> HIDE DEF sig
<1>7. \A m \in DOMAIN callbacks' :
        (m \in DOMAIN rest /\ callbacks'[m] = rest[m]) \/ callbacks'[m] = sig
  <2>1. \A m \in DOMAIN Append(rest, sig) :
          (m \in DOMAIN rest /\ Append(rest, sig)[m] = rest[m]) \/ Append(rest, sig)[m] = sig
    BY <1>2, <1>6, Appended
  <2> QED
    BY <1>1, <1>3, <2>1
<1>8. \A m \in DOMAIN callbacks' :
        /\ callbacks'[m].kind # "wall" /\ callbacks'[m].kind # "fire"
        /\ callbacks'[m].kind = "event" => callbacks'[m].event.kind # "timer"
  <2> TAKE m \in DOMAIN callbacks'
  <2>1. CASE callbacks'[m] = sig
    BY <1>6, <2>1
  <2>2. CASE m \in DOMAIN rest /\ callbacks'[m] = rest[m]
    BY <1>5, <2>2 DEF Quiet
  <2> QED
    BY <1>7, <2>1, <2>2
<1>9. Quiet'
  BY <1>1, <1>3, <1>8 DEF Quiet
<1> QED
  BY <1>1, <1>2, <1>3, <1>4, <1>9 DEF c, Quiet

LEMMA QuietFires ==
    ASSUME SInv, Quiet, fireTimer
    PROVE  /\ Quiet' /\ wf' = wf
           /\ \/ UNCHANGED <<timers, callbacks>>
              \/ /\ timers # <<>> /\ timers' = Tail(timers)
                 /\ callbacks' = Append(callbacks, [kind |-> "fire", timer |-> Head(timers)])
<1>1. /\ pc = "fire" /\ callbacks = <<>> /\ newTimerMode = "TimeTravel"
      /\ wf' = wf /\ running' = running
  BY DEF fireTimer, Quiet, newTimerMode
<1>2. CASE timers = <<>>
  <2>1. /\ pc' = "waiting" /\ callbacks' = callbacks /\ timers' = timers
        /\ armed' = armed /\ late' = late /\ forgotten' = forgotten
    BY <1>2 DEF fireTimer, wall
  <2> QED
    BY <1>1, <2>1 DEF Quiet
<1>3. CASE timers # <<>>
  <2> DEFINE c == [kind |-> "fire", timer |-> Head(timers)]
  <2>1. /\ pc' = "poll" /\ callbacks' = Append(callbacks, c) /\ timers' = Tail(timers)
        /\ armed' = armed \/ armed' = NoTimer
        /\ late' = late /\ forgotten' = forgotten
    BY <1>1, <1>3 DEF fireTimer
  <2>2. c.kind = "fire"
    OBVIOUS
  <2>3. callbacks' = <<c>>
    BY <1>1, <2>1
  <2> HIDE DEF c
  <2>4. Len(callbacks') = 1 /\ \A m \in DOMAIN callbacks' : callbacks'[m] = c
    BY <2>3
  <2>5. Quiet'
    BY <1>1, <2>1, <2>2, <2>4 DEF Quiet
  <2> QED
    BY <1>1, <1>3, <2>1, <2>5 DEF c
<1> QED
  BY <1>2, <1>3


\* A task cancels the timer x, if it is scheduled, and schedules its own.
LEMMA TaskTimers ==
    ASSUME SInv, NEW k \in Tasks, NEW cmd \in CommandKinds, NEW d \in Delays \cup {0},
           NEW x \in 0 .. MaxIDs, ExecuteTask(k, cmd, d, x), NEW i \in Instances, NEW id \in Ids
    PROVE  LET w == wf[k]
               started == IF d # 0 /\ i = w.inst /\ id = w.next THEN 1 ELSE 0
               before == Occ(timers, Named(i, id))
               after == Occ(timers', Named(i, id))
           IN
           /\ before \in Nat
           /\ ~(i = w.inst /\ id = x) => after = before + started
           /\ i = w.inst /\ id = x => /\ before = 0 => after = started
                                      /\ before # 0 => after + 1 = before + started
<1> DEFINE w == wf[k]
           t == [inst |-> w.inst, id |-> w.next, at |-> clock + d]
           r == cancelTimer(timers, w.inst, x)
           c == IF x = 0 THEN timers ELSE r
           T == Named(i, id)
           started == IF d # 0 /\ i = w.inst /\ id = w.next THEN 1 ELSE 0
<1>1. timers' = IF d = 0 THEN c ELSE scheduleTimer(c, t)
  BY DEF ExecuteTask
<1>2. timers \in Seq(Timer) /\ clock \in Nat
  BY DEF SInv, Typed
<1>3. /\ w \in Workflow /\ d \in Nat
      /\ w.next + Cardinality(Begun(w, cmd, d)) <= MaxIDs + 1
  BY Runs
<1>4. Occ(timers, T) \in Nat
  BY <1>2, OccNat
<1>5. id # 0
  BY DEF Ids
<1>6. \A m \in DOMAIN timers : timers[m] \in Timer
  BY <1>2, LenProperties, ElementOfSeq
<1>7. \A m \in DOMAIN timers : timers[m] \in T <=> timers[m].inst = i /\ timers[m].id = id
  BY <1>6 DEF Named
<1>8. /\ c \in Seq(Timer) /\ Occ(c, T) \in Nat
      /\ ~(i = w.inst /\ id = x) => Occ(c, T) = Occ(timers, T)
      /\ i = w.inst /\ id = x => /\ Occ(timers, T) = 0 => Occ(c, T) = 0
                                 /\ Occ(timers, T) # 0 => Occ(c, T) + 1 = Occ(timers, T)
  <2>1. CASE x = 0
    BY <1>2, <1>4, <1>5, <2>1
  <2>2. CASE x # 0
    <3>1. c = r
      BY <2>2
    <3>2. \/ /\ r = timers
             /\ \A m \in DOMAIN timers : ~(timers[m].inst = w.inst /\ timers[m].id = x)
          \/ \E j \in 1 .. Len(timers) :
               /\ timers[j].inst = w.inst /\ timers[j].id = x
               /\ r \in Seq(Timer) /\ LeavesOut(timers, j, r)
      BY <1>2, Cancels
    <3> HIDE DEF r, c, w
    <3>3. CASE /\ r = timers
               /\ \A m \in DOMAIN timers : ~(timers[m].inst = w.inst /\ timers[m].id = x)
      <4>1. i = w.inst /\ id = x => \A m \in DOMAIN timers : timers[m] \notin T
        BY <1>7, <3>3
      <4> HIDE DEF T
      <4>2. i = w.inst /\ id = x => Occ(timers, T) = 0
        BY <1>2, <4>1, OccZero
      <4> QED
        BY <1>2, <1>4, <3>1, <3>3, <4>2
    <3>4. ASSUME NEW j \in 1 .. Len(timers), timers[j].inst = w.inst, timers[j].id = x,
                 r \in Seq(Timer), LeavesOut(timers, j, r)
          PROVE  /\ c \in Seq(Timer) /\ Occ(c, T) \in Nat
                 /\ ~(i = w.inst /\ id = x) => Occ(c, T) = Occ(timers, T)
                 /\ i = w.inst /\ id = x =>
                      /\ Occ(timers, T) = 0 => Occ(c, T) = 0
                      /\ Occ(timers, T) # 0 => Occ(c, T) + 1 = Occ(timers, T)
      <4>1. timers[j] \in T <=> i = w.inst /\ id = x
        BY <1>2, <1>7, <3>4, LenProperties
      <4> HIDE DEF T
      <4>2. Occ(timers, T) = Occ(r, T) + (IF timers[j] \in T THEN 1 ELSE 0) /\ Occ(r, T) \in Nat
        <5>1. Occ(r, T) \in Nat
          BY <3>4, OccNat
        <5>2. Occ(timers, T) = Occ(r, T) + (IF timers[j] \in T THEN 1 ELSE 0)
          BY <1>2, <3>4, OccLeavesOut
        <5> QED
          BY <5>1, <5>2
      <4> QED
        BY <3>1, <3>4, <4>1, <4>2
    <3> QED
      BY <3>2, <3>3, <3>4
  <2> QED
    BY <2>1, <2>2
<1> HIDE DEF c
<1>9. Occ(timers', T) = Occ(c, T) + started
  <2>1. CASE d = 0
    BY <1>1, <1>8, <2>1
  <2>2. CASE d # 0
    <3>1. w.next \in Ids
      BY <1>3, <2>2, BegunIs
    <3>2. w.next \in 0 .. MaxIDs /\ w.inst \in 0 .. MaxWorkflows /\ clock + d \in Nat
      <4>1. Ids \subseteq 0 .. MaxIDs /\ Instances \subseteq 0 .. MaxWorkflows
        BY TesterAssumption DEF Ids, Instances
      <4>2. w.inst \in Instances
        BY <1>3 DEF Workflow
      <4>3. clock + d \in Nat
        BY <1>2, <1>3
      <4> QED
        BY <3>1, <4>1, <4>2, <4>3
    <3> HIDE DEF w
    <3>3. t \in Timer /\ t.inst = w.inst /\ t.id = w.next
      BY <3>2 DEF Timer
    <3> HIDE DEF t
    <3>4. t \in T <=> i = w.inst /\ id = w.next
      BY <3>3 DEF Named
    <3> HIDE DEF T
    <3>5. Occ(scheduleTimer(c, t), T) = Occ(c, T) + (IF t \in T THEN 1 ELSE 0)
      BY <1>8, <3>3, Scheduled
    <3> QED
      BY <1>1, <2>2, <3>4, <3>5
  <2> QED
    BY <2>1, <2>2
<1> HIDE DEF T
<1>10. /\ Occ(timers, T) \in Nat
       /\ ~(i = w.inst /\ id = x) => Occ(timers', T) = Occ(timers, T) + started
       /\ i = w.inst /\ id = x => /\ Occ(timers, T) = 0 => Occ(timers', T) = started
                                  /\ Occ(timers, T) # 0 => Occ(timers', T) + 1 = Occ(timers, T) + started
  <2>1. started \in {0, 1}
    OBVIOUS
  <2> HIDE DEF started, w
  <2> QED
    BY <1>4, <1>8, <1>9, <2>1
<1> QED
  BY <1>10 DEF T

LEMMA TaskTravel ==
    ASSUME SInv, Quiet, TravelTimers, "activity" \notin menu, NEW k \in Tasks,
           NEW cmd \in CommandKinds, NEW d \in Delays \cup {0}, NEW x \in 0 .. MaxIDs,
           ExecuteTask(k, cmd, d, x), NEW id \in Ids
    PROVE  Balanced(wf', Ev("timer", id), TimersFor(callbacks', timers', id))
<1> DEFINE w == wf[k]
           ev == Ev("timer", id)
           E == TimersFor(callbacks, timers, id)
           F == TimersFor(callbacks', timers', id)
<1>1. /\ k \in DOMAIN wf /\ w \in Workflow /\ d \in Nat
  BY Runs
<1>2. /\ callbacks \in Seq(Callback) /\ callbacks' \in Seq(Callback)
      /\ timers \in Seq(Timer) /\ timers' \in Seq(Timer)
  BY ExecuteTaskKnown DEF SInv, Typed
<1>3. E \in [Instances -> Nat] /\ F \in [Instances -> Nat]
  BY <1>2, TimersForType
<1>4. id \in 0 .. MaxIDs /\ id # 0
  BY TesterAssumption DEF Ids
<1>5. ev \in Event /\ ev.kind = "timer" /\ ev.id = id
  BY <1>4, EvType
<1>6. Balanced(wf, ev, E)
  BY DEF TravelTimers
<1>7. pc = "pass" /\ pc' = "pass"
  BY DEF ExecuteTask
<1>8. \A i \in Instances : E[i] = Occ(timers, Named(i, id)) /\ F[i] = Occ(timers', Named(i, id))
  <2> TAKE i \in Instances
  <2> DEFINE T == FireOf(i, id)
  <2>1. \A m \in DOMAIN callbacks : callbacks[m] \notin T
    BY <1>7 DEF Quiet, FireOf
  <2>2. \A m \in DOMAIN callbacks' : callbacks'[m] \notin T
    BY <1>7, QuietTask DEF Quiet, FireOf
  <2> HIDE DEF T
  <2>3. Occ(callbacks, T) = 0 /\ Occ(callbacks', T) = 0
    BY <1>2, <2>1, <2>2, OccZero
  <2>4. E[i] = Occ(timers, Named(i, id)) + Occ(callbacks, T) /\ Occ(timers, Named(i, id)) \in Nat
    BY <1>2, TimersForType DEF T
  <2>5. F[i] = Occ(timers', Named(i, id)) + Occ(callbacks', T) /\ Occ(timers', Named(i, id)) \in Nat
    BY <1>2, TimersForType DEF T
  <2> HIDE DEF E, F
  <2> QED
    BY <2>3, <2>4, <2>5
<1> HIDE DEF E, F
<1>9. ASSUME NEW i \in Instances, i # w.inst PROVE F[i] = E[i]
  <2>1. /\ Occ(timers, Named(i, id)) \in Nat
        /\ Occ(timers', Named(i, id)) = Occ(timers, Named(i, id)) + 0
    BY <1>9, TaskTimers
  <2> QED
    BY <1>8, <2>1
<1>10. ASSUME NEW i \in Instances, i \notin Insts(wf) PROVE E[i] = 0
  <2> DEFINE T == Named(i, id)
  <2>1. i # 0
    BY DEF Instances
  <2>2. \A m \in DOMAIN timers : timers[m] \notin T
    BY <1>10, <2>1 DEF SInv, Known, TimersIn, Named
  <2> HIDE DEF T
  <2>3. Occ(timers, T) = 0
    BY <1>2, <2>2, OccZero
  <2> QED
    BY <1>8, <2>3 DEF T
<1>11. ASSUME w.state = "open"
       PROVE  F[w.inst] = (IF ev \in Left(w, x) THEN 1 ELSE 0)
                          + (IF ev \in Begun(w, cmd, d) THEN 1 ELSE 0)
  <2> DEFINE i == w.inst
             e == E[i]
             f == F[i]
             started == IF d # 0 /\ id = w.next THEN 1 ELSE 0
  <2>1. i \in Instances
    BY <1>1 DEF Workflow
  <2>2. Occ(w.pending, {ev}) + e = IF ev \in w.waits THEN 1 ELSE 0
    BY <1>1, <1>6, <1>11 DEF Balanced
  <2>3. e \in Nat /\ f \in Nat
    BY <1>3, <2>1
  <2>4. /\ id # x => f = e + started
        /\ id = x => (e = 0 => f = started) /\ (e # 0 => f + 1 = e + started)
    <3>1. /\ Occ(timers, Named(i, id)) \in Nat
          /\ id # x => Occ(timers', Named(i, id)) = Occ(timers, Named(i, id)) + started
          /\ id = x => /\ Occ(timers, Named(i, id)) = 0 => Occ(timers', Named(i, id)) = started
                       /\ Occ(timers, Named(i, id)) # 0 =>
                            Occ(timers', Named(i, id)) + 1 = Occ(timers, Named(i, id)) + started
      BY <2>1, TaskTimers
    <3>2. e = Occ(timers, Named(i, id)) /\ f = Occ(timers', Named(i, id))
      BY <1>8, <2>1
    <3> HIDE DEF e, f, i, w, started
    <3> QED
      BY <3>1, <3>2
  <2>5. ev \in Begun(w, cmd, d) <=> d # 0 /\ id = w.next
    <3>1. \A m : ev # Ev("result", m) /\ ev # Ev("child", m) /\ (ev = Ev("timer", m) <=> id = m)
      BY DEF Ev
    <3> HIDE DEF ev
    <3>2. Begun(w, cmd, d) \subseteq (IF d = 0 THEN {} ELSE {Ev("timer", w.next)})
                                     \cup {Ev("result", Num(w, d)), Ev("child", Num(w, d))}
      BY DEF Begun
    <3>3. (IF d = 0 THEN {} ELSE {Ev("timer", w.next)}) \subseteq Begun(w, cmd, d)
      BY DEF Begun
    <3> QED
      BY <3>1, <3>2, <3>3
  <2>6. CASE id # x
    <3>1. ev # Ev("timer", x)
      BY <2>6 DEF Ev
    <3> HIDE DEF e, f, ev, w
    <3>2. e = IF ev \in Left(w, x) THEN 1 ELSE 0
      BY <1>1, <1>5, <2>2, <2>3, <3>1, LeftDue
    <3>3. f = (IF ev \in Left(w, x) THEN 1 ELSE 0) + (IF ev \in Begun(w, cmd, d) THEN 1 ELSE 0)
      BY <2>4, <2>5, <2>6, <3>2
    <3> QED
      BY <3>3 DEF f
  <2>7. CASE id = x
    <3>1. ev \in w.waits \ ToSet(w.pending)
      BY <1>4, <2>7 DEF ExecuteTask
    <3>2. Occ(w.pending, {ev}) = 0
      <4>1. w.pending \in Seq(Event) /\ \A m \in DOMAIN w.pending : w.pending[m] \notin {ev}
        BY <1>1, <3>1 DEF Workflow, ToSet
      <4> QED
        BY <4>1, OccZero
    <3>3. ev \notin Left(w, x)
      BY <2>7 DEF Left
    <3> HIDE DEF e, f, ev, w
    <3>4. e = 1
      BY <2>2, <2>3, <3>1, <3>2
    <3>5. f = (IF ev \in Left(w, x) THEN 1 ELSE 0) + (IF ev \in Begun(w, cmd, d) THEN 1 ELSE 0)
      BY <2>3, <2>4, <2>5, <2>7, <3>3, <3>4
    <3> QED
      BY <3>5 DEF f
  <2> QED
    BY <2>6, <2>7
<1> HIDE DEF ev
<1>12. Balanced(wf', ev, F)
  BY <1>3, <1>5, <1>6, <1>9, <1>10, <1>11, TaskBalanced
<1> QED
  BY <1>12 DEF ev, F


LEMMA CallbackTravel ==
    ASSUME SInv, Quiet, TravelTimers, RunCallback, NEW id \in Ids
    PROVE  Balanced(wf', Ev("timer", id), TimersFor(callbacks', timers', id))
<1> DEFINE c == Head(callbacks)
           rest == Tail(callbacks)
           sig == EventFor(1, Ev("signal", 0))
           ev == Ev("timer", id)
           E == TimersFor(callbacks, timers, id)
           F == TimersFor(callbacks', timers', id)
<1>1. /\ callbacks # <<>> /\ c \in Callback
      /\ \/ c.kind = "wall"
         \/ Again(c) /\ wf' = wf /\ callbacks' = Append(rest, sig)
         \/ /\ ~Again(c) /\ Target(c) \in Insts(wf) /\ Carries(c) \in Event
            /\ wf' = sendEvent(wf, Target(c), Carries(c)) /\ callbacks' = rest
  BY RunCallbackIs
<1>2. /\ callbacks \in Seq(Callback) /\ rest \in Seq(Callback) /\ wf \in Seq(Workflow)
      /\ timers \in Seq(Timer) /\ timers' = timers
  BY <1>1, Popped, QuietCallback DEF SInv, Typed
<1>3. /\ c.kind \in {"fire", "event"}
      /\ c.kind = "event" => c.event.kind # "timer"
  BY QuietCallback
<1>4. Balanced(wf, ev, E)
  BY DEF TravelTimers
<1>5. 0 \in 0 .. MaxIDs /\ 1 \in Instances /\ id \in 0 .. MaxIDs
  BY TesterAssumption DEF Instances, Ids
<1>6. ev \in Event /\ ev.kind = "timer"
  BY <1>5, EvType
<1>7. sig \in Callback /\ sig.kind = "event"
  BY <1>5, EvType, CallbackType
<1>8. callbacks' \in Seq(Callback)
  <2> HIDE DEF sig, rest, c
  <2> QED
    BY <1>1, <1>2, <1>3, <1>7, AppendProperties
<1>9. E \in [Instances -> Nat] /\ F \in [Instances -> Nat]
  BY <1>2, <1>8, TimersForType
<1>10. ASSUME NEW i \in Instances
       PROVE  /\ E[i] = F[i] + (IF c \in FireOf(i, id) THEN 1 ELSE 0)
              /\ F[i] \in Nat
  <2> DEFINE T == FireOf(i, id)
             N == Occ(timers, Named(i, id))
  <2>1. E[i] = N + Occ(callbacks, T) /\ N \in Nat
    BY <1>2, TimersForType
  <2>2. F[i] = N + Occ(callbacks', T) /\ Occ(callbacks', T) \in Nat
    BY <1>2, <1>8, TimersForType
  <2>3. sig \notin T
    BY <1>7 DEF FireOf
  <2> HIDE DEF T, N, E, F
  <2>4. Occ(callbacks, T) = Occ(rest, T) + (IF c \in T THEN 1 ELSE 0)
    BY <1>1, <1>2, OccTail
  <2> HIDE DEF rest, sig, c
  <2>5. Occ(Append(rest, sig), T) = Occ(rest, T) + (IF sig \in T THEN 1 ELSE 0)
        /\ Occ(rest, T) \in Nat
    BY <1>2, <1>7, OccAppend, OccNat
  <2>6. Occ(callbacks', T) = Occ(rest, T)
    <3>1. callbacks' = Append(rest, sig) \/ callbacks' = rest
      BY <1>1, <1>3
    <3>2. Occ(Append(rest, sig), T) = Occ(rest, T)
      BY <2>3, <2>5
    <3>3. CASE callbacks' = Append(rest, sig)
      BY <3>2, <3>3
    <3>4. CASE callbacks' = rest
      BY <3>4
    <3> QED
      BY <3>1, <3>3, <3>4
  <2> QED
    BY <2>1, <2>2, <2>4, <2>6 DEF T
<1>11. ASSUME NEW i \in Instances
       PROVE  c \in FireOf(i, id) <=> ~Again(c) /\ i = Target(c) /\ ev = Carries(c)
  <2>1. i # 0
    BY DEF Instances
  <2>2. CASE c.kind = "fire"
    <3>1. Fires(c) /\ Target(c) = c.timer.inst /\ Carries(c) = Ev("timer", c.timer.id)
      BY <2>2 DEF Fires, Target, Carries
    <3>2. ev = Ev("timer", c.timer.id) <=> id = c.timer.id
      BY DEF Ev
    <3>3. c \in FireOf(i, id) <=> c.timer.inst = i /\ c.timer.id = id
      BY <1>1, <2>2 DEF FireOf
    <3> HIDE DEF c, ev
    <3> QED
      BY <2>1, <3>1, <3>2, <3>3 DEF Again
  <2>3. CASE c.kind = "event"
    <3>1. ~Fires(c) /\ Carries(c) = c.event
      BY <2>3 DEF Fires, Carries
    <3>2. c \notin FireOf(i, id)
      BY <2>3 DEF FireOf
    <3> HIDE DEF c, ev
    <3> QED
      BY <1>3, <1>6, <2>3, <3>1, <3>2
  <2> QED
    BY <1>3, <2>2, <2>3
<1> HIDE DEF E, F, ev, c, rest, sig
<1>12. CASE Again(c) /\ wf' = wf
  <2>1. \A i \in Instances : E[i] = F[i]
    BY <1>10, <1>11, <1>12
  <2>2. E = F
    BY <1>9, <2>1
  <2> QED
    BY <1>4, <1>12, <2>2 DEF F, ev
<1>13. CASE /\ ~Again(c) /\ Target(c) \in Insts(wf) /\ Carries(c) \in Event
            /\ wf' = sendEvent(wf, Target(c), Carries(c))
  <2>1. \A i \in Instances : E[i] = F[i] + (IF i = Target(c) /\ ev = Carries(c) THEN 1 ELSE 0)
    BY <1>10, <1>11, <1>13
  <2>2. Latest(wf)
    BY DEF SInv, Known, Related, Ordered
  <2>3. Balanced(sendEvent(wf, Target(c), Carries(c)), ev, F)
    BY <1>2, <1>4, <1>6, <1>9, <1>13, <2>1, <2>2, DeliveryBalanced
  <2>4. Balanced(wf', ev, F)
    BY <1>13, <2>3
  <2> QED
    BY <2>4 DEF F, ev
<1> QED
  BY <1>1, <1>3, <1>12, <1>13

LEMMA FiresTravel ==
    ASSUME SInv, NEW id, timers # <<>>, timers' = Tail(timers),
           callbacks' = Append(callbacks, [kind |-> "fire", timer |-> Head(timers)])
    PROVE  TimersFor(callbacks', timers', id) = TimersFor(callbacks, timers, id)
<1> DEFINE t == Head(timers)
           rest == Tail(timers)
           c == [kind |-> "fire", timer |-> t]
<1>1. timers \in Seq(Timer) /\ callbacks \in Seq(Callback)
  BY DEF SInv, Typed
<1>2. t \in Timer /\ rest \in Seq(Timer)
  BY <1>1, Popped
<1>3. \A T : Occ(timers, T) = Occ(rest, T) + (IF t \in T THEN 1 ELSE 0)
  BY <1>1, OccTail
<1> HIDE DEF t, rest
<1>4. c \in Callback /\ c.kind = "fire" /\ c.timer = t
  BY <1>2, CallbackType
<1>5. timers' = rest /\ callbacks' = Append(callbacks, c)
  BY DEF t, rest
<1> HIDE DEF c
<1>6. ASSUME NEW i \in Instances
      PROVE  Occ(timers', Named(i, id)) + Occ(callbacks', FireOf(i, id))
             = Occ(timers, Named(i, id)) + Occ(callbacks, FireOf(i, id))
  <2> DEFINE T == Named(i, id)
             C == FireOf(i, id)
  <2>1. t \in T <=> c \in C
    BY <1>2, <1>4 DEF Named, FireOf
  <2> HIDE DEF T, C
  <2>2. Occ(Append(callbacks, c), C) = Occ(callbacks, C) + (IF c \in C THEN 1 ELSE 0)
    BY <1>1, <1>4, OccAppend
  <2>3. Occ(callbacks, C) \in Nat
    BY <1>1, OccNat
  <2>4. Occ(rest, T) \in Nat
    BY <1>2, OccNat
  <2>5. Occ(timers', T) + Occ(callbacks', C) = Occ(timers, T) + Occ(callbacks, C)
    <3>1. Occ(timers, T) = Occ(rest, T) + (IF t \in T THEN 1 ELSE 0)
      BY <1>3
    <3>2. Occ(timers', T) = Occ(rest, T) /\ Occ(callbacks', C) = Occ(Append(callbacks, c), C)
      BY <1>5
    <3> QED
      BY <2>1, <2>2, <2>3, <2>4, <3>1, <3>2
  <2> QED
    BY <2>5 DEF T, C
<1> QED
  BY <1>6 DEF TimersFor

LEMMA MenuKept == [Next]_vars => menu' = menu
<1> SUFFICES ASSUME [Next]_vars PROVE menu' = menu
  OBVIOUS
<1>1. ASSUME NEW k \in Tasks, NEW cmd \in CommandKinds, NEW d \in Delays \cup {0},
             NEW x \in 0 .. MaxIDs, ExecuteTask(k, cmd, d, x)
      PROVE  menu' = menu
  BY <1>1 DEF ExecuteTask
<1>2. CASE RunCallback
  BY <1>2 DEF RunCallback
<1>3. CASE fireTimer
  BY <1>3 DEF fireTimer
<1>4. CASE EndPass \/ PollNothing \/ Blocked \/ WallClockFires \/ WallClockSends \/ UNCHANGED vars
  BY <1>4 DEF EndPass, PollNothing, Blocked, WallClockFires, WallClockSends, vars
<1>5. ASSUME NEW a \in Activities,
             \/ \E inst \in Instances : ActivitySignals(a, inst)
             \/ ActivityCompletes(a) \/ ActivityEnds(a)
      PROVE  menu' = menu
  BY <1>5 DEF ActivitySignals, ActivityCompletes, ActivityEnds
<1> QED
  BY <1>1, <1>2, <1>3, <1>4, <1>5 DEF Next, Execute

LEMMA TravelStep ==
    SInv /\ "activity" \notin menu /\ Quiet /\ TravelTimers /\ [Next]_vars
      => "activity" \notin menu' /\ Quiet' /\ TravelTimers'
<1> SUFFICES ASSUME SInv, "activity" \notin menu, Quiet, TravelTimers, [Next]_vars
             PROVE  "activity" \notin menu' /\ Quiet' /\ TravelTimers'
  OBVIOUS
<1>1. menu' = menu
  BY MenuKept
<1> SUFFICES Quiet' /\ TravelTimers'
  BY <1>1
<1>2. ASSUME wf' = wf, timers' = timers, callbacks' = callbacks PROVE TravelTimers'
  BY <1>2 DEF TravelTimers
<1>3. ASSUME NEW k \in Tasks, NEW cmd \in CommandKinds, NEW d \in Delays \cup {0},
             NEW x \in 0 .. MaxIDs, ExecuteTask(k, cmd, d, x)
      PROVE  Quiet' /\ TravelTimers'
  <2>1. Quiet'
    BY <1>3, QuietTask
  <2>2. \A id \in Ids : Balanced(wf', Ev("timer", id), TimersFor(callbacks', timers', id))
    BY <1>3, TaskTravel
  <2> QED
    BY <2>1, <2>2 DEF TravelTimers
<1>4. CASE RunCallback
  BY <1>4, QuietCallback, CallbackTravel DEF TravelTimers
<1>5. CASE fireTimer
  <2>1. /\ Quiet' /\ wf' = wf
        /\ \/ UNCHANGED <<timers, callbacks>>
           \/ /\ timers # <<>> /\ timers' = Tail(timers)
              /\ callbacks' = Append(callbacks, [kind |-> "fire", timer |-> Head(timers)])
    BY <1>5, QuietFires
  <2>2. CASE UNCHANGED <<timers, callbacks>>
    BY <1>2, <2>1, <2>2
  <2>3. CASE /\ timers # <<>> /\ timers' = Tail(timers)
             /\ callbacks' = Append(callbacks, [kind |-> "fire", timer |-> Head(timers)])
    <3>1. \A id \in Ids : TimersFor(callbacks', timers', id) = TimersFor(callbacks, timers, id)
      BY <2>3, FiresTravel
    <3> QED
      BY <2>1, <3>1 DEF TravelTimers
  <2> QED
    BY <2>1, <2>2, <2>3
<1>6. CASE EndPass
  <2>1. /\ UNCHANGED <<wf, timers, callbacks, running, armed, late, forgotten>>
        /\ pc = "pass" /\ pc' \in {"finished", "pass", "poll"}
    BY <1>6 DEF EndPass, wall
  <2> QED
    BY <1>2, <2>1 DEF Quiet
<1>7. CASE PollNothing \/ Blocked
  <2>1. /\ UNCHANGED <<wf, timers, callbacks, running, armed, late, forgotten>>
        /\ callbacks = <<>>
    BY <1>7 DEF PollNothing, Blocked, wall
  <2> QED
    BY <1>2, <2>1 DEF Quiet
<1>8. ~WallClockFires /\ ~WallClockSends
  BY DEF WallClockFires, WallClockSends, Quiet
<1>9. ASSUME NEW a \in Activities
      PROVE  /\ \A inst \in Instances : ~ActivitySignals(a, inst)
             /\ ~ActivityCompletes(a) /\ ~ActivityEnds(a)
  BY DEF Quiet, ActivitySignals, ActivityCompletes, ActivityEnds
<1>10. CASE UNCHANGED vars
  BY <1>2, <1>10 DEF vars, Quiet
<1> QED
  BY <1>3, <1>4, <1>5, <1>6, <1>7, <1>8, <1>9, <1>10 DEF Next, Execute

LEMMA TravelInit == Init => Quiet /\ TravelTimers
<1> SUFFICES ASSUME Init PROVE Quiet /\ TravelTimers
  OBVIOUS
<1>1. Quiet
  BY DEF Init, Quiet
<1>2. ASSUME NEW id \in Ids, NEW l \in DOMAIN wf
      PROVE  /\ TimersFor(callbacks, timers, id)[wf[l].inst] = 0
             /\ Occ(wf[l].pending, {Ev("timer", id)}) = 0
             /\ Ev("timer", id) \notin wf[l].waits
  <2>1. /\ wf[l].inst = 1 /\ wf[l].waits = {} /\ wf[l].pending = <<Ev("start", 0)>>
        /\ callbacks = <<>>
    BY DEF Init, NewWorkflow
  <2>2. callbacks \in Seq(Callback) /\ DOMAIN callbacks = {} /\ 1 \in Instances
    BY <2>1, TesterAssumption DEF Instances
  <2>3. timers \in Seq(Timer)
    BY InitSInv DEF SInv, Typed
  <2>4. \A m \in DOMAIN timers : timers[m].inst = 0
    BY DEF Init, CallbackAt
  <2>5. Occ(callbacks, FireOf(1, id)) = 0
    BY <2>2, OccZero
  <2>6. Occ(timers, Named(1, id)) = 0
    <3> DEFINE T == Named(1, id)
    <3>1. \A m \in DOMAIN timers : timers[m] \notin T
      BY <2>4 DEF Named
    <3> HIDE DEF T
    <3>2. Occ(timers, T) = 0
      BY <2>3, <3>1, OccZero
    <3> QED
      BY <3>2 DEF T
  <2>7. TimersFor(callbacks, timers, id)[1] = 0
    <3>1. TimersFor(callbacks, timers, id)[1]
            = Occ(timers, Named(1, id)) + Occ(callbacks, FireOf(1, id))
      BY <2>2 DEF TimersFor
    <3> QED
      BY <2>5, <2>6, <3>1
  <2>8. Occ(wf[l].pending, {Ev("timer", id)}) = 0
    <3> DEFINE s == <<Ev("start", 0)>>
    <3>1. /\ s \in Seq({Ev("start", 0)}) /\ DOMAIN s = {1} /\ s[1] = Ev("start", 0)
          /\ Ev("start", 0) # Ev("timer", id)
      BY DEF Ev
    <3> HIDE DEF s
    <3>2. \A j \in DOMAIN s : s[j] \notin {Ev("timer", id)}
      BY <3>1
    <3>3. Occ(s, {Ev("timer", id)}) = 0
      BY <3>1, <3>2, OccZero
    <3> QED
      BY <2>1, <3>3 DEF s
  <2> QED
    BY <2>1, <2>7, <2>8
<1>3. TravelTimers
  BY <1>2 DEF TravelTimers, Balanced
<1> QED
  BY <1>1, <1>3

\* What a test without activities keeps.
Travel == "activity" \notin menu => Quiet /\ TravelTimers

(***************************************************************************)
(* In a test without activities a timer that is waited for is about to     *)
(* fire exactly once, scheduled, in the callbacks channel or among the     *)
(* workflow's pending events, and a canceled or past one not at all        *)
(* (tester.scheduleTimer, cancelTimer, fireTimer).                         *)
(***************************************************************************)
THEOREM TimersFireOnce == Spec => []TimeTravelTimers
<1>1. SInv /\ Travel => TimeTravelTimers
  <2> SUFFICES ASSUME SInv, Quiet, TravelTimers, NEW k \in DOMAIN wf, NEW id \in Ids,
                      wf[k].state = "open"
               PROVE  OnItsWay(k, Ev("timer", id))
                      + Count({l \in DOMAIN timers :
                                 timers[l].inst = wf[k].inst /\ timers[l].id = id})
                      + Count({c \in DOMAIN callbacks :
                                 /\ callbacks[c].kind = "fire"
                                 /\ callbacks[c].timer.inst = wf[k].inst
                                 /\ callbacks[c].timer.id = id})
                      = IF Ev("timer", id) \in wf[k].waits THEN 1 ELSE 0
    BY DEF TimeTravelTimers, Travel
  <2> DEFINE ev == Ev("timer", id)
             i == wf[k].inst
             A == {l \in DOMAIN timers : timers[l].inst = i /\ timers[l].id = id}
             C == {c \in DOMAIN callbacks : callbacks[c].kind = "fire"
                                            /\ callbacks[c].timer.inst = i
                                            /\ callbacks[c].timer.id = id}
             B == {c \in DOMAIN callbacks :
                     callbacks[c].kind = "event" /\ callbacks[c].inst = i /\ callbacks[c].event = ev}
             P == {l \in DOMAIN wf[k].pending : wf[k].pending[l] = ev}
  <2>1. wf[k] \in Workflow /\ callbacks \in Seq(Callback) /\ timers \in Seq(Timer)
    BY LenProperties, ElementOfSeq DEF SInv, Typed
  <2>2. i \in Instances /\ wf[k].pending \in Seq(Event)
    BY <2>1 DEF Workflow
  <2>3. Occ(wf[k].pending, {ev}) + TimersFor(callbacks, timers, id)[i]
          = IF ev \in wf[k].waits THEN 1 ELSE 0
    BY DEF TravelTimers, Balanced
  <2>4. /\ TimersFor(callbacks, timers, id)[i]
             = Occ(timers, Named(i, id)) + Occ(callbacks, FireOf(i, id))
        /\ Occ(timers, Named(i, id)) \in Nat /\ Occ(callbacks, FireOf(i, id)) \in Nat
    BY <2>1, <2>2, TimersForType
  <2>5. Occ(wf[k].pending, {ev}) = Cardinality(P) /\ Cardinality(P) \in Nat
    <3>1. P = {l \in DOMAIN wf[k].pending : wf[k].pending[l] \in {ev}}
      OBVIOUS
    <3>2. Occ(wf[k].pending, {ev}) \in Nat
      BY <2>2, OccNat
    <3> QED
      BY <3>1, <3>2 DEF Occ
  <2>6. Cardinality(B) = 0
    <3>1. B = {}
      BY DEF Quiet, Ev
    <3> HIDE DEF B
    <3> QED
      BY <3>1, FS_EmptySet
  <2>7. Occ(timers, Named(i, id)) = Cardinality(A)
    <3>1. \A l \in DOMAIN timers : timers[l] \in Timer
      BY <2>1, LenProperties, ElementOfSeq
    <3> HIDE DEF i
    <3>2. A = {l \in DOMAIN timers : timers[l] \in Named(i, id)}
      BY <3>1 DEF Named
    <3> QED
      BY <3>2 DEF Occ
  <2>8. Occ(callbacks, FireOf(i, id)) = Cardinality(C)
    <3>1. \A c \in DOMAIN callbacks : callbacks[c] \in Callback
      BY <2>1, LenProperties, ElementOfSeq
    <3> HIDE DEF i
    <3>2. C = {c \in DOMAIN callbacks : callbacks[c] \in FireOf(i, id)}
      BY <3>1 DEF FireOf
    <3> QED
      BY <3>2 DEF Occ
  <2>9. OnItsWay(k, ev) = Cardinality(P) + Cardinality(B)
    BY DEF OnItsWay, Count
  <2>10. Count(A) = Cardinality(A) /\ Count(C) = Cardinality(C)
    BY DEF Count
  <2> HIDE DEF A, B, C, P, ev, i
  <2>11. OnItsWay(k, ev) + Count(A) + Count(C) = IF ev \in wf[k].waits THEN 1 ELSE 0
    BY <2>3, <2>4, <2>5, <2>6, <2>7, <2>8, <2>9, <2>10
  <2> QED
    BY <2>11 DEF A, C, ev, i
<1>2. SInv /\ Travel /\ [Next]_vars => (SInv /\ Travel)'
  <2>1. [Next]_vars => menu' = menu
    BY MenuKept
  <2> QED
    BY <2>1, StepSInv, TravelStep DEF Travel
<1>3. Init => SInv /\ Travel
  BY InitSInv, TravelInit DEF Travel
<1> QED
  BY <1>1, <1>2, <1>3, PTL DEF Spec
=============================================================================
