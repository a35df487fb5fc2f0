----------------------- MODULE PolicyGenerationProofs -----------------------
(***************************************************************************)
(* What the generator and the drift report make of a baseline, for any     *)
(* destinations, any number of them and any order of the snapshot.         *)
(***************************************************************************)
EXTENDS PolicyGeneration, FiniteSetTheorems, SequenceTheorems, LoopTheorems

-----------------------------------------------------------------------------
(* Sequences.                                                              *)

\* t is s with e inserted at place i.
IsInsertion(t, s, i, e) ==
  /\ Len(t) = Len(s) + 1
  /\ \A j \in 1..(Len(s) + 1) :
       t[j] = IF j < i THEN s[j] ELSE IF j = i THEN e ELSE s[j - 1]

\* Where InsertAt puts the new element and moves the others.
LEMMA InsertAtProperties ==
  ASSUME NEW S, NEW s \in Seq(S), NEW i \in 1..(Len(s) + 1), NEW e \in S
  PROVE  /\ InsertAt(s, i, e) \in Seq(S)
         /\ IsInsertion(InsertAt(s, i, e), s, i, e)
<1> DEFINE left == SubSeq(s, 1, i - 1)
           right == SubSeq(s, i, Len(s))
<1>1. /\ Len(s) \in Nat /\ i \in Nat
      /\ \A j \in 1..Len(s) : s[j] \in S
  BY LenProperties
<1>2. /\ left \in Seq(S) /\ Len(left) = i - 1
      /\ \A j \in 1..(i - 1) : left[j] = s[j]
  BY <1>1, SubSeqProperties
<1>3. /\ right \in Seq(S) /\ Len(right) = Len(s) - i + 1
      /\ \A j \in 1..(Len(s) - i + 1) : right[j] = s[i + j - 1]
  BY <1>1, SubSeqProperties
<1> HIDE DEF left, right
<1>4. <<e>> \in Seq(S) /\ Len(<<e>>) = 1 /\ <<e>>[1] = e
  OBVIOUS
<1> DEFINE front == left \o <<e>>
<1>5. /\ front \in Seq(S) /\ Len(front) = i
      /\ \A j \in 1..i : front[j] = IF j < i THEN s[j] ELSE e
  <2>1. /\ front \in Seq(S) /\ Len(front) = i
        /\ \A j \in 1..i : front[j] = IF j <= i - 1 THEN left[j] ELSE <<e>>[j - (i - 1)]
    BY <1>1, <1>2, <1>4, ConcatProperties
  <2> QED
    BY <2>1, <1>1, <1>2, <1>4
<1> HIDE DEF front
<1>6. /\ front \o right \in Seq(S) /\ Len(front \o right) = Len(s) + 1
      /\ \A j \in 1..(Len(s) + 1) :
           (front \o right)[j] = IF j <= i THEN front[j] ELSE right[j - i]
  <2>1. Len(front) + Len(right) = Len(s) + 1
    BY <1>1, <1>3, <1>5
  <2>2. /\ front \o right \in Seq(S) /\ Len(front \o right) = Len(front) + Len(right)
        /\ \A j \in 1..(Len(front) + Len(right)) :
             (front \o right)[j] =
               IF j <= Len(front) THEN front[j] ELSE right[j - Len(front)]
    BY <1>3, <1>5, ConcatProperties
  <2> QED
    BY <1>5, <2>1, <2>2
<1>7. InsertAt(s, i, e) = front \o right
  BY DEF InsertAt, front, left, right
<1> QED
  BY <1>1, <1>3, <1>5, <1>6, <1>7 DEF IsInsertion

\* Which elements RemoveAt leaves, and where.
LEMMA RemoveAtProperties ==
  ASSUME NEW S, NEW s \in Seq(S), NEW i \in 1..Len(s)
  PROVE  /\ RemoveAt(s, i) \in Seq(S)
         /\ Len(RemoveAt(s, i)) = Len(s) - 1
         /\ \A j \in 1..(Len(s) - 1) :
              RemoveAt(s, i)[j] = IF j < i THEN s[j] ELSE s[j + 1]
<1> DEFINE left == SubSeq(s, 1, i - 1)
           right == SubSeq(s, i + 1, Len(s))
<1>1. /\ Len(s) \in Nat /\ i \in Nat
      /\ \A j \in 1..Len(s) : s[j] \in S
  BY LenProperties
<1>2. /\ left \in Seq(S) /\ Len(left) = i - 1
      /\ \A j \in 1..(i - 1) : left[j] = s[j]
  BY <1>1, SubSeqProperties
<1>3. /\ right \in Seq(S) /\ Len(right) = Len(s) - i
      /\ \A j \in 1..(Len(s) - i) : right[j] = s[i + j]
  BY <1>1, SubSeqProperties
<1> HIDE DEF left, right
<1>4. /\ left \o right \in Seq(S) /\ Len(left \o right) = Len(s) - 1
      /\ \A j \in 1..(Len(s) - 1) :
           (left \o right)[j] = IF j <= i - 1 THEN left[j] ELSE right[j - (i - 1)]
  BY <1>1, <1>2, <1>3, ConcatProperties
<1>5. RemoveAt(s, i) = left \o right
  BY DEF RemoveAt, left, right
<1> QED
  BY <1>1, <1>2, <1>3, <1>4, <1>5

-----------------------------------------------------------------------------
(* Snapshots.                                                              *)

\* An entry has been seen and has been in a snapshot.
SeenEntry == {e \in DestEntry : e.flows >= 1 /\ e.snaps >= 1}

\* A snapshot holds seen entries, and no destination twice.
SnapInv ==
  /\ snap \in Seq(SeenEntry)
  /\ \A i, j \in DOMAIN snap : KeyOf(snap[i]) = KeyOf(snap[j]) => i = j

\* The same destination, observed for longer.
Grown(e, f) ==
  /\ KeyOf(f) = KeyOf(e)
  /\ f.flows >= e.flows
  /\ f.snaps >= e.snaps

\* What a step does to the destinations that are there before and after it.
LEMMA SnapNext ==
  ASSUME SnapInv, [Next]_snap
  PROVE  /\ SnapInv'
         /\ \A e \in Range(snap), f \in Range(snap') :
              KeyOf(f) = KeyOf(e) => Grown(e, f)
<1>0. /\ snap \in Seq(SeenEntry)
      /\ Len(snap) \in Nat /\ DOMAIN snap = 1..Len(snap)
      /\ \A i \in 1..Len(snap) : snap[i] \in SeenEntry
  BY LenProperties DEF SnapInv
<1> DEFINE Older(i, j) == KeyOf(snap'[j]) = KeyOf(snap[i]) => Grown(snap[i], snap'[j])
<1>q. ASSUME \A i \in DOMAIN snap, j \in DOMAIN snap' : Older(i, j)
      PROVE  \A e \in Range(snap), f \in Range(snap') :
               KeyOf(f) = KeyOf(e) => Grown(e, f)
  BY <1>q DEF Range
<1>1. CASE \E k \in Keys, i \in 1..(Len(snap) + 1) : Appear(k, i)
  <2> PICK k \in Keys, i \in 1..(Len(snap) + 1) : Appear(k, i)
    BY <1>1
  <2> DEFINE new == [fqdn |-> k.fqdn, ip |-> k.ip, port |-> k.port,
                     proto |-> k.proto, flows |-> 1, snaps |-> 1]
  <2>1. new \in SeenEntry /\ KeyOf(new) = k
    BY KeysAssumption DEF SeenEntry, DestEntry, KeyOf
  <2>2. snap' = InsertAt(snap, i, new)
    BY DEF Appear
  <2> HIDE DEF new
  <2>3. /\ snap' \in Seq(SeenEntry) /\ Len(snap') = Len(snap) + 1
        /\ \A j \in 1..(Len(snap) + 1) :
             snap'[j] = IF j < i THEN snap[j] ELSE IF j = i THEN new ELSE snap[j - 1]
    <3>1. snap' \in Seq(SeenEntry) /\ IsInsertion(snap', snap, i, new)
      BY <1>0, <2>1, <2>2, InsertAtProperties
    <3> QED
      BY <3>1 DEF IsInsertion
  <2>4. DOMAIN snap' = 1..(Len(snap) + 1)
    BY <2>3, LenProperties
  <2>5. \A j \in 1..Len(snap) : KeyOf(snap[j]) # k
    BY <1>0 DEF Appear, Range
  <2>6. \A j, l \in DOMAIN snap' : KeyOf(snap'[j]) = KeyOf(snap'[l]) => j = l
    <3> TAKE j, l \in DOMAIN snap'
    <3> HAVE KeyOf(snap'[j]) = KeyOf(snap'[l])
    <3> DEFINE old(m) == IF m < i THEN m ELSE m - 1
    <3>1. \A m \in DOMAIN snap' \ {i} : old(m) \in 1..Len(snap) /\ snap'[m] = snap[old(m)]
      BY <1>0, <2>3, <2>4
    <3>2. snap'[i] = new
      BY <1>0, <2>3
    <3>3. CASE j = i \/ l = i
      BY <2>1, <2>5, <3>1, <3>2, <3>3
    <3>4. CASE j # i /\ l # i
      <4>1. old(j) = old(l)
        BY <1>0, <3>1, <3>4 DEF SnapInv
      <4> QED
        BY <1>0, <2>4, <3>4, <4>1
    <3> QED
      BY <3>3, <3>4
  <2>7. \A l \in DOMAIN snap, j \in DOMAIN snap' : Older(l, j)
    <3> SUFFICES ASSUME NEW l \in DOMAIN snap, NEW j \in DOMAIN snap',
                        KeyOf(snap'[j]) = KeyOf(snap[l])
                 PROVE  Grown(snap[l], snap'[j])
      OBVIOUS
    <3>1. j # i
      BY <1>0, <2>1, <2>3, <2>4, <2>5
    <3>2. snap'[j] = snap[l]
      <4> DEFINE m == IF j < i THEN j ELSE j - 1
      <4>1. m \in DOMAIN snap /\ snap'[j] = snap[m]
        BY <1>0, <2>3, <2>4, <3>1
      <4> HIDE DEF m
      <4>2. m = l
        BY <4>1 DEF SnapInv
      <4> QED
        BY <4>1, <4>2
    <3> QED
      BY <1>0, <3>2 DEF Grown, SeenEntry, DestEntry
  <2> QED
    BY <2>3, <2>6, <2>7, <1>q DEF SnapInv
<1>2. ASSUME /\ snap' \in Seq(SeenEntry)
             /\ Len(snap') = Len(snap)
             /\ \A i \in 1..Len(snap) : Grown(snap[i], snap'[i])
      PROVE  /\ SnapInv'
             /\ \A i \in DOMAIN snap, j \in DOMAIN snap' : Older(i, j)
  <2>1. DOMAIN snap' = 1..Len(snap)
    BY <1>2, LenProperties
  <2>2. \A i \in 1..Len(snap) : KeyOf(snap'[i]) = KeyOf(snap[i])
    BY <1>2 DEF Grown
  <2> QED
    BY <1>0, <1>2, <2>1, <2>2 DEF SnapInv
<1>3. CASE \E i \in DOMAIN snap : SeenAgain(i)
  <2> PICK i \in DOMAIN snap : SeenAgain(i)
    BY <1>3
  <2> PICK j \in 2..Len(FlowSteps) :
        /\ snap[i].flows = FlowSteps[j - 1]
        /\ snap' = [snap EXCEPT ![i].flows = FlowSteps[j]]
    BY DEF SeenAgain
  <2>1. FlowSteps[j] \in Nat /\ FlowSteps[j - 1] < FlowSteps[j]
    BY DEF FlowSteps
  <2> DEFINE e == [snap[i] EXCEPT !.flows = FlowSteps[j]]
  <2>2. e \in SeenEntry /\ Grown(snap[i], e)
    <3>1. snap[i] \in SeenEntry /\ snap[i].flows < FlowSteps[j]
      BY <1>0, <2>1
    <3>2. \A x \in SeenEntry, n \in Nat : x.flows < n =>
            [x EXCEPT !.flows = n] \in SeenEntry /\ Grown(x, [x EXCEPT !.flows = n])
      BY DEF SeenEntry, DestEntry, Grown, KeyOf
    <3> QED
      BY <2>1, <3>1, <3>2
  <2>3. snap' = [snap EXCEPT ![i] = e]
    OBVIOUS
  <2> HIDE DEF e
  <2>4. /\ snap' \in Seq(SeenEntry) /\ Len(snap') = Len(snap)
        /\ \A l \in 1..Len(snap) : snap'[l] = IF l = i THEN e ELSE snap[l]
    <3>1. i \in 1..Len(snap)
      BY <1>0
    <3> QED
      BY <1>0, <2>2, <2>3, <3>1, ExceptSeq
  <2>5. \A l \in 1..Len(snap) : Grown(snap[l], snap[l])
    <3>1. \A x \in SeenEntry : Grown(x, x)
      BY DEF Grown, SeenEntry, DestEntry
    <3> QED
      BY <1>0, <3>1
  <2>6. \A l \in 1..Len(snap) : Grown(snap[l], snap'[l])
    BY <2>2, <2>4, <2>5
  <2> QED
    BY <1>2, <1>q, <2>4, <2>6
<1>4. CASE \E i \in DOMAIN snap : Expire(i)
  <2> PICK i \in DOMAIN snap : Expire(i)
    BY <1>4
  <2>1. /\ snap' \in Seq(SeenEntry) /\ Len(snap') = Len(snap) - 1
        /\ \A j \in 1..(Len(snap) - 1) :
             snap'[j] = IF j < i THEN snap[j] ELSE snap[j + 1]
    <3>1. i \in 1..Len(snap)
      BY <1>0
    <3> QED
      BY <1>0, <3>1, RemoveAtProperties DEF Expire
  <2>2. DOMAIN snap' = 1..(Len(snap) - 1)
    BY <2>1, LenProperties
  <2>3. \A j, l \in DOMAIN snap' : KeyOf(snap'[j]) = KeyOf(snap'[l]) => j = l
    <3> TAKE j, l \in DOMAIN snap'
    <3> HAVE KeyOf(snap'[j]) = KeyOf(snap'[l])
    <3> DEFINE old(m) == IF m < i THEN m ELSE m + 1
    <3>1. \A m \in DOMAIN snap' : old(m) \in 1..Len(snap) /\ snap'[m] = snap[old(m)]
      BY <1>0, <2>1, <2>2
    <3>2. old(j) = old(l)
      BY <1>0, <3>1 DEF SnapInv
    <3> QED
      BY <1>0, <2>2, <3>2
  <2>4. \A l \in DOMAIN snap, j \in DOMAIN snap' : Older(l, j)
    <3> SUFFICES ASSUME NEW l \in DOMAIN snap, NEW j \in DOMAIN snap',
                        KeyOf(snap'[j]) = KeyOf(snap[l])
                 PROVE  Grown(snap[l], snap'[j])
      OBVIOUS
    <3>1. snap'[j] = snap[l]
      <4> DEFINE m == IF j < i THEN j ELSE j + 1
      <4>1. m \in DOMAIN snap /\ snap'[j] = snap[m]
        BY <1>0, <2>1, <2>2
      <4> HIDE DEF m
      <4>2. m = l
        BY <4>1 DEF SnapInv
      <4> QED
        BY <4>1, <4>2
    <3> QED
      BY <1>0, <3>1 DEF Grown, SeenEntry, DestEntry
  <2> QED
    BY <2>1, <2>3, <2>4, <1>q DEF SnapInv
<1>5. CASE NextSnapshot
  <2> DEFINE next(e) == IF e.snaps < SnapSteps THEN [e EXCEPT !.snaps = @ + 1] ELSE e
  <2>1. \A e \in SeenEntry : next(e) \in SeenEntry /\ Grown(e, next(e))
    BY DEF SeenEntry, DestEntry, Grown, KeyOf, SnapSteps
  <2>2. snap' = [i \in 1..Len(snap) |-> next(snap[i])]
    BY <1>0, <1>5 DEF NextSnapshot
  <2> HIDE DEF next
  <2>3. snap' \in Seq(SeenEntry) /\ Len(snap') = Len(snap)
    BY <1>0, <2>1, <2>2
  <2>4. \A i \in 1..Len(snap) : Grown(snap[i], snap'[i])
    BY <1>0, <2>1, <2>2
  <2> QED
    BY <1>2, <1>q, <2>3, <2>4
<1>6. CASE UNCHANGED snap
  <2>1. \A i \in 1..Len(snap) : Grown(snap[i], snap'[i])
    BY <1>0, <1>6 DEF Grown, SeenEntry, DestEntry
  <2> QED
    BY <1>2, <1>6, <1>q, <2>1 DEF SnapInv
<1> QED
  BY <1>1, <1>3, <1>4, <1>5, <1>6 DEF Next

\* SnapInv holds of every snapshot.
THEOREM SnapshotsWellFormed == Spec => []SnapInv
<1>1. Init => SnapInv
  BY DEF Init, SnapInv
<1>2. SnapInv /\ [Next]_snap => SnapInv'
  BY SnapNext
<1> QED
  BY <1>1, <1>2, PTL DEF Spec

-----------------------------------------------------------------------------
(* The policy over time.                                                   *)

\* Credit and penalty, part by part.
LEMMA ScoreParts ==
  ASSUME NEW e \in DestEntry
  PROVE  /\ Points(e.snaps >= 3, 25) = IF e.snaps >= 3 THEN 25 ELSE 0
         /\ Points(e.flows >= 10, 15) = IF e.flows >= 10 THEN 15 ELSE 0
         /\ SeenOnce(e) = IF e.snaps = 1 /\ e.flows = 1 THEN 15 ELSE 0
         /\ Points(isStandardPort(e.port), 10) \in {0, 10}
         /\ Points(e.fqdn # "" /\ e.fqdn \notin Wildcards \cup Starred, 10) \in {0, 10}
         /\ Points(e.fqdn = "" /\ isPublicIP(e.ip), 30) \in {0, 30}
         /\ Points(isWildcardLarge(e.fqdn), 30) \in {0, 30}
<1>1. \A c, n : Points(c, n) \in {0, n}
  BY DEF Points
<1>2. SeenOnce(e) = IF e.snaps = 1 /\ e.flows = 1 THEN 15 ELSE 0
  BY DEF SeenOnce, Points
<1>3. /\ Points(e.snaps >= 3, 25) = IF e.snaps >= 3 THEN 25 ELSE 0
      /\ Points(e.flows >= 10, 15) = IF e.flows >= 10 THEN 15 ELSE 0
  BY DEF Points
<1> QED
  BY <1>1, <1>2, <1>3, Zenon

\* A score is a percentage.
LEMMA ScoreType ==
  ASSUME NEW e \in DestEntry
  PROVE  /\ Credit(e) \in Nat /\ Penalty(e) \in Nat
         /\ Score(e) \in 0..100
<1> DEFINE c1 == Points(e.snaps >= 3, 25)
           c2 == Points(e.flows >= 10, 15)
           c3 == Points(isStandardPort(e.port), 10)
           c4 == Points(e.fqdn # "" /\ e.fqdn \notin Wildcards \cup Starred, 10)
           p1 == SeenOnce(e)
           p2 == Points(e.fqdn = "" /\ isPublicIP(e.ip), 30)
           p3 == Points(isWildcardLarge(e.fqdn), 30)
<1>1. /\ c1 \in {0, 25} /\ c2 \in {0, 15} /\ c3 \in {0, 10} /\ c4 \in {0, 10}
      /\ p1 \in {0, 15} /\ p2 \in {0, 30} /\ p3 \in {0, 30}
  BY ScoreParts, Zenon
<1>2. Credit(e) = 50 + c1 + c2 + c3 + c4 /\ Penalty(e) = p1 + p2 + p3
  BY Zenon DEF Credit, Penalty
<1> HIDE DEF c1, c2, c3, c4, p1, p2, p3
<1>3. Credit(e) \in Nat /\ Penalty(e) \in Nat
  BY <1>1, <1>2
<1> QED
  BY <1>3 DEF Score

\* Longer observation never lowers a score.
LEMMA ScoreGrows ==
  ASSUME NEW e \in SeenEntry, NEW f \in SeenEntry, Grown(e, f)
  PROVE  Score(e) <= Score(f)
<1> DEFINE c1(x) == Points(x.snaps >= 3, 25)
           c2(x) == Points(x.flows >= 10, 15)
           c3(x) == Points(isStandardPort(x.port), 10)
           c4(x) == Points(x.fqdn # "" /\ x.fqdn \notin Wildcards \cup Starred, 10)
           p2(x) == Points(x.fqdn = "" /\ isPublicIP(x.ip), 30)
           p3(x) == Points(isWildcardLarge(x.fqdn), 30)
<1>0. e \in DestEntry /\ f \in DestEntry
  BY DEF SeenEntry
<1>1. /\ f.fqdn = e.fqdn /\ f.ip = e.ip /\ f.port = e.port
      /\ e.flows \in Nat /\ e.snaps \in Nat /\ f.flows \in Nat /\ f.snaps \in Nat
      /\ e.flows >= 1 /\ e.snaps >= 1 /\ f.flows >= e.flows /\ f.snaps >= e.snaps
  BY DEF Grown, KeyOf, SeenEntry, DestEntry
<1>2. /\ Credit(e) = 50 + c1(e) + c2(e) + c3(e) + c4(e)
      /\ Credit(f) = 50 + c1(f) + c2(f) + c3(f) + c4(f)
      /\ Penalty(e) = SeenOnce(e) + p2(e) + p3(e)
      /\ Penalty(f) = SeenOnce(f) + p2(f) + p3(f)
  BY Zenon DEF Credit, Penalty
<1>3. c3(f) = c3(e) /\ c4(f) = c4(e) /\ p2(f) = p2(e) /\ p3(f) = p3(e)
  BY <1>1, Zenon
<1>4. /\ c3(e) \in {0, 10} /\ c4(e) \in {0, 10}
      /\ p2(e) \in {0, 30} /\ p3(e) \in {0, 30}
  BY <1>0, ScoreParts, Zenon
<1>5. \A x \in DestEntry :
        /\ c1(x) = IF x.snaps >= 3 THEN 25 ELSE 0
        /\ c2(x) = IF x.flows >= 10 THEN 15 ELSE 0
        /\ SeenOnce(x) = IF x.snaps = 1 /\ x.flows = 1 THEN 15 ELSE 0
  BY ScoreParts, Zenon
<1> HIDE DEF c1, c2, c3, c4, p2, p3
<1>6. Credit(e) \in Nat /\ Credit(f) \in Nat /\ Credit(e) <= Credit(f)
  BY <1>0, <1>1, <1>2, <1>3, <1>4, <1>5
<1>7. Penalty(e) \in Nat /\ Penalty(f) \in Nat /\ Penalty(f) <= Penalty(e)
  BY <1>0, <1>1, <1>2, <1>3, <1>4, <1>5
<1> QED
  BY <1>6, <1>7 DEF Score

\* So a destination that is not excluded as High does not become so.
LEMMA HighNotGained ==
  ASSUME NEW e \in SeenEntry, NEW f \in SeenEntry, Grown(e, f), ~IsHigh(e)
  PROVE  ~IsHigh(f)
<1>1. f.fqdn = e.fqdn /\ f.ip = e.ip
  BY DEF Grown, KeyOf
<1>2. Score(e) \in Int /\ Score(f) \in Int /\ Score(e) <= Score(f)
  BY ScoreGrows, ScoreType DEF SeenEntry
<1>3. ~IsDirectPublicIP(f.fqdn, f.ip)
  BY <1>1 DEF IsHigh
<1>4. RiskLevel(e, Score(e)) # "High"
  BY DEF IsHigh, Risk
<1>5. ~((f.fqdn = "" /\ isPublicIP(f.ip)) \/ isWildcardLarge(f.fqdn))
  BY <1>1, <1>4, Zenon DEF RiskLevel
<1>6. Score(e) >= 50
  <2>1. Score(e) >= 80 \/ Score(e) >= 50
    BY <1>1, <1>4, <1>5, Zenon DEF RiskLevel
  <2> QED
    BY <1>2, <2>1
<1>7. Score(f) >= 50
  BY <1>2, <1>6
<1>8. RiskLevel(f, Score(f)) # "High"
  BY <1>5, <1>7, Zenon DEF RiskLevel
<1> QED
  BY <1>3, <1>8 DEF IsHigh, Risk

\* Watching longer never takes a destination out of the policy: the thresholds
\* and the seen-once penalty of scorer.go move a score in one direction only.
THEOREM LongerWatchAllowsMore == Spec => AllowedStaysAllowed
<1>1. ASSUME SnapInv, [Next]_snap,
             \A e \in Range(snap) : \E f \in Range(snap') : KeyOf(f) = KeyOf(e)
      PROVE  Allowed(snap) \subseteq Allowed(snap')
  <2> SUFFICES ASSUME NEW a \in Allowed(snap) PROVE a \in Allowed(snap')
    OBVIOUS
  <2>1. PICK e \in Range(snap) :
          /\ a = [fqdn |-> e.fqdn, port |-> e.port, proto |-> e.proto]
          /\ e.fqdn # "" /\ WildcardRisk(e.fqdn) # "Medium" /\ ~IsHigh(e)
    BY DEF Allowed
  <2>2. PICK f \in Range(snap') : KeyOf(f) = KeyOf(e)
    BY <1>1
  <2>3. Grown(e, f) /\ SnapInv'
    BY <1>1, <2>2, SnapNext
  <2>4. e \in SeenEntry /\ f \in SeenEntry
    BY <1>1, <2>3, RangeOfSeq DEF SnapInv
  <2>5. ~IsHigh(f)
    BY <2>1, <2>3, <2>4, HighNotGained
  <2>6. f.fqdn = e.fqdn /\ f.port = e.port /\ f.proto = e.proto
    BY <2>2 DEF KeyOf
  <2> QED
    BY <2>1, <2>5, <2>6 DEF Allowed
<1>2. SnapInv /\ [Next]_snap =>
        [(\A e \in Range(snap) : \E f \in Range(snap') : KeyOf(f) = KeyOf(e))
           => Allowed(snap) \subseteq Allowed(snap')]_snap
  BY <1>1
<1> QED
  BY <1>2, SnapshotsWellFormed, PTL DEF Spec, AllowedStaysAllowed

-----------------------------------------------------------------------------
(* The drift report.                                                       *)

\* Two destinations with the same identity, one of them named, have the same
\* name: no name is an address.
LEMMA SameNamedDestination ==
  ASSUME NEW e \in DestEntry, NEW x \in DestEntry, x.fqdn # "",
         destID(e) = destID(x)
  PROVE  e.fqdn = x.fqdn /\ e.port = x.port /\ e.proto = x.proto
<1>1. destID(x).host = x.fqdn /\ e.port = x.port /\ e.proto = x.proto
  BY DEF destID
<1>2. x.fqdn \notin Addresses
  <2>1. x.fqdn \in Names \ {""}
    BY DEF DestEntry
  <2> QED
    BY <2>1 DEF Names, PlainNames, Wildcards, Starred, Addresses
<1>3. e.ip \in Addresses
  BY DEF DestEntry
<1>4. destID(e).host = IF e.fqdn # "" THEN e.fqdn ELSE e.ip
  BY DEF destID
<1> QED
  BY <1>1, <1>2, <1>3, <1>4

\* What one snapshot allows and another does not, the index explains.
LEMMA IndexExplains ==
  ASSUME NEW from \in Seq(DestEntry), NEW to \in Seq(DestEntry)
  PROVE  Explained(from, to, indexSnapshot(to) \ indexSnapshot(from))
<1> SUFFICES ASSUME NEW a \in Allowed(to) \ Allowed(from),
                    [host |-> a.fqdn, port |-> a.port, proto |-> a.proto]
                      \notin indexSnapshot(to) \ indexSnapshot(from)
             PROVE  \E e \in Range(from) :
                      /\ e.fqdn = a.fqdn /\ e.port = a.port /\ e.proto = a.proto
                      /\ IsHigh(e)
  BY DEF Explained
<1>1. PICK x \in Range(to) :
        /\ a = [fqdn |-> x.fqdn, port |-> x.port, proto |-> x.proto]
        /\ x.fqdn # "" /\ WildcardRisk(x.fqdn) # "Medium" /\ ~IsHigh(x)
  BY DEF Allowed
<1>2. destID(x) = [host |-> a.fqdn, port |-> a.port, proto |-> a.proto]
  BY <1>1 DEF destID
<1>3. destID(x) \in indexSnapshot(to)
  BY DEF indexSnapshot
<1>4. PICK e \in Range(from) : destID(e) = destID(x)
  BY <1>2, <1>3 DEF indexSnapshot
<1>5. e \in DestEntry /\ x \in DestEntry
  BY RangeOfSeq
<1>6. e.fqdn = x.fqdn /\ e.port = x.port /\ e.proto = x.proto
  BY <1>1, <1>4, <1>5, SameNamedDestination
<1>7. IsHigh(e)
  BY <1>1, <1>6 DEF Allowed
<1> QED
  BY <1>1, <1>6, <1>7

\* The drift report explains the policy between any two snapshots: drift.go
\* identifies destinations by name and policy_generator.go scores addresses.
THEOREM DriftExplains == Spec => DriftExplainsPolicy
<1>1. ASSUME SnapInv, SnapInv'
      PROVE  /\ Explained(snap, snap', Detect(snap, snap').new)
             /\ Explained(snap', snap, Detect(snap, snap').removed)
  <2>1. snap \in Seq(DestEntry) /\ snap' \in Seq(DestEntry)
    <3>1. SeenEntry \subseteq DestEntry
      BY DEF SeenEntry
    <3> QED
      BY <1>1, <3>1, SeqMonotonic DEF SnapInv
  <2>2. /\ Detect(snap, snap').new = indexSnapshot(snap') \ indexSnapshot(snap)
        /\ Detect(snap, snap').removed = indexSnapshot(snap) \ indexSnapshot(snap')
    BY DEF Detect
  <2> QED
    BY <2>1, <2>2, IndexExplains
<1>2. SnapInv /\ SnapInv' =>
        [/\ Explained(snap, snap', Detect(snap, snap').new)
         /\ Explained(snap', snap, Detect(snap, snap').removed)]_snap
  BY <1>1
<1> QED
  BY <1>2, SnapshotsWellFormed, PTL DEF DriftExplainsPolicy

-----------------------------------------------------------------------------
(* Loops.                                                                  *)

\* A bounded set of natural numbers that is not empty has a maximum.
LEMMA MaxProperties ==
  ASSUME NEW n \in Nat, NEW T, T \subseteq 0..n, T # {}
  PROVE  Max(T) \in T /\ \A y \in T : y <= Max(T)
<1> DEFINE U == {n - x : x \in T}
<1>1. U \subseteq Nat /\ U # {}
  <2>1. \A x \in T : n - x \in Nat
    OBVIOUS
  <2> QED
    BY <2>1
<1>2. PICK u \in U : \A v \in U : ~(v < u)
  BY <1>1, LeastNatural
<1>3. PICK x \in T : u = n - x
  OBVIOUS
<1>4. \A y \in T : x >= y
  BY <1>2, <1>3
<1>5. \E z \in T : \A y \in T : z >= y
  BY <1>4
<1>6. Max(T) \in T /\ \A y \in T : Max(T) >= y
  BY <1>5 DEF Max
<1> QED
  BY <1>6

\* f[i] is what a loop has made of base after its first i steps.
Runs(f, n, base, step) ==
  \A i \in 0..n : f[i] = IF i = 0 THEN base ELSE step[i][f[i - 1]]

\* A loop over 1..n that starts with base computes something after each step.
LEMMA Iterates ==
  ASSUME NEW n \in Nat, NEW V, NEW base \in V, NEW step \in [1..n -> [V -> V]]
  PROVE  \E f \in [0..n -> V] : Runs(f, n, base, step)
<1> DEFINE val == [i \in 0..n |-> base]
           jump == [i \in 0..n |-> i - 1]
<1>1. \A i \in 0..n : i \in {0} => val[i] \in V
  OBVIOUS
<1>2. ASSUME NEW i \in 0..n, i \notin {0}
      PROVE  step[i] \in [V -> V] /\ jump[i] \in 0..(i - 1)
  BY <1>2
<1>3. \A i \in 0..n : val[i] = base /\ jump[i] = i - 1
  OBVIOUS
<1> HIDE DEF val, jump
<1>4. PICK f \in [0..n -> V] : Computes(f, n, {0}, val, step, jump)
  BY <1>1, <1>2, RecursionDown
<1>5. ASSUME NEW i \in 0..n
      PROVE  f[i] = IF i = 0 THEN base ELSE step[i][f[i - 1]]
  <2>1. f[i] = IF i \in {0} THEN val[i] ELSE step[i][f[jump[i]]]
    BY <1>4 DEF Computes
  <2>2. val[i] = base /\ jump[i] = i - 1
    BY <1>3
  <2> QED
    BY <2>1, <2>2
<1>6. Runs(f, n, base, step)
  BY <1>5 DEF Runs
<1> QED
  BY <1>6

-----------------------------------------------------------------------------
(* sortByRisk.                                                             *)

Rank(e) == RiskOrder(Risk(e))

\* Risks are ordered by numbers.
LEMMA RankType == \A e : Rank(e) \in 0..2
BY DEF Rank, RiskOrder

\* The place after which an entry is inserted, 0 for the front.
StopOf(sorted, e) == Max({0} \cup StopsAfter(sorted, e))

\* It is the last place of an entry whose risk is not higher.
LEMMA StopOfProperties ==
  ASSUME NEW sorted \in Seq(DestEntry), NEW e \in DestEntry
  PROVE  /\ StopOf(sorted, e) \in 0..Len(sorted)
         /\ StopOf(sorted, e) # 0 => Rank(sorted[StopOf(sorted, e)]) <= Rank(e)
         /\ \A p \in 1..Len(sorted) :
              Rank(sorted[p]) <= Rank(e) => p <= StopOf(sorted, e)
<1> DEFINE T == {0} \cup StopsAfter(sorted, e)
<1>1. Len(sorted) \in Nat
  BY LenProperties
<1>2. StopsAfter(sorted, e) = {p \in 1..Len(sorted) : Rank(sorted[p]) <= Rank(e)}
  BY DEF StopsAfter, Rank
<1>3. T \subseteq 0..Len(sorted) /\ T # {}
  BY <1>1, <1>2
<1> HIDE DEF T
<1>4. Max(T) \in T /\ \A y \in T : y <= Max(T)
  BY <1>1, <1>3, MaxProperties
<1>5. StopOf(sorted, e) = Max(T)
  BY DEF StopOf, T
<1> QED
  BY <1>2, <1>3, <1>4, <1>5 DEF T

\* What inserting an entry does.
LEMMA InsertedProperties ==
  ASSUME NEW sorted \in Seq(DestEntry), NEW e \in DestEntry
  PROVE  /\ Inserted(sorted, e) \in Seq(DestEntry)
         /\ Len(Inserted(sorted, e)) = Len(sorted) + 1
         /\ \A p \in 1..(Len(sorted) + 1) :
              Inserted(sorted, e)[p] =
                IF p <= StopOf(sorted, e) THEN sorted[p]
                ELSE IF p = StopOf(sorted, e) + 1 THEN e ELSE sorted[p - 1]
<1> DEFINE k == 1 + StopOf(sorted, e)
<1>1. Len(sorted) \in Nat
  BY LenProperties
<1>2. StopOf(sorted, e) \in 0..Len(sorted)
  BY StopOfProperties
<1>3. k \in 1..(Len(sorted) + 1)
  BY <1>1, <1>2
<1>4. Inserted(sorted, e) = InsertAt(sorted, k, e)
  BY DEF Inserted, StopOf
<1> HIDE DEF k
<1>5. /\ Inserted(sorted, e) \in Seq(DestEntry)
      /\ IsInsertion(Inserted(sorted, e), sorted, k, e)
  BY <1>3, <1>4, InsertAtProperties
<1> QED
  BY <1>1, <1>2, <1>5 DEF k, IsInsertion

\* The loop of sortByRisk, unfolded.
LEMMA SortingUnfolds ==
  ASSUME NEW s \in Seq(DestEntry)
  PROVE  /\ Sorting(s)[0] = <<>>
         /\ \A m \in 0..(Len(s) - 1) :
              Sorting(s)[m + 1] = Inserted(Sorting(s)[m], s[m + 1])
<1> DEFINE n == Len(s)
           V == Seq(DestEntry)
           step == [i \in 1..n |-> [x \in V |-> Inserted(x, s[i])]]
           Solves(f) == f = [i \in 0..n |->
                               IF i = 0 THEN <<>> ELSE Inserted(f[i - 1], s[i])]
<1>1. n \in Nat /\ \A i \in 1..n : s[i] \in DestEntry
  BY LenProperties
<1>2. step \in [1..n -> [V -> V]]
  BY <1>1, InsertedProperties
<1> DEFINE base == <<>>
<1>3. base \in V
  OBVIOUS
<1> HIDE DEF n, V, step, base
<1>4. PICK f \in [0..n -> V] : Runs(f, n, base, step)
  BY <1>1, <1>2, <1>3, Iterates
<1>6. \A i \in 1..n : step[i][f[i - 1]] = Inserted(f[i - 1], s[i])
  <2> TAKE i \in 1..n
  <2>1. i - 1 \in 0..n
    BY <1>1
  <2>2. f[i - 1] \in V
    BY <2>1
  <2> QED
    BY <2>2 DEF step
<1>7. Solves(f)
  <2>1. \A i \in 0..n : i = 0 \/ i \in 1..n
    BY <1>1
  <2> QED
    BY <1>4, <1>6, <2>1 DEF base, Runs
<1>8. Sorting(s) = CHOOSE g : Solves(g)
  BY DEF Sorting, n
<1> HIDE DEF Solves
<1>9. Solves(Sorting(s))
  BY <1>7, <1>8
<1>10. \A i \in 0..n : Sorting(s)[i] =
         IF i = 0 THEN <<>> ELSE Inserted(Sorting(s)[i - 1], s[i])
  BY <1>9 DEF Solves
<1>11. \A m \in 0..(n - 1) : m + 1 \in 0..n /\ m + 1 # 0 /\ (m + 1) - 1 = m
  BY <1>1
<1>12. 0 \in 0..n
  BY <1>1
<1> QED
  BY <1>10, <1>11, <1>12 DEF n

\* The order of a stable sort of s.
Ahead(s, i, j) ==
  Rank(s[i]) < Rank(s[j]) \/ (Rank(s[i]) = Rank(s[j]) /\ i < j)

\* place says where the first m entries of s are in sorted.
Places(s, m, sorted, place) ==
  /\ \A i \in 1..m : sorted[place[i]] = s[i]
  /\ \A i, j \in 1..m : place[i] < place[j] <=> Ahead(s, i, j)

\* sorted is the stable sort of the first m entries of s.
Sorts(s, m, sorted) ==
  /\ sorted \in Seq(DestEntry) /\ Len(sorted) = m
  /\ \A p, q \in 1..m : p < q => Rank(sorted[p]) <= Rank(sorted[q])
  /\ \E place \in [1..m -> 1..m] : Places(s, m, sorted, place)

\* Inserting one entry keeps the sort stable.
LEMMA InsertedSorts ==
  ASSUME NEW s \in Seq(DestEntry), NEW m \in 0..(Len(s) - 1), NEW sorted,
         Sorts(s, m, sorted)
  PROVE  Sorts(s, m + 1, Inserted(sorted, s[m + 1]))
<1> DEFINE e == s[m + 1]
           k == StopOf(sorted, e)
           t == Inserted(sorted, e)
<1>0. m \in Nat /\ Len(s) \in Nat /\ m + 1 \in 1..Len(s)
  BY LenProperties
<1>1. e \in DestEntry /\ sorted \in Seq(DestEntry) /\ Len(sorted) = m
  BY <1>0, ElementOfSeq DEF Sorts
<1>2. /\ k \in 0..m
      /\ k # 0 => Rank(sorted[k]) <= Rank(e)
      /\ \A p \in 1..m : Rank(sorted[p]) <= Rank(e) => p <= k
  BY <1>1, StopOfProperties
<1>3. /\ t \in Seq(DestEntry) /\ Len(t) = m + 1
      /\ \A p \in 1..(m + 1) :
           t[p] = IF p <= k THEN sorted[p] ELSE IF p = k + 1 THEN e ELSE sorted[p - 1]
  BY <1>1, InsertedProperties
<1>4. \A x : Rank(x) \in Int
  BY RankType
<1>5. \A p, q \in 1..m : p <= q => Rank(sorted[p]) <= Rank(sorted[q])
  BY <1>4 DEF Sorts
<1> HIDE DEF k, t, e
<1>6. \A p \in 1..m : p <= k <=> Rank(sorted[p]) <= Rank(e)
  <2> TAKE p \in 1..m
  <2>1. ASSUME p <= k PROVE Rank(sorted[p]) <= Rank(e)
    <3>1. k # 0 /\ k \in 1..m
      BY <1>0, <1>2, <2>1
    <3>2. Rank(sorted[p]) <= Rank(sorted[k])
      BY <1>5, <2>1, <3>1
    <3> QED
      BY <1>2, <1>4, <3>1, <3>2
  <2> QED
    BY <1>2, <2>1
<1>7. \A p, q \in 1..(m + 1) : p < q => Rank(t[p]) <= Rank(t[q])
  <2> SUFFICES ASSUME NEW p \in 1..(m + 1), NEW q \in 1..(m + 1), p < q
               PROVE  Rank(t[p]) <= Rank(t[q])
    OBVIOUS
  <2>1. CASE q <= k
    <3>1. /\ t[p] = sorted[p] /\ t[q] = sorted[q]
          /\ p \in 1..m /\ q \in 1..m /\ p <= q
      BY <1>0, <1>2, <1>3, <2>1
    <3> QED
      BY <1>5, <3>1
  <2>2. CASE q = k + 1
    <3>1. t[p] = sorted[p] /\ t[q] = e /\ p \in 1..m /\ p <= k
      BY <1>0, <1>2, <1>3, <2>2
    <3> QED
      BY <1>6, <3>1
  <2>3. CASE q > k + 1
    <3>1. t[q] = sorted[q - 1] /\ q - 1 \in 1..m /\ ~(q - 1 <= k)
      BY <1>0, <1>2, <1>3, <2>3
    <3>2. Rank(e) <= Rank(t[q])
      BY <1>4, <1>6, <3>1
    <3>3. CASE p <= k
      <4>1. t[p] = sorted[p] /\ p \in 1..m /\ p <= q - 1
        BY <1>0, <1>2, <1>3, <3>3
      <4> QED
        BY <1>5, <3>1, <4>1
    <3>4. CASE p = k + 1
      <4>1. t[p] = e
        BY <1>0, <1>2, <1>3, <3>4
      <4> QED
        BY <3>2, <4>1
    <3>5. CASE p > k + 1
      <4>1. t[p] = sorted[p - 1] /\ p - 1 \in 1..m /\ p - 1 <= q - 1
        BY <1>0, <1>2, <1>3, <3>5
      <4> QED
        BY <1>5, <3>1, <4>1
    <3> QED
      BY <1>0, <1>2, <3>3, <3>4, <3>5
  <2> QED
    BY <1>0, <1>2, <2>1, <2>2, <2>3
<1>8. PICK place \in [1..m -> 1..m] : Places(s, m, sorted, place)
  BY DEF Sorts
<1> DEFINE moved == [i \in 1..(m + 1) |->
             IF i = m + 1 THEN k + 1
             ELSE IF place[i] <= k THEN place[i] ELSE place[i] + 1]
<1>9. moved \in [1..(m + 1) -> 1..(m + 1)]
  <2>1. \A i \in 1..(m + 1) : i = m + 1 \/ (i # m + 1 /\ place[i] \in 1..m)
    BY <1>0
  <2>2. \A p \in 1..m : p \in 1..(m + 1) /\ p + 1 \in 1..(m + 1)
    BY <1>0
  <2>3. k + 1 \in 1..(m + 1)
    BY <1>0, <1>2
  <2> QED
    BY <2>1, <2>2, <2>3
<1>10. /\ moved[m + 1] = k + 1
       /\ \A i \in 1..m : /\ place[i] \in 1..m /\ place[i] \in Int
                          /\ moved[i] = IF place[i] <= k THEN place[i] ELSE place[i] + 1
  <2>1. m + 1 \in 1..(m + 1) /\ \A i \in 1..m : i \in 1..(m + 1) /\ i # m + 1
    BY <1>0
  <2>2. \A i \in 1..m : place[i] \in 1..m /\ place[i] \in Int
    BY <1>0
  <2> QED
    BY <2>1, <2>2
<1>k. k \in Int /\ 0 <= k /\ k <= m
  BY <1>0, <1>2
<1>11. \A i \in 1..m : sorted[place[i]] = s[i]
  BY <1>8 DEF Places
<1> HIDE DEF moved
<1>12. \A i \in 1..(m + 1) : t[moved[i]] = s[i]
  <2> TAKE i \in 1..(m + 1)
  <2>1. CASE i = m + 1
    <3>1. moved[i] = k + 1 /\ k + 1 \in 1..(m + 1) /\ ~(k + 1 <= k)
      BY <1>0, <1>k, <1>10, <2>1
    <3>2. t[k + 1] = e
      BY <1>3, <3>1
    <3> QED
      BY <2>1, <3>1, <3>2 DEF e
  <2>2. CASE i \in 1..m
    <3>1. t[moved[i]] = sorted[place[i]]
      <4>1. CASE place[i] <= k
        <5>1. moved[i] = place[i] /\ place[i] \in 1..(m + 1)
          <6>1. \A p \in 1..m : p \in 1..(m + 1)
            BY <1>0
          <6> QED
            BY <1>10, <2>2, <4>1, <6>1
        <5> QED
          BY <1>3, <4>1, <5>1
      <4>2. CASE ~(place[i] <= k)
        <5>1. /\ moved[i] = place[i] + 1 /\ place[i] + 1 \in 1..(m + 1)
              /\ ~(place[i] + 1 <= k) /\ place[i] + 1 # k + 1
              /\ (place[i] + 1) - 1 = place[i]
          <6>1. \A p \in 1..m : ~(p <= k) =>
                  /\ p + 1 \in 1..(m + 1) /\ ~(p + 1 <= k)
                  /\ p + 1 # k + 1 /\ (p + 1) - 1 = p
            BY <1>0, <1>k
          <6> QED
            BY <1>10, <2>2, <4>2, <6>1
        <5>2. t[place[i] + 1] = sorted[(place[i] + 1) - 1]
          BY <1>3, <5>1
        <5> QED
          BY <5>1, <5>2
      <4> QED
        BY <4>1, <4>2
    <3> QED
      BY <1>11, <2>2, <3>1
  <2> QED
    BY <1>0, <2>1, <2>2
<1>13. \A i, j \in 1..(m + 1) : moved[i] < moved[j] <=> Ahead(s, i, j)
  <2> SUFFICES ASSUME NEW i \in 1..(m + 1), NEW j \in 1..(m + 1)
               PROVE  moved[i] < moved[j] <=> Ahead(s, i, j)
    OBVIOUS
  <2>1. CASE i \in 1..m /\ j \in 1..m
    <3>1. moved[i] < moved[j] <=> place[i] < place[j]
      <4> DEFINE a == place[i]
                 b == place[j]
      <4>1. /\ a \in Int /\ b \in Int
            /\ moved[i] = IF a <= k THEN a ELSE a + 1
            /\ moved[j] = IF b <= k THEN b ELSE b + 1
        BY <1>10, <2>1
      <4> HIDE DEF a, b
      <4>2. moved[i] < moved[j] <=> a < b
        BY <1>k, <4>1
      <4> QED
        BY <4>2 DEF a, b
    <3> QED
      BY <1>8, <2>1, <3>1 DEF Places
  <2>2. CASE i \in 1..m /\ j = m + 1
    <3>1. moved[i] < moved[j] <=> place[i] <= k
      BY <1>k, <1>10, <2>2
    <3>2. place[i] <= k <=> Rank(s[i]) <= Rank(e)
      BY <1>6, <1>10, <1>11, <2>2
    <3>3. Ahead(s, i, j) <=> Rank(s[i]) <= Rank(e)
      <4>1. s[j] = e /\ i < j /\ Rank(s[i]) \in Int /\ Rank(e) \in Int
        BY <1>0, <1>4, <2>2 DEF e
      <4> QED
        BY <4>1 DEF Ahead
    <3> QED
      BY <3>1, <3>2, <3>3
  <2>3. CASE i = m + 1 /\ j \in 1..m
    <3>1. moved[i] < moved[j] <=> ~(place[j] <= k)
      BY <1>k, <1>10, <2>3
    <3>2. place[j] <= k <=> Rank(s[j]) <= Rank(e)
      BY <1>6, <1>10, <1>11, <2>3
    <3>3. Ahead(s, i, j) <=> ~(Rank(s[j]) <= Rank(e))
      <4>1. s[i] = e /\ ~(i < j) /\ Rank(s[j]) \in Int /\ Rank(e) \in Int
        BY <1>0, <1>4, <2>3 DEF e
      <4> QED
        BY <4>1 DEF Ahead
    <3> QED
      BY <3>1, <3>2, <3>3
  <2>4. CASE i = m + 1 /\ j = m + 1
    <3>1. ~(moved[i] < moved[j])
      BY <1>k, <1>10, <2>4
    <3>2. ~Ahead(s, i, j)
      BY <1>0, <1>4, <2>4 DEF Ahead
    <3> QED
      BY <3>1, <3>2
  <2>5. \A l \in 1..(m + 1) : l \in 1..m \/ l = m + 1
    BY <1>0
  <2> QED
    BY <2>1, <2>2, <2>3, <2>4, <2>5
<1>14. Places(s, m + 1, t, moved)
  BY <1>12, <1>13 DEF Places
<1>15. Sorts(s, m + 1, t)
  BY <1>3, <1>7, <1>9, <1>14 DEF Sorts
<1> QED
  BY <1>15 DEF t, e

\* After each of its steps the loop has sorted what it has seen.
LEMMA BuildSorts ==
  ASSUME NEW s \in Seq(DestEntry)
  PROVE  Sorts(s, Len(s), Build(s))
<1> DEFINE S == {m \in 0..Len(s) : Sorts(s, m, Sorting(s)[m])}
<1>0. Len(s) \in Nat
  BY LenProperties
<1>1. 0 \in S
  <2>1. Sorts(s, 0, <<>>)
    <3>1. <<>> \in Seq(DestEntry) /\ Len(<<>>) = 0
      BY EmptySeq
    <3> DEFINE place == [i \in 1..0 |-> 1]
    <3>2. place \in [1..0 -> 1..0] /\ \A i \in 1..0 : FALSE
      OBVIOUS
    <3>3. Places(s, 0, <<>>, place)
      BY <3>2 DEF Places
    <3> HIDE DEF place
    <3> QED
      BY <3>1, <3>2, <3>3 DEF Sorts
  <2> QED
    BY <1>0, <2>1, SortingUnfolds
<1>2. ASSUME NEW m \in 0..(Len(s) - 1), m \in S PROVE m + 1 \in S
  <2>1. Sorts(s, m + 1, Inserted(Sorting(s)[m], s[m + 1]))
    BY <1>2, InsertedSorts
  <2>2. Sorting(s)[m + 1] = Inserted(Sorting(s)[m], s[m + 1])
    BY SortingUnfolds
  <2>3. m + 1 \in 0..Len(s)
    BY <1>0
  <2> QED
    BY <2>1, <2>2, <2>3
<1> HIDE DEF S
<1>3. 0..Len(s) \subseteq S
  BY <1>0, <1>1, <1>2, InductionUpTo
<1>4. Len(s) \in S
  BY <1>0, <1>3
<1> QED
  BY <1>4 DEF S, Build

\* Build is a stable sort by risk of whatever snapshot it is given, as
\* builder.go:26 says of sortByRisk.
THEOREM StableSort == Spec => []BuildIsStableSort
<1>1. ASSUME SnapInv PROVE BuildIsStableSort
  <2>1. snap \in Seq(DestEntry) /\ DOMAIN snap = 1..Len(snap)
    <3>1. SeenEntry \subseteq DestEntry
      BY DEF SeenEntry
    <3> QED
      BY <1>1, <3>1, SeqMonotonic, LenProperties DEF SnapInv
  <2>2. Sorts(snap, Len(snap), Build(snap))
    BY <2>1, BuildSorts
  <2>3. PICK place \in [DOMAIN snap -> DOMAIN snap] :
          Places(snap, Len(snap), Build(snap), place)
    BY <2>1, <2>2 DEF Sorts
  <2>4. \A i, j : Before(i, j) <=> Ahead(snap, i, j)
    BY DEF Before, Ahead, Rank
  <2>5. /\ \A i \in DOMAIN snap : Build(snap)[place[i]] = snap[i]
        /\ \A i, j \in DOMAIN snap : place[i] < place[j] <=> Before(i, j)
    BY <2>1, <2>3, <2>4 DEF Places
  <2>6. Len(Build(snap)) = Len(snap)
    BY <2>2 DEF Sorts
  <2> QED
    BY <2>5, <2>6 DEF BuildIsStableSort
<1> QED
  BY <1>1, SnapshotsWellFormed, PTL

-----------------------------------------------------------------------------
(* The list of excluded destinations.                                      *)

\* The generator leaves the entry out of the policy and lists it.
IsListed(e) == IsHigh(e) \/ IsMediumWildcard(e)

ExcludedEntry == {Excluded(e) : e \in DestEntry}

\* What one step of Generate's loop adds to the list.
Listing(excluded, e) ==
  IF IsHigh(e) \/ IsMediumWildcard(e) THEN Append(excluded, Excluded(e))
  ELSE excluded

\* A step adds at most one record, at the end.
LEMMA ListingProperties ==
  ASSUME NEW x \in Seq(ExcludedEntry), NEW e \in DestEntry
  PROVE  /\ Listing(x, e) \in Seq(ExcludedEntry)
         /\ Len(Listing(x, e)) \in Nat /\ Len(x) \in Nat
         /\ Len(Listing(x, e)) = IF IsListed(e) THEN Len(x) + 1 ELSE Len(x)
         /\ \A i \in 1..Len(x) : Listing(x, e)[i] = x[i]
         /\ IsListed(e) => Listing(x, e)[Len(x) + 1] = Excluded(e)
<1>1. Excluded(e) \in ExcludedEntry
  BY DEF ExcludedEntry
<1>2. Len(x) \in Nat
  BY LenProperties
<1>3. CASE IsListed(e)
  <2>1. Listing(x, e) = Append(x, Excluded(e))
    BY <1>3 DEF Listing, IsListed
  <2> QED
    BY <1>1, <1>2, <1>3, <2>1, AppendProperties
<1>4. CASE ~IsListed(e)
  <2>1. Listing(x, e) = x
    BY <1>4 DEF Listing, IsListed
  <2> QED
    BY <1>2, <1>4, <2>1
<1> QED
  BY <1>3, <1>4

\* Generate's loop, unfolded.
LEMMA ExcludingUnfolds ==
  ASSUME NEW s \in Seq(DestEntry)
  PROVE  /\ Excluding(s)[0] = <<>>
         /\ \A m \in 0..(Len(s) - 1) :
              Excluding(s)[m + 1] = Listing(Excluding(s)[m], s[m + 1])
<1> DEFINE n == Len(s)
           V == Seq(ExcludedEntry)
           base == <<>>
           step == [i \in 1..n |-> [x \in V |-> Listing(x, s[i])]]
           Solves(f) == f = [i \in 0..n |->
             IF i = 0 THEN <<>>
             ELSE IF IsHigh(s[i]) \/ IsMediumWildcard(s[i])
               THEN Append(f[i - 1], Excluded(s[i])) ELSE f[i - 1]]
<1>1. n \in Nat /\ \A i \in 1..n : s[i] \in DestEntry
  BY LenProperties
<1>2. step \in [1..n -> [V -> V]]
  BY <1>1, ListingProperties
<1>3. base \in V
  OBVIOUS
<1> HIDE DEF n, V, step, base
<1>4. PICK f \in [0..n -> V] : Runs(f, n, base, step)
  BY <1>1, <1>2, <1>3, Iterates
<1>5. \A i \in 1..n : step[i][f[i - 1]] = Listing(f[i - 1], s[i])
  <2> TAKE i \in 1..n
  <2>1. i - 1 \in 0..n
    BY <1>1
  <2>2. f[i - 1] \in V
    BY <2>1
  <2> QED
    BY <2>2 DEF step
<1>6. Solves(f)
  <2>1. \A i \in 0..n : i = 0 \/ i \in 1..n
    BY <1>1
  <2>2. \A i \in 0..n : f[i] = IF i = 0 THEN <<>> ELSE Listing(f[i - 1], s[i])
    BY <1>4, <1>5, <2>1 DEF base, Runs
  <2> QED
    BY <2>2 DEF Listing
<1>7. Excluding(s) = CHOOSE g : Solves(g)
  BY DEF Excluding, n
<1> HIDE DEF Solves
<1>8. Solves(Excluding(s))
  BY <1>6, <1>7
<1>9. \A i \in 0..n : Excluding(s)[i] =
        IF i = 0 THEN <<>> ELSE Listing(Excluding(s)[i - 1], s[i])
  BY <1>8 DEF Solves, Listing
<1>10. \A m \in 0..(n - 1) : m + 1 \in 0..n /\ m + 1 # 0 /\ (m + 1) - 1 = m
  BY <1>1
<1>11. 0 \in 0..n
  BY <1>1
<1> QED
  BY <1>9, <1>10, <1>11 DEF n

\* at says where the records of the first m entries of s are in the list x.
RecordsAt(s, m, x, at) ==
  /\ \A i \in 1..m : IsListed(s[i]) =>
       at[i] \in 1..Len(x) /\ x[at[i]] = Excluded(s[i])
  /\ \A i, j \in 1..m :
       IsListed(s[i]) /\ IsListed(s[j]) /\ at[i] = at[j] => i = j

\* Every excluded entry has a record of its own.
Records(s, m, x) ==
  /\ x \in Seq(ExcludedEntry)
  /\ \E at \in [1..m -> Nat] : RecordsAt(s, m, x, at)

\* A step of the loop keeps the records and adds one if it must.
LEMMA ListingRecords ==
  ASSUME NEW s \in Seq(DestEntry), NEW m \in 0..(Len(s) - 1), NEW x,
         Records(s, m, x)
  PROVE  Records(s, m + 1, Listing(x, s[m + 1]))
<1> DEFINE e == s[m + 1]
           y == Listing(x, e)
<1>0. m \in Nat /\ Len(s) \in Nat /\ m + 1 \in 1..Len(s)
  BY LenProperties
<1>1. e \in DestEntry /\ x \in Seq(ExcludedEntry)
  BY <1>0, ElementOfSeq DEF Records
<1>2. /\ y \in Seq(ExcludedEntry) /\ Len(y) \in Nat /\ Len(x) \in Nat
      /\ Len(y) = IF IsListed(e) THEN Len(x) + 1 ELSE Len(x)
      /\ \A i \in 1..Len(x) : y[i] = x[i]
      /\ IsListed(e) => y[Len(x) + 1] = Excluded(e)
  BY <1>1, ListingProperties
<1>3. PICK at \in [1..m -> Nat] : RecordsAt(s, m, x, at)
  BY DEF Records
<1> DEFINE more == [i \in 1..(m + 1) |-> IF i = m + 1 THEN Len(x) + 1 ELSE at[i]]
<1>4. /\ more \in [1..(m + 1) -> Nat]
      /\ more[m + 1] = Len(x) + 1
      /\ \A i \in 1..m : more[i] = at[i]
  <2>1. \A i \in 1..(m + 1) : i = m + 1 \/ at[i] \in Nat
    BY <1>0
  <2>2. m + 1 \in 1..(m + 1) /\ \A i \in 1..m : i \in 1..(m + 1) /\ i # m + 1
    BY <1>0
  <2> QED
    BY <1>2, <2>1, <2>2
<1>5. \A i \in 1..(m + 1) : i = m + 1 \/ i \in 1..m
  BY <1>0
<1> HIDE DEF e, y, more
<1>6. \A i \in 1..m : IsListed(s[i]) =>
        at[i] \in 1..Len(x) /\ x[at[i]] = Excluded(s[i])
  BY <1>3 DEF RecordsAt
<1>7. \A i \in 1..(m + 1) : IsListed(s[i]) =>
        more[i] \in 1..Len(y) /\ y[more[i]] = Excluded(s[i])
  <2> SUFFICES ASSUME NEW i \in 1..(m + 1), IsListed(s[i])
               PROVE  more[i] \in 1..Len(y) /\ y[more[i]] = Excluded(s[i])
    OBVIOUS
  <2>1. CASE i = m + 1
    <3>1. IsListed(e) /\ more[i] = Len(x) + 1
      BY <1>4, <2>1 DEF e
    <3> QED
      BY <1>2, <2>1, <3>1 DEF e
  <2>2. CASE i \in 1..m
    <3>1. at[i] \in 1..Len(x) /\ x[at[i]] = Excluded(s[i]) /\ more[i] = at[i]
      BY <1>4, <1>6, <2>2
    <3> QED
      BY <1>2, <3>1
  <2> QED
    BY <1>5, <2>1, <2>2
<1>8. \A i, j \in 1..(m + 1) :
        IsListed(s[i]) /\ IsListed(s[j]) /\ more[i] = more[j] => i = j
  <2>1. \A i \in 1..m : IsListed(s[i]) => more[i] # Len(x) + 1
    BY <1>2, <1>4, <1>6
  <2>2. \A i, j \in 1..m :
          IsListed(s[i]) /\ IsListed(s[j]) /\ more[i] = more[j] => i = j
    BY <1>3, <1>4 DEF RecordsAt
  <2> QED
    BY <1>4, <1>5, <2>1, <2>2
<1>9. RecordsAt(s, m + 1, y, more)
  BY <1>7, <1>8 DEF RecordsAt
<1>10. Records(s, m + 1, y)
  BY <1>2, <1>4, <1>9 DEF Records
<1> QED
  BY <1>10 DEF y, e

\* So the list has a record of its own for each excluded entry.
LEMMA ExcludingRecords ==
  ASSUME NEW s \in Seq(DestEntry)
  PROVE  Records(s, Len(s), Excluding(s)[Len(s)])
<1> DEFINE S == {m \in 0..Len(s) : Records(s, m, Excluding(s)[m])}
<1>0. Len(s) \in Nat
  BY LenProperties
<1>1. 0 \in S
  <2> DEFINE at == [i \in 1..0 |-> 1]
  <2>1. at \in [1..0 -> Nat] /\ \A i \in 1..0 : FALSE
    OBVIOUS
  <2>2. RecordsAt(s, 0, <<>>, at)
    BY <2>1 DEF RecordsAt
  <2> HIDE DEF at
  <2>3. Records(s, 0, <<>>)
    BY <2>1, <2>2, EmptySeq DEF Records
  <2> QED
    BY <1>0, <2>3, ExcludingUnfolds
<1>2. ASSUME NEW m \in 0..(Len(s) - 1), m \in S PROVE m + 1 \in S
  <2>1. Records(s, m + 1, Listing(Excluding(s)[m], s[m + 1]))
    BY <1>2, ListingRecords
  <2>2. Excluding(s)[m + 1] = Listing(Excluding(s)[m], s[m + 1])
    BY ExcludingUnfolds
  <2>3. m + 1 \in 0..Len(s)
    BY <1>0
  <2> QED
    BY <2>1, <2>2, <2>3
<1> HIDE DEF S
<1>3. 0..Len(s) \subseteq S
  BY <1>0, <1>1, <1>2, InductionUpTo
<1>4. Len(s) \in S
  BY <1>0, <1>3
<1> QED
  BY <1>4 DEF S

\* Sorted or not: each excluded entry of a snapshot has its record.
LEMMA SnapshotRecords ==
  ASSUME SnapInv
  PROVE  \E rec \in [DOMAIN snap -> Nat] :
           /\ \A i \in DOMAIN snap : IsListed(snap[i]) =>
                /\ rec[i] \in DOMAIN ExcludedDestinations(snap)
                /\ ExcludedDestinations(snap)[rec[i]] = Excluded(snap[i])
           /\ \A i, j \in DOMAIN snap :
                IsListed(snap[i]) /\ IsListed(snap[j]) /\ rec[i] = rec[j] => i = j
<1> DEFINE n == Len(snap)
           b == Build(snap)
           x == ExcludedDestinations(snap)
<1>1. snap \in Seq(DestEntry) /\ n \in Nat /\ DOMAIN snap = 1..n
  <2>1. SeenEntry \subseteq DestEntry
    BY DEF SeenEntry
  <2> QED
    BY <2>1, SeqMonotonic, LenProperties DEF SnapInv
<1>2. Sorts(snap, n, b)
  BY <1>1, BuildSorts
<1>3. b \in Seq(DestEntry) /\ Len(b) = n
  BY <1>2 DEF Sorts
<1>4. Records(b, n, x)
  BY <1>3, ExcludingRecords DEF ExcludedDestinations
<1> HIDE DEF n, b, x
<1>5. PICK place \in [1..n -> 1..n] : Places(snap, n, b, place)
  BY <1>2 DEF Sorts
<1>6. PICK at \in [1..n -> Nat] : RecordsAt(b, n, x, at)
  BY <1>4 DEF Records
<1>7. DOMAIN x = 1..Len(x)
  BY <1>4, LenProperties DEF Records
<1>8. \A i \in 1..n : place[i] \in 1..n /\ b[place[i]] = snap[i]
  BY <1>5 DEF Places
<1>9. \A i, j \in 1..n : place[i] = place[j] => i = j
  <2> SUFFICES ASSUME NEW i \in 1..n, NEW j \in 1..n, place[i] = place[j]
               PROVE  i = j
    OBVIOUS
  <2>1. place[i] \in Int /\ i \in Int /\ j \in Int
    BY <1>1, <1>8
  <2>2. ~(place[i] < place[j]) /\ ~(place[j] < place[i])
    BY <2>1
  <2>3. ~Ahead(snap, i, j) /\ ~Ahead(snap, j, i)
    BY <1>5, <2>2 DEF Places
  <2>4. Rank(snap[i]) \in Int /\ Rank(snap[j]) \in Int
    BY RankType
  <2> QED
    BY <2>1, <2>3, <2>4 DEF Ahead
<1> DEFINE rec == [i \in 1..n |-> at[place[i]]]
<1>10. rec \in [1..n -> Nat]
  BY <1>8
<1>11. \A i \in 1..n : IsListed(snap[i]) =>
         rec[i] \in 1..Len(x) /\ x[rec[i]] = Excluded(snap[i])
  BY <1>6, <1>8 DEF RecordsAt
<1>12. \A i, j \in 1..n :
         IsListed(snap[i]) /\ IsListed(snap[j]) /\ rec[i] = rec[j] => i = j
  <2> SUFFICES ASSUME NEW i \in 1..n, NEW j \in 1..n,
                      IsListed(snap[i]), IsListed(snap[j]), rec[i] = rec[j]
               PROVE  i = j
    OBVIOUS
  <2>1. place[i] = place[j]
    BY <1>6, <1>8 DEF RecordsAt
  <2> QED
    BY <1>9, <2>1
<1> HIDE DEF rec
<1> QED
  BY <1>1, <1>7, <1>10, <1>11, <1>12 DEF x

\* Every destination that has a name is allowed by a rule or listed as excluded,
\* whatever its place in the snapshot (policy_generator.go:59-89).
THEOREM AccountedFor == Spec => []NamedAreAccountedFor
<1>1. ASSUME SnapInv PROVE NamedAreAccountedFor
  <2> DEFINE x == ExcludedDestinations(snap)
  <2> SUFFICES ASSUME NEW e \in Range(snap), e.fqdn # ""
               PROVE  \/ \E r \in Rules(snap) : /\ r.port = e.port /\ r.proto = e.proto
                                                /\ e.fqdn \in r.fqdns
                      \/ \E y \in Range(x) : y.dest = e.fqdn /\ y.port = e.port
    BY DEF NamedAreAccountedFor, Generate
  <2>1. CASE IsListed(e)
    <3>1. PICK i \in DOMAIN snap : e = snap[i]
      BY DEF Range
    <3>2. PICK rec \in [DOMAIN snap -> Nat] : \A j \in DOMAIN snap :
            IsListed(snap[j]) => rec[j] \in DOMAIN x /\ x[rec[j]] = Excluded(snap[j])
      BY <1>1, SnapshotRecords
    <3>3. rec[i] \in DOMAIN x /\ x[rec[i]] = Excluded(e)
      BY <2>1, <3>1, <3>2
    <3>4. Excluded(e) \in Range(x)
      BY <3>3 DEF Range
    <3>5. Excluded(e).dest = e.fqdn /\ Excluded(e).port = e.port
      BY DEF Excluded, destHost
    <3> QED
      BY <3>4, <3>5
  <2>2. CASE ~IsListed(e)
    <3> DEFINE a == [fqdn |-> e.fqdn, port |-> e.port, proto |-> e.proto]
               r == [port |-> a.port, proto |-> a.proto,
                     fqdns |-> {b.fqdn : b \in {c \in Allowed(snap) :
                                  c.port = a.port /\ c.proto = a.proto}}]
    <3>1. a \in Allowed(snap)
      BY <2>2 DEF Allowed, IsListed, IsMediumWildcard
    <3>2. r \in Rules(snap)
      BY <3>1 DEF Rules
    <3>3. r.port = e.port /\ r.proto = e.proto /\ e.fqdn \in r.fqdns
      <4>1. a.port = e.port /\ a.proto = e.proto /\ a.fqdn = e.fqdn
        OBVIOUS
      <4> HIDE DEF a
      <4>2. r.port = a.port /\ r.proto = a.proto /\ a.fqdn \in r.fqdns
        BY <3>1
      <4> QED
        BY <4>1, <4>2
    <3> HIDE DEF r
    <3> QED
      BY <3>2, <3>3
  <2> QED
    BY <2>1, <2>2
<1> QED
  BY <1>1, SnapshotsWellFormed, PTL

\* Of every snapshot at least as many destinations are listed with risk High as
\* the profile's risk summary counts, although the two controllers decide by
\* different tests what a public address is
\* (egressprofile_controller.go:204-216, policy_generator.go:59-89).
THEOREM CountedExcluded == Spec => []CountedHighAreExcluded
<1>1. ASSUME SnapInv PROVE CountedHighAreExcluded
  <2> DEFINE x == ExcludedDestinations(snap)
             A == {i \in DOMAIN snap : snap[i].fqdn = "" /\ isPublicIPSimple(snap[i].ip)}
             H == {i \in DOMAIN x : x[i].risk = "High"}
  <2>1. countRisk(snap).high = Cardinality(A)
    BY DEF countRisk
  <2>2. PICK rec \in [DOMAIN snap -> Nat] :
          /\ \A i \in DOMAIN snap : IsListed(snap[i]) =>
               rec[i] \in DOMAIN x /\ x[rec[i]] = Excluded(snap[i])
          /\ \A i, j \in DOMAIN snap :
               IsListed(snap[i]) /\ IsListed(snap[j]) /\ rec[i] = rec[j] => i = j
    BY <1>1, SnapshotRecords
  <2>3. \A i \in A : IsHigh(snap[i])
    BY DEF IsHigh, IsDirectPublicIP, isPublicIPSimple
  <2>4. \A i \in A : IsListed(snap[i]) /\ Excluded(snap[i]).risk = "High"
    BY <2>3 DEF IsListed, Excluded
  <2> DEFINE f == [i \in A |-> rec[i]]
  <2>5. \A i \in A : rec[i] \in H
    BY <2>2, <2>4
  <2>6. f \in Injection(A, H)
    BY <2>2, <2>4, <2>5 DEF Injection, IsInjective
  <2>7. IsFiniteSet(H)
    <3>1. \E n \in Nat : DOMAIN x = 1..n
      <4>1. snap \in Seq(DestEntry)
        <5>1. SeenEntry \subseteq DestEntry
          BY DEF SeenEntry
        <5> QED
          BY <1>1, <5>1, SeqMonotonic DEF SnapInv
      <4>2. Build(snap) \in Seq(DestEntry) /\ Len(Build(snap)) = Len(snap)
        BY <4>1, BuildSorts DEF Sorts
      <4>3. x \in Seq(ExcludedEntry)
        BY <4>2, ExcludingRecords DEF Records, ExcludedDestinations
      <4> QED
        BY <4>3, LenProperties
    <3>2. PICK n \in Nat : DOMAIN x = 1..n
      BY <3>1
    <3>3. IsFiniteSet(1..n)
      BY FS_Interval
    <3>4. H \subseteq 1..n
      BY <3>2
    <3> QED
      BY <3>3, <3>4, FS_Subset
  <2> HIDE DEF A, H, f
  <2>8. Cardinality(A) <= Cardinality(H)
    BY <2>6, <2>7, FS_Injection
  <2>9. CountedHighAreExcluded <=> countRisk(snap).high <= Cardinality(H)
    BY DEF CountedHighAreExcluded, HighExcluded, Generate, H
  <2> QED
    BY <2>1, <2>8, <2>9
<1> QED
  BY <1>1, SnapshotsWellFormed, PTL
=============================================================================
