-------------------------- MODULE HubbleWireProofs --------------------------
(***************************************************************************)
(* The reader of internal/observer/hubble_grpc.go finds in a message what  *)
(* the relay has put there, whatever other fields the message has, in      *)
(* whatever order and of whatever length.                                  *)
(***************************************************************************)
EXTENDS HubbleWire, SequenceTheorems, LoopTheorems

-----------------------------------------------------------------------------
(* Varints.                                                                *)

\* h[n] is the number in the bytes n to last after i.
Horner(h, data, i, last) ==
  \A n \in 1..last :
    h[n] = IF n = last THEN data[i + n] ELSE (data[i + n] % 128) + 128 * h[n + 1]

\* The loop of decodeVarint, unfolded.
LEMMA ValueUnfolds ==
  ASSUME NEW data, NEW i, NEW last \in Nat \ {0},
         \A n \in 1..last : data[i + n] \in Byte
  PROVE  \E h : /\ Horner(h, data, i, last)
                /\ VarintValue(data, i, last) = h[1] /\ h[1] \in Nat
<1> DEFINE more(n, x) == (data[i + n] % 128) + 128 * x
           body(h, n) == IF n = last THEN data[i + n] ELSE more(n, h[n + 1])
           Solves(h) == h = [n \in 1..last |-> body(h, n)]
           stop == {0, last}
           val == [n \in 0..last |-> IF n = 0 THEN 0 ELSE data[i + n]]
           step == [n \in 0..last |-> [x \in Nat |-> more(n, x)]]
           jump == [n \in 0..last |-> n + 1]
<1>1. \A n \in 1..last : data[i + n] \in Nat /\ data[i + n] % 128 \in Nat
  <2>1. \A x \in 0..255 : x \in Nat /\ x % 128 \in Nat
    OBVIOUS
  <2> QED
    BY <2>1 DEF Byte
<1>2. \A n \in 0..last : n \in stop => val[n] \in Nat
  BY <1>1
<1>3. \A n \in 0..last : n \notin stop =>
        step[n] \in [Nat -> Nat] /\ jump[n] \in (n + 1)..last
  BY <1>1
<1>4. \A n \in 1..last : val[n] = data[i + n] /\ jump[n] = n + 1
  OBVIOUS
<1>5. \A n \in 1..last, x \in Nat : step[n][x] = more(n, x)
  OBVIOUS
<1>6. \A n \in 1..last : n \in stop <=> n = last
  OBVIOUS
<1> HIDE DEF more, stop, val, step, jump
<1>7. PICK f \in [0..last -> Nat] : Computes(f, last, stop, val, step, jump)
  BY <1>2, <1>3, RecursionUp
<1> DEFINE g == [n \in 1..last |-> f[n]]
<1>8. \A n \in 1..last : f[n] = body(f, n)
  <2> TAKE n \in 1..last
  <2>1. f[n] = IF n \in stop THEN val[n] ELSE step[n][f[jump[n]]]
    BY <1>7 DEF Computes
  <2>2. CASE n = last
    BY <1>4, <1>6, <2>1, <2>2
  <2>3. CASE n # last
    <3>1. n + 1 \in 0..last
      BY <2>3
    <3>2. f[n + 1] \in Nat
      BY <3>1
    <3>3. f[n] = step[n][f[n + 1]]
      BY <1>4, <1>6, <2>1, <2>3
    <3>4. step[n][f[n + 1]] = more(n, f[n + 1])
      BY <1>5, <3>2
    <3> QED
      BY <2>3, <3>3, <3>4
  <2> QED
    BY <2>2, <2>3
<1>9. Solves(g)
  <2>1. \A n \in 1..last : n # last => n + 1 \in 1..last
    OBVIOUS
  <2> QED
    BY <1>8, <2>1
<1> DEFINE value == CHOOSE h : Solves(h)
<1>10. VarintValue(data, i, last) = value[1]
  BY DEF VarintValue, more
<1> HIDE DEF Solves
<1>11. Solves(value)
  BY <1>9
<1> HIDE DEF value
<1>12. Horner(value, data, i, last)
  BY <1>11 DEF Solves, Horner, more
<1> DEFINE S == {n \in 0..last : n = 0 \/ value[n] \in Nat}
<1>13. last \in S
  <2>1. last \in 1..last /\ last \in 0..last
    OBVIOUS
  <2>2. value[last] = data[i + last]
    BY <1>12, <2>1 DEF Horner
  <2> QED
    BY <1>1, <2>1, <2>2
<1>14. ASSUME NEW n \in 1..last, n \in S PROVE n - 1 \in S
  <2>1. CASE n - 1 = 0
    BY <2>1
  <2>2. CASE n - 1 \in 1..last
    <3>1. value[n - 1] = (data[i + (n - 1)] % 128) + 128 * value[(n - 1) + 1]
      BY <1>12, <2>2 DEF Horner
    <3>2. (n - 1) + 1 = n /\ value[n] \in Nat
      BY <1>14
    <3>3. data[i + (n - 1)] % 128 \in Nat
      BY <1>1, <2>2
    <3>4. value[n - 1] \in Nat
      BY <3>1, <3>2, <3>3
    <3> QED
      BY <2>2, <3>4
  <2> QED
    BY <2>1, <2>2
<1> HIDE DEF S
<1>15. 0..last \subseteq S
  BY <1>13, <1>14, InductionDownTo
<1>16. value[1] \in Nat
  BY <1>15 DEF S
<1> QED
  BY <1>10, <1>12, <1>16

\* The number of bytes is within the message and the bound, and the value is a
\* word.
LEMMA DecodeVarintType ==
  ASSUME NEW data \in Seq(Byte), NEW i \in 0..Len(data)
  PROVE  /\ decodeVarint(data, i).val \in Nat
         /\ decodeVarint(data, i).len \in 0..MaxVarintLen
         /\ i + decodeVarint(data, i).len <= Len(data)
<1> DEFINE ends == VarintEnds(data, i)
           last == Min(ends)
<1>1. Len(data) \in Nat /\ \A n \in 1..Len(data) : data[n] \in Byte
  BY LenProperties
<1>2. CASE ends = {}
  BY <1>1, <1>2, WidthAssumption DEF decodeVarint
<1>3. CASE ends # {}
  <2>1. ends \subseteq Nat /\ \A x, y \in ends : ~(y < x) => x <= y
    BY WidthAssumption DEF VarintEnds
  <2>2. \E x \in ends : \A y \in ends : x <= y
    BY <1>3, <2>1, LeastNatural
  <2>3. last \in ends
    BY <2>2 DEF Min
  <2>4. last \in 1..MaxVarintLen /\ i + last <= Len(data)
    BY <2>3 DEF VarintEnds
  <2>5. \A n \in 1..last : data[i + n] \in Byte
    BY <1>1, <2>4, WidthAssumption
  <2> HIDE DEF last
  <2>6. VarintValue(data, i, last) \in Nat
    BY <2>4, <2>5, ValueUnfolds, WidthAssumption
  <2>7. VarintValue(data, i, last) % 2^WordBits \in Nat
    BY <2>6, WidthAssumption
  <2>8. decodeVarint(data, i) =
          [val |-> VarintValue(data, i, last) % 2^WordBits, len |-> last]
    BY <1>3 DEF decodeVarint, last
  <2> QED
    BY <2>4, <2>7, <2>8, WidthAssumption
<1> QED
  BY <1>2, <1>3

\* s is an encoding of x: only its last byte is below 0x80, and the groups of
\* seven bits make x.
Encodes(s, x) ==
  /\ s \in Seq(Byte) /\ Len(s) >= 1
  /\ s[Len(s)] < 128
  /\ \A n \in 1..(Len(s) - 1) : s[n] >= 128
  /\ \A h : Horner(h, s, 0, Len(s)) => h[1] = x

\* One byte is enough below 0x80.
LEMMA EncodesOne ==
  ASSUME NEW x \in 0..127
  PROVE  Encodes(<<x>>, x)
<1>1. <<x>> \in Seq(Byte) /\ Len(<<x>>) = 1 /\ <<x>>[1] = x
  BY DEF Byte
<1>2. ASSUME NEW h, Horner(h, <<x>>, 0, 1) PROVE h[1] = x
  BY <1>1, <1>2 DEF Horner
<1> QED
  BY <1>1, <1>2 DEF Encodes

\* A group in front.
LEMMA EncodesMore ==
  ASSUME NEW x \in Nat, NEW t, Encodes(t, x \div 128)
  PROVE  Encodes(<<128 + (x % 128)>> \o t, x)
<1> DEFINE b == 128 + (x % 128)
           s == <<b>> \o t
           n == Len(t)
<1>1. /\ b \in 128..255 /\ b % 128 = x % 128 /\ x \div 128 \in Nat
      /\ x = (x % 128) + 128 * (x \div 128)
  OBVIOUS
<1>2. t \in Seq(Byte) /\ n \in Nat /\ n >= 1
  BY LenProperties DEF Encodes
<1> HIDE DEF b, n
<1>3. <<b>> \in Seq(Byte) /\ Len(<<b>>) = 1 /\ <<b>>[1] = b
  BY <1>1 DEF Byte
<1>4. /\ s \in Seq(Byte) /\ Len(s) = n + 1
      /\ \A k \in 1..(n + 1) : s[k] = IF k <= 1 THEN <<b>>[k] ELSE t[k - 1]
  <2>1. /\ s \in Seq(Byte) /\ Len(s) = 1 + n
        /\ \A k \in 1..(1 + n) : s[k] = IF k <= 1 THEN <<b>>[k] ELSE t[k - 1]
    BY <1>2, <1>3, ConcatProperties DEF n
  <2> QED
    BY <1>2, <2>1
<1>5. s[1] = b /\ \A k \in 1..n : s[k + 1] = t[k]
  BY <1>2, <1>3, <1>4
<1> HIDE DEF s
<1>6. s[n + 1] < 128
  BY <1>2, <1>5 DEF Encodes, n
<1>7. ASSUME NEW k \in 1..n PROVE s[k] >= 128
  <2>1. CASE k = 1
    BY <1>1, <1>5, <2>1
  <2>2. CASE k - 1 \in 1..(n - 1)
    <3>1. t[k - 1] >= 128 /\ k - 1 \in 1..n /\ (k - 1) + 1 = k
      BY <1>2, <2>2 DEF Encodes, n
    <3> QED
      BY <1>5, <3>1
  <2> QED
    BY <1>2, <2>1, <2>2
<1>8. ASSUME NEW h, Horner(h, s, 0, n + 1) PROVE h[1] = x
  <2> DEFINE g == [k \in 1..n |-> h[k + 1]]
  <2>1. \A k \in 1..(n + 1) :
          h[k] = IF k = n + 1 THEN s[k] ELSE (s[k] % 128) + 128 * h[k + 1]
    <3>1. \A k \in 1..(n + 1) : 0 + k = k
      BY <1>2
    <3> QED
      BY <1>8, <3>1 DEF Horner
  <2>2. ASSUME NEW k \in 1..n
        PROVE  g[k] = IF k = n THEN t[0 + k] ELSE (t[0 + k] % 128) + 128 * g[k + 1]
    <3>1. h[k + 1] = IF k + 1 = n + 1 THEN s[k + 1]
                     ELSE (s[k + 1] % 128) + 128 * h[(k + 1) + 1]
      BY <1>2, <2>1
    <3>2. k # n => k + 1 \in 1..n
      BY <1>2
    <3>3. 0 + k = k /\ (k + 1 = n + 1 <=> k = n)
      BY <1>2
    <3> QED
      BY <1>5, <3>1, <3>2, <3>3
  <2>3. Horner(g, t, 0, n)
    BY <2>2 DEF Horner
  <2>4. g[1] = h[2]
    BY <1>2
  <2> HIDE DEF g
  <2>5. h[2] = x \div 128
    BY <2>3, <2>4 DEF Encodes, n
  <2>6. h[1] = (b % 128) + 128 * h[2]
    BY <1>2, <1>5, <2>1
  <2> QED
    BY <1>1, <2>5, <2>6
<1>9. (n + 1) - 1 = n /\ n + 1 >= 1
  BY <1>2
<1>10. Encodes(s, x)
  BY <1>4, <1>6, <1>7, <1>8, <1>9 DEF Encodes
<1> QED
  BY <1>10 DEF s, b

\* What the relay sends for a number is an encoding of it.
LEMMA VarintEncodes ==
  ASSUME NEW v \in Nat
  PROVE  Encodes(Varint(v), v) /\ (v < 128 => Varint(v) = <<v>>)
<1> DEFINE one(x) == <<x>>
           more(x, s) == <<128 + (x % 128)>> \o s
           body(f, x) == IF x < 128 THEN one(x) ELSE more(x, f[x \div 128])
           Solves(f) == f = [x \in 0..v |-> body(f, x)]
           V == Seq(Byte)
           stop == {x \in 0..v : x < 128}
           val == [x \in 0..v |-> one(x)]
           step == [x \in 0..v |-> [s \in V |-> more(x, s)]]
           jump == [x \in 0..v |-> x \div 128]
<1>1. \A x \in 0..v : x \in stop => val[x] \in V
  BY DEF Byte
<1>2. ASSUME NEW x \in 0..v, x \notin stop
      PROVE  step[x] \in [V -> V] /\ jump[x] \in 0..(x - 1)
  <2>1. 128 + (x % 128) \in Byte
    BY DEF Byte
  <2>2. <<128 + (x % 128)>> \in Seq(Byte)
    BY <2>1
  <2>3. \A s \in V : <<128 + (x % 128)>> \o s \in V
    BY <2>2, ConcatProperties
  <2>4. x \div 128 \in 0..(x - 1)
    BY <1>2
  <2> QED
    BY <2>3, <2>4
<1>3. /\ \A x \in 0..v : x \in stop <=> x < 128
      /\ \A x \in 0..v : val[x] = one(x) /\ jump[x] = x \div 128
      /\ \A x \in 0..v : \A s \in V : step[x][s] = more(x, s)
  OBVIOUS
<1>4. \A x \in 0..v : x \div 128 \in 0..v
  OBVIOUS
<1> HIDE DEF stop, val, step, jump, V, one, more
<1>5. PICK f \in [0..v -> V] : Computes(f, v, stop, val, step, jump)
  BY <1>1, <1>2, RecursionDown
<1>6. Solves(f)
  <2>1. ASSUME NEW x \in 0..v PROVE f[x] = body(f, x)
    <3>1. f[x] = IF x \in stop THEN val[x] ELSE step[x][f[jump[x]]]
      BY <1>5 DEF Computes
    <3>2. f[x \div 128] \in V
      BY <1>4
    <3>3. CASE x < 128
      BY <1>3, <3>1, <3>3
    <3>4. CASE ~(x < 128)
      <4>1. f[x] = step[x][f[x \div 128]]
        BY <1>3, <3>1, <3>4
      <4>2. step[x][f[x \div 128]] = more(x, f[x \div 128])
        BY <1>3, <3>2
      <4> QED
        BY <3>4, <4>1, <4>2
    <3> QED
      BY <3>3, <3>4
  <2> QED
    BY <2>1
<1> DEFINE groups == CHOOSE g : Solves(g)
<1>7. Varint(v) = groups[v]
  BY DEF Varint, one, more
<1> HIDE DEF Solves
<1>8. Solves(groups)
  BY <1>6
<1> HIDE DEF groups
<1>9. \A x \in 0..v : groups[x] = body(groups, x)
  BY <1>8 DEF Solves
<1> DEFINE T == {x \in 0..v : ~Encodes(groups[x], x)}
<1>10. T = {}
  <2> SUFFICES ASSUME T # {} PROVE FALSE
    OBVIOUS
  <2>1. T \subseteq Nat
    OBVIOUS
  <2>2. PICK x \in T : \A y \in T : ~(y < x)
    BY <2>1, LeastNatural
  <2>3. x \in 0..v /\ ~Encodes(groups[x], x)
    OBVIOUS
  <2>4. CASE x < 128
    <3>1. groups[x] = one(x) /\ x \in 0..127
      BY <1>9, <2>3, <2>4
    <3> QED
      BY <2>3, <3>1, EncodesOne DEF one
  <2>5. CASE ~(x < 128)
    <3>1. x \div 128 \in 0..v /\ x \div 128 < x
      BY <2>3, <2>5
    <3>2. Encodes(groups[x \div 128], x \div 128)
      BY <2>2, <3>1
    <3>3. Encodes(more(x, groups[x \div 128]), x)
      BY <2>3, <3>2, EncodesMore DEF more
    <3> QED
      BY <1>9, <2>3, <2>5, <3>3
  <2> QED
    BY <2>4, <2>5
<1>11. v \in 0..v
  OBVIOUS
<1>12. v < 128 => groups[v] = one(v)
  BY <1>9, <1>11
<1> QED
  BY <1>7, <1>10, <1>11, <1>12 DEF one

\* s is in data, after i bytes.
Occurs(data, i, s) ==
  /\ i + Len(s) <= Len(data)
  /\ \A n \in 1..Len(s) : data[i + n] = s[n]

\* decodeVarint gives back the number and its length, wherever it is.
LEMMA DecodeVarintInverts ==
  ASSUME NEW data \in Seq(Byte), NEW i \in 0..Len(data), NEW v \in Nat,
         Fits(v), Occurs(data, i, Varint(v))
  PROVE  decodeVarint(data, i) = [val |-> v, len |-> Len(Varint(v))]
<1> DEFINE s == Varint(v)
           last == Len(s)
           ends == VarintEnds(data, i)
<1>1. Encodes(s, v) /\ v < 2^WordBits /\ last <= MaxVarintLen
  BY VarintEncodes DEF Fits
<1>2. Occurs(data, i, s)
  OBVIOUS
<1> HIDE DEF s
<1>3. s \in Seq(Byte) /\ last \in Nat \ {0}
  BY <1>1, LenProperties DEF Encodes
<1> HIDE DEF last
<1>4. Len(data) \in Nat /\ i \in Nat /\ MaxVarintLen \in Nat
  BY LenProperties, WidthAssumption
<1>5. i + last <= Len(data) /\ \A n \in 1..last : data[i + n] = s[n]
  BY <1>2 DEF Occurs, last
<1>6. \A n \in 1..last : s[n] \in Byte
  BY <1>3, LenProperties DEF last
<1>7. s[last] < 128 /\ \A n \in 1..(last - 1) : s[n] >= 128
  BY <1>1 DEF Encodes, last
<1>8. last \in ends
  BY <1>1, <1>3, <1>4, <1>5, <1>7 DEF VarintEnds
<1>9. ASSUME NEW n \in ends PROVE last <= n
  <2>1. n \in 1..MaxVarintLen /\ data[i + n] < 128
    BY DEF VarintEnds
  <2>2. SUFFICES ASSUME n < last PROVE FALSE
    BY <1>3, <1>4, <2>1
  <2>3. n \in 1..(last - 1) /\ n \in 1..last
    BY <1>3, <1>4, <2>1, <2>2
  <2>4. data[i + n] = s[n] /\ s[n] >= 128
    BY <1>5, <1>7, <2>3
  <2>5. s[n] \in Int
    <3>1. \A x \in Byte : x \in Int
      BY DEF Byte
    <3> QED
      BY <1>6, <2>3, <3>1
  <2>6. s[n] < 128
    BY <2>1, <2>4
  <2> QED
    BY ONLY <2>4, <2>5, <2>6
<1>10. Min(ends) = last
  <2>1. \A x \in ends : (\A y \in ends : x <= y) => x = last
    <3> SUFFICES ASSUME NEW x \in ends, \A y \in ends : x <= y PROVE x = last
      OBVIOUS
    <3>1. x <= last /\ last <= x /\ x \in Nat
      BY <1>4, <1>8, <1>9 DEF VarintEnds
    <3> QED
      BY <1>3, <3>1
  <2> HIDE DEF ends
  <2> QED
    BY <1>8, <1>9, <2>1 DEF Min
<1>11. VarintValue(data, i, last) = v
  <2>1. \A n \in 1..last : data[i + n] \in Byte
    BY <1>5, <1>6
  <2>2. PICK h : Horner(h, data, i, last) /\ VarintValue(data, i, last) = h[1]
    BY <1>3, <2>1, ValueUnfolds
  <2>3. \A n \in 1..last : data[i + n] = s[0 + n]
    <3>1. \A n \in 1..last : 0 + n = n
      BY <1>3
    <3> QED
      BY <1>5, <3>1
  <2>4. Horner(h, s, 0, last)
    BY <2>2, <2>3 DEF Horner
  <2> QED
    BY <1>1, <2>2, <2>4 DEF Encodes, last
<1>12. v % 2^WordBits = v
  <2>1. \A m \in Nat : v < m => v % m = v
    OBVIOUS
  <2> QED
    BY <1>1, <2>1, WidthAssumption
<1>13. decodeVarint(data, i) = [val |-> v, len |-> last]
  <2>1. ends # {}
    BY <1>8
  <2> QED
    BY <1>10, <1>11, <1>12, <2>1 DEF decodeVarint
<1> QED
  BY <1>13 DEF last, s

-----------------------------------------------------------------------------
(* Fields.                                                                 *)

\* What occurs in a message.
LEMMA OccursParts ==
  ASSUME NEW data \in Seq(Byte), NEW i \in Nat,
         NEW s \in Seq(Byte), NEW t \in Seq(Byte), Occurs(data, i, s \o t)
  PROVE  /\ Occurs(data, i, s) /\ Occurs(data, i + Len(s), t)
         /\ i + Len(s) \in 0..Len(data)
<1>1. Len(data) \in Nat /\ Len(s) \in Nat /\ Len(t) \in Nat
  BY LenProperties
<1>2. /\ Len(s \o t) = Len(s) + Len(t)
      /\ \A n \in 1..(Len(s) + Len(t)) :
           (s \o t)[n] = IF n <= Len(s) THEN s[n] ELSE t[n - Len(s)]
  BY ConcatProperties
<1>3. /\ i + (Len(s) + Len(t)) <= Len(data)
      /\ \A n \in 1..(Len(s) + Len(t)) :
           data[i + n] = IF n <= Len(s) THEN s[n] ELSE t[n - Len(s)]
  BY <1>2 DEF Occurs
<1>4. ASSUME NEW n \in 1..Len(s) PROVE data[i + n] = s[n]
  BY <1>1, <1>3
<1>5. ASSUME NEW n \in 1..Len(t) PROVE data[(i + Len(s)) + n] = t[n]
  <2>1. /\ Len(s) + n \in 1..(Len(s) + Len(t)) /\ ~(Len(s) + n <= Len(s))
        /\ (Len(s) + n) - Len(s) = n /\ i + (Len(s) + n) = (i + Len(s)) + n
    BY <1>1
  <2> QED
    BY <1>3, <2>1
<1> QED
  BY <1>1, <1>3, <1>4, <1>5 DEF Occurs

LEMMA OccursInConcat ==
  ASSUME NEW s \in Seq(Byte), NEW t \in Seq(Byte)
  PROVE  /\ Occurs(s \o t, Len(s), t)
         /\ \A u \in Seq(Byte), i \in Nat :
              Occurs(s, i, u) => Occurs(s \o t, i, u)
<1>1. Len(s) \in Nat /\ Len(t) \in Nat
  BY LenProperties
<1>2. /\ Len(s \o t) = Len(s) + Len(t)
      /\ \A n \in 1..(Len(s) + Len(t)) :
           (s \o t)[n] = IF n <= Len(s) THEN s[n] ELSE t[n - Len(s)]
  BY ConcatProperties
<1>3. Occurs(s \o t, Len(s), t)
  <2>1. ASSUME NEW n \in 1..Len(t) PROVE (s \o t)[Len(s) + n] = t[n]
    <3>1. /\ Len(s) + n \in 1..(Len(s) + Len(t)) /\ ~(Len(s) + n <= Len(s))
          /\ (Len(s) + n) - Len(s) = n
      BY <1>1
    <3> QED
      BY <1>2, <3>1
  <2> QED
    BY <1>1, <1>2, <2>1 DEF Occurs
<1>4. ASSUME NEW u \in Seq(Byte), NEW i \in Nat, Occurs(s, i, u)
      PROVE  Occurs(s \o t, i, u)
  <2>1. Len(u) \in Nat /\ i + Len(u) <= Len(s)
    BY <1>4, LenProperties DEF Occurs
  <2>2. ASSUME NEW n \in 1..Len(u) PROVE (s \o t)[i + n] = u[n]
    <3>1. i + n \in 1..(Len(s) + Len(t)) /\ i + n <= Len(s)
      BY <1>1, <2>1
    <3>2. s[i + n] = u[n]
      BY <1>4 DEF Occurs
    <3> QED
      BY <1>2, <3>1, <3>2
  <2> QED
    BY <1>1, <1>2, <2>1, <2>2 DEF Occurs
<1> QED
  BY <1>3, <1>4

\* FieldAt, without the devices for TLC.
LEMMA FieldAtIs ==
  ASSUME NEW data, NEW i, NEW tag, NEW arg,
         tag = decodeVarint(data, i), arg = decodeVarint(data, i + tag.len)
  PROVE  LET wire == tag.val % 8
             next == i + tag.len + arg.len
             end == IF wire = 2 THEN next + arg.val ELSE next
         IN FieldAt(data, i) =
              [num |-> tag.val \div 8, wire |-> wire, val |-> arg.val,
               next |-> next, end |-> end,
               whole |-> /\ i < Len(data) /\ tag.len > 0 /\ arg.len > 0
                         /\ wire \in {0, 2} /\ end <= Len(data)]
BY DEF FieldAt, With

\* The reader goes forward, and not beyond the end.
LEMMA FieldAtType ==
  ASSUME NEW data \in Seq(Byte), NEW i \in 0..Len(data), FieldAt(data, i).whole
  PROVE  /\ FieldAt(data, i).end \in (i + 1)..Len(data)
         /\ FieldAt(data, i).next \in (i + 1)..FieldAt(data, i).end
         /\ FieldAt(data, i).val \in Nat
<1> DEFINE tag == decodeVarint(data, i)
           arg == decodeVarint(data, i + tag.len)
<1>1. Len(data) \in Nat /\ MaxVarintLen \in Nat
  BY LenProperties, WidthAssumption
<1>2. tag.val \in Nat /\ tag.len \in Nat /\ i + tag.len <= Len(data)
  BY <1>1, DecodeVarintType
<1>3. i + tag.len \in 0..Len(data)
  BY <1>1, <1>2
<1>4. arg.val \in Nat /\ arg.len \in Nat
  BY <1>1, <1>3, DecodeVarintType
<1> DEFINE wire == tag.val % 8
           next == i + tag.len + arg.len
           end == IF wire = 2 THEN next + arg.val ELSE next
<1>5. FieldAt(data, i) =
              [num |-> tag.val \div 8, wire |-> wire, val |-> arg.val,
               next |-> next, end |-> end,
               whole |-> /\ i < Len(data) /\ tag.len > 0 /\ arg.len > 0
                         /\ wire \in {0, 2} /\ end <= Len(data)]
  BY FieldAtIs
<1>6. tag.len > 0 /\ end <= Len(data)
  BY <1>5
<1> HIDE DEF tag, arg
<1>7. next \in (i + 1)..end /\ end \in Int
  <2>1. next \in Int /\ i + 1 <= next
    BY <1>1, <1>2, <1>4, <1>6
  <2> HIDE DEF next, wire
  <2> QED
    BY <1>4, <2>1
<1> HIDE DEF end, next
<1>8. end \in (i + 1)..Len(data)
  BY <1>1, <1>6, <1>7
<1> QED
  BY <1>4, <1>5, <1>7, <1>8

\* The bytes of a field.
LEMMA EncodeFieldType ==
  ASSUME NEW f \in Field
  PROVE  /\ Varint(8 * f.num + f.wire) \in Seq(Byte) /\ Varint(f.arg) \in Seq(Byte)
         /\ f.body \in Seq(Byte) /\ EncodeField(f) \in Seq(Byte)
         /\ Len(EncodeField(f)) =
              Len(Varint(8 * f.num + f.wire)) + Len(Varint(f.arg)) + Len(f.body)
         /\ Len(Varint(8 * f.num + f.wire)) \in Nat \ {0}
         /\ Len(Varint(f.arg)) \in Nat \ {0}
<1>1. 8 * f.num + f.wire \in Nat /\ f.arg \in Nat /\ f.body \in Seq(Byte)
  BY DEF Field
<1>2. \A v \in Nat : Varint(v) \in Seq(Byte) /\ Len(Varint(v)) \in Nat \ {0}
  <2> TAKE v \in Nat
  <2>1. Varint(v) \in Seq(Byte) /\ Len(Varint(v)) >= 1
    BY VarintEncodes DEF Encodes
  <2> QED
    BY <2>1, LenProperties
<1> DEFINE s == Varint(8 * f.num + f.wire)
           t == Varint(f.arg)
<1>3. s \in Seq(Byte) /\ t \in Seq(Byte) /\ Len(s) \in Nat \ {0} /\ Len(t) \in Nat \ {0}
  BY <1>1, <1>2
<1>4. EncodeField(f) = (s \o t) \o f.body
  BY DEF EncodeField
<1> HIDE DEF s, t
<1>5. s \o t \in Seq(Byte) /\ Len(s \o t) = Len(s) + Len(t)
  BY <1>3, ConcatProperties
<1>6. /\ (s \o t) \o f.body \in Seq(Byte)
      /\ Len((s \o t) \o f.body) = Len(s \o t) + Len(f.body)
  BY <1>1, <1>5, ConcatProperties
<1> QED
  BY <1>1, <1>3, <1>4, <1>5, <1>6 DEF s, t

\* The reader at the first byte of field f has read f.
ReadsField(data, i, f) ==
  /\ FieldAt(data, i).num = f.num /\ FieldAt(data, i).wire = f.wire
  /\ FieldAt(data, i).val = f.arg /\ FieldAt(data, i).whole
  /\ FieldAt(data, i).end = i + Len(EncodeField(f))
  /\ f.wire = 2 =>
       SubSeq(data, FieldAt(data, i).next + 1, FieldAt(data, i).end) = f.body

LEMMA FieldAtReads ==
  ASSUME NEW data \in Seq(Byte), NEW i \in 0..Len(data), NEW f \in Field,
         Occurs(data, i, EncodeField(f))
  PROVE  ReadsField(data, i, f)
<1> DEFINE s == Varint(8 * f.num + f.wire)
           t == Varint(f.arg)
<1>1. /\ f.num \in Nat /\ f.wire \in {0, 2} /\ f.arg \in Nat
      /\ f.wire = 0 => f.body = <<>>
      /\ f.wire = 2 => f.arg = Len(f.body)
      /\ Fits(8 * f.num + f.wire) /\ Fits(f.arg)
  BY DEF Field
<1>2. /\ s \in Seq(Byte) /\ t \in Seq(Byte) /\ f.body \in Seq(Byte)
      /\ Len(EncodeField(f)) = Len(s) + Len(t) + Len(f.body)
      /\ Len(s) \in Nat \ {0} /\ Len(t) \in Nat \ {0}
  BY EncodeFieldType
<1>3. Len(data) \in Nat /\ i \in Nat /\ Len(f.body) \in Nat
  BY <1>2, LenProperties
<1>4. EncodeField(f) = (s \o t) \o f.body
  BY DEF EncodeField
<1> HIDE DEF s, t
<1>5. s \o t \in Seq(Byte) /\ Len(s \o t) = Len(s) + Len(t)
  BY <1>2, ConcatProperties
<1>6. Occurs(data, i, s \o t) /\ Occurs(data, i + (Len(s) + Len(t)), f.body)
  <2>1. Occurs(data, i, (s \o t) \o f.body)
    BY <1>4
  <2>2. Occurs(data, i, s \o t) /\ Occurs(data, i + Len(s \o t), f.body)
    BY <1>2, <1>3, <1>5, <2>1, OccursParts
  <2> QED
    BY <1>5, <2>2
<1>7. /\ Occurs(data, i, s) /\ Occurs(data, i + Len(s), t)
      /\ i + Len(s) \in 0..Len(data)
  BY <1>2, <1>3, <1>6, OccursParts
<1>8. decodeVarint(data, i) = [val |-> 8 * f.num + f.wire, len |-> Len(s)]
  <2>1. 8 * f.num + f.wire \in Nat
    BY <1>1
  <2> QED
    BY <1>1, <1>7, <2>1, DecodeVarintInverts DEF s
<1>9. decodeVarint(data, i + Len(s)) = [val |-> f.arg, len |-> Len(t)]
  BY <1>1, <1>7, DecodeVarintInverts DEF t
<1> DEFINE tag == decodeVarint(data, i)
           arg == decodeVarint(data, i + tag.len)
           wire == tag.val % 8
           next == i + tag.len + arg.len
           end == IF wire = 2 THEN next + arg.val ELSE next
<1>11. /\ tag.val = 8 * f.num + f.wire /\ tag.len = Len(s)
       /\ arg.val = f.arg /\ arg.len = Len(t)
  BY <1>8, <1>9
<1>12. FieldAt(data, i) =
              [num |-> tag.val \div 8, wire |-> wire, val |-> arg.val,
               next |-> next, end |-> end,
               whole |-> /\ i < Len(data) /\ tag.len > 0 /\ arg.len > 0
                         /\ wire \in {0, 2} /\ end <= Len(data)]
  BY FieldAtIs
<1> DEFINE a == Len(s)
           b == Len(t)
           c == Len(f.body)
           e == Len(EncodeField(f))
           d == Len(data)
<1>13. tag.val \div 8 = f.num /\ wire = f.wire
  <2>1. \A n \in Nat, w \in {0, 2} : (8 * n + w) \div 8 = n /\ (8 * n + w) % 8 = w
    OBVIOUS
  <2> QED
    BY <1>1, <1>11, <2>1
<1>14. /\ a \in Nat \ {0} /\ b \in Nat \ {0} /\ c \in Nat /\ d \in Nat
       /\ e = a + b + c /\ i + e <= d
  BY <1>2, <1>3 DEF Occurs
<1>15. end = next + c
  <2>1. f.wire = 0 => c = 0
    BY <1>1, EmptySeq
  <2>2. f.wire = 2 => arg.val = c
    BY <1>1, <1>11
  <2>3. next = i + a + b
    BY <1>11
  <2> HIDE DEF tag, arg, wire, next, a, b, c
  <2>4. CASE f.wire = 2
    BY <1>13, <2>2, <2>4
  <2>5. CASE f.wire = 0
    <3>1. end = next /\ next \in Int
      BY <1>3, <1>13, <1>14, <2>3, <2>5
    <3> QED
      BY <2>1, <2>5, <3>1
  <2> QED
    BY <1>1, <2>4, <2>5
<1>16. next = i + a + b
  BY <1>11
<1> HIDE DEF tag, arg, wire, next, end, a, b, c, d, e
<1>17. /\ next \in Int /\ end \in Int /\ next >= 0
       /\ end = i + e /\ end <= d /\ i < d /\ next <= end
  BY <1>3, <1>14, <1>15, <1>16
<1>18. SubSeq(data, next + 1, end) = f.body
  <2>1. \A n \in (next + 1)..end : data[n] \in Byte
    <3>1. \A n \in (next + 1)..end : n \in 1..d
      BY <1>14, <1>17
    <3>2. \A n \in 1..d : data[n] \in Byte
      BY LenProperties DEF d
    <3> QED
      BY <3>1, <3>2
  <2>2. next + 1 \in Int
    BY <1>17
  <2> DEFINE sub == SubSeq(data, next + 1, end)
  <2>3. /\ sub \in Seq(Byte)
        /\ Len(sub) = IF next + 1 <= end THEN end - (next + 1) + 1 ELSE 0
        /\ \A n \in 1..(end - (next + 1) + 1) : sub[n] = data[(next + 1) + n - 1]
    BY <1>17, <2>1, <2>2, SubSeqProperties
  <2> HIDE DEF sub
  <2>4. end - (next + 1) + 1 = c /\ (~(next + 1 <= end) => c = 0)
    BY <1>14, <1>15, <1>17
  <2>5. Len(sub) = c
    BY <2>3, <2>4
  <2>6. ASSUME NEW n \in 1..c PROVE sub[n] = f.body[n]
    <3>1. sub[n] = data[(next + 1) + n - 1]
      BY <2>3, <2>4
    <3>2. (next + 1) + n - 1 = (i + (a + b)) + n
      BY <1>3, <1>14, <1>16
    <3>3. data[(i + (a + b)) + n] = f.body[n]
      BY <1>6 DEF Occurs, a, b, c
    <3> QED
      BY <3>1, <3>2, <3>3
  <2>7. Len(sub) = Len(f.body) /\ \A n \in 1..Len(sub) : sub[n] = f.body[n]
    BY <2>5, <2>6 DEF c
  <2>8. sub = f.body
    BY <1>2, <2>3, <2>7, SeqEqual
  <2> QED
    BY <2>8 DEF sub
<1>19. /\ FieldAt(data, i).num = f.num /\ FieldAt(data, i).wire = f.wire
       /\ FieldAt(data, i).val = f.arg /\ FieldAt(data, i).whole
       /\ FieldAt(data, i).next = next /\ FieldAt(data, i).end = end
  <2>1. tag.len > 0 /\ arg.len > 0 /\ wire \in {0, 2}
    BY <1>1, <1>2, <1>11, <1>13
  <2> QED
    BY <1>11, <1>12, <1>13, <1>17, <2>1 DEF d
<1> QED
  BY <1>17, <1>18, <1>19 DEF ReadsField, e

-----------------------------------------------------------------------------
(* Messages.                                                               *)

\* Field j of the message is between at[j - 1] and at[j].
IsLayout(at, fields, data) ==
  /\ at \in [0..Len(fields) -> Nat]
  /\ at[0] = 0 /\ at[Len(fields)] = Len(data)
  /\ \A j \in 1..Len(fields) :
       /\ Occurs(data, at[j - 1], EncodeField(fields[j]))
       /\ at[j] = at[j - 1] + Len(EncodeField(fields[j]))

\* data is the fields, one after the other.
IsMessage(data, fields) ==
  data \in Seq(Byte) /\ \E at : IsLayout(at, fields, data)

\* What the relay sends is a message.
LEMMA EncodeFieldsLayout ==
  ASSUME NEW fields \in Seq(Field)
  PROVE  IsMessage(EncodeFields(fields), fields)
<1> DEFINE n == Len(fields)
           V == Seq(Byte)
           code(i) == EncodeField(fields[i])
           longer(s, i) == s \o code(i)
           none == <<>>
           body(f, i) == IF i = 0 THEN none ELSE longer(f[i - 1], i)
           Solves(f) == f = [i \in 0..n |-> body(f, i)]
           stop == {0}
           val == [i \in 0..n |-> none]
           step == [i \in 0..n |-> [s \in V |-> longer(s, i)]]
           jump == [i \in 0..n |-> i - 1]
<1>1. n \in Nat /\ \A i \in 1..n : code(i) \in V
  <2>1. n \in Nat /\ \A i \in 1..n : fields[i] \in Field
    BY LenProperties
  <2> QED
    BY <2>1, EncodeFieldType
<1> HIDE DEF n, code
<1>2. \A i \in 1..n : \A s \in V : longer(s, i) \in V
  BY <1>1, ConcatProperties
<1>3. none \in V /\ Len(none) = 0
  BY EmptySeq
<1> HIDE DEF longer, none, V
<1>4. \A i \in 0..n : i \in stop => val[i] \in V
  BY <1>3
<1>5. \A i \in 0..n : i \notin stop =>
        step[i] \in [V -> V] /\ jump[i] \in 0..(i - 1)
  BY <1>1, <1>2
<1>6. /\ \A i \in 0..n : val[i] = none /\ jump[i] = i - 1
      /\ \A i \in 0..n : \A s \in V : step[i][s] = longer(s, i)
      /\ \A i \in 0..n : i \in stop <=> i = 0
  OBVIOUS
<1> HIDE DEF stop, val, step, jump
<1>7. PICK f \in [0..n -> V] : Computes(f, n, stop, val, step, jump)
  BY <1>1, <1>4, <1>5, RecursionDown
<1>8. Solves(f)
  <2>1. ASSUME NEW i \in 0..n PROVE f[i] = body(f, i)
    <3>1. f[i] = IF i \in stop THEN val[i] ELSE step[i][f[jump[i]]]
      BY <1>7 DEF Computes
    <3>2. CASE i = 0
      BY <1>6, <3>1, <3>2
    <3>3. CASE i # 0
      <4>1. i - 1 \in 0..n
        BY <1>1, <3>3
      <4>2. f[i - 1] \in V
        BY <4>1
      <4>3. f[i] = step[i][f[i - 1]]
        BY <1>6, <3>1, <3>3
      <4> QED
        BY <1>6, <3>3, <4>2, <4>3
    <3> QED
      BY <3>2, <3>3
  <2> QED
    BY <2>1
<1> DEFINE upTo == CHOOSE g : Solves(g)
<1>9. EncodeFields(fields) = upTo[n]
  BY DEF EncodeFields, n, longer, none, code
<1> HIDE DEF Solves
<1>10. Solves(upTo)
  BY <1>8
<1> HIDE DEF upTo
<1>11. \A i \in 0..n : upTo[i] = body(upTo, i)
  BY <1>10 DEF Solves
<1>12. upTo[0] = none
  BY <1>1, <1>11
<1>13. \A i \in 1..n : upTo[i] = longer(upTo[i - 1], i)
  BY <1>1, <1>11
\* What is laid out after m fields.
<1> DEFINE Done(m) ==
             /\ upTo[m] \in V
             /\ \A j \in 1..m :
                  /\ upTo[j - 1] \in V
                  /\ Occurs(upTo[m], Len(upTo[j - 1]), code(j))
                  /\ Len(upTo[j]) = Len(upTo[j - 1]) + Len(code(j))
           S == {m \in 0..n : Done(m)}
<1>14. 0 \in S
  BY <1>1, <1>3, <1>12
<1>15. ASSUME NEW m \in 0..(n - 1), m \in S PROVE m + 1 \in S
  <2>1. m + 1 \in 1..n /\ m + 1 \in 0..n /\ (m + 1) - 1 = m /\ m \in Nat
    BY <1>1
  <2>2. Done(m)
    BY <1>15
  <2>3. upTo[m + 1] = upTo[m] \o code(m + 1)
    BY <1>13, <2>1 DEF longer
  <2>4. upTo[m] \in Seq(Byte) /\ code(m + 1) \in Seq(Byte)
    BY <1>1, <2>1, <2>2 DEF V
  <2>5. /\ upTo[m + 1] \in Seq(Byte)
        /\ Len(upTo[m + 1]) = Len(upTo[m]) + Len(code(m + 1))
    BY <2>3, <2>4, ConcatProperties
  <2>6. /\ Occurs(upTo[m + 1], Len(upTo[m]), code(m + 1))
        /\ \A u \in Seq(Byte), i \in Nat :
             Occurs(upTo[m], i, u) => Occurs(upTo[m + 1], i, u)
    BY <2>3, <2>4, OccursInConcat
  <2>7. ASSUME NEW j \in 1..(m + 1)
        PROVE  /\ upTo[j - 1] \in V
               /\ Occurs(upTo[m + 1], Len(upTo[j - 1]), code(j))
               /\ Len(upTo[j]) = Len(upTo[j - 1]) + Len(code(j))
    <3>1. CASE j = m + 1
      BY <2>1, <2>2, <2>5, <2>6, <3>1
    <3>2. CASE j \in 1..m
      <4>1. /\ upTo[j - 1] \in V
            /\ Occurs(upTo[m], Len(upTo[j - 1]), code(j))
            /\ Len(upTo[j]) = Len(upTo[j - 1]) + Len(code(j))
        BY <2>2, <3>2
      <4>2. Len(upTo[j - 1]) \in Nat
        BY <4>1, LenProperties DEF V
      <4>3. code(j) \in Seq(Byte)
        <5>1. j \in 1..n
          BY <1>1, <2>1, <3>2
        <5> QED
          BY <1>1, <5>1 DEF V
      <4> QED
        BY <2>6, <4>1, <4>2, <4>3
    <3> QED
      BY <2>1, <3>1, <3>2
  <2>8. Done(m + 1)
    BY <2>5, <2>7 DEF V
  <2> HIDE DEF Done
  <2> QED
    BY <2>1, <2>8
<1> HIDE DEF S
<1>16. n \in S
  <2>1. 0..n \subseteq S
    BY <1>1, <1>14, <1>15, InductionUpTo
  <2> QED
    BY <1>1, <2>1
<1>17. Done(n)
  BY <1>16 DEF S
<1> DEFINE at == [i \in 0..n |-> Len(upTo[i])]
<1>18. \A i \in 0..n : upTo[i] \in Seq(Byte)
  <2> TAKE i \in 0..n
  <2>1. CASE i = n
    BY <1>17, <2>1 DEF V
  <2>2. CASE i # n
    <3>1. i + 1 \in 1..n /\ (i + 1) - 1 = i
      BY <1>1, <2>2
    <3> QED
      BY <1>17, <3>1 DEF V
  <2> QED
    BY <2>1, <2>2
<1>19. at \in [0..n -> Nat]
  BY <1>18, LenProperties
<1>20. \A i \in 0..n : at[i] = Len(upTo[i])
  OBVIOUS
<1>21. \A j \in 1..n : j \in 0..n /\ j - 1 \in 0..n
  BY <1>1
<1> HIDE DEF at
<1>22. at[0] = 0 /\ at[n] = Len(upTo[n])
  BY <1>1, <1>3, <1>12, <1>20
<1>23. \A j \in 1..n : /\ Occurs(upTo[n], at[j - 1], code(j))
                       /\ at[j] = at[j - 1] + Len(code(j))
  BY <1>17, <1>20, <1>21
<1>24. IsLayout(at, fields, upTo[n])
  BY <1>19, <1>22, <1>23 DEF IsLayout, n, code
<1> QED
  BY <1>1, <1>9, <1>18, <1>24 DEF IsMessage

\* A loop over the fields stops in the places of stop with the value val[i], and
\* elsewhere goes on behind the field.
Scans(scan, data, stop, val) ==
  scan = [i \in 0..Len(data) |->
            IF i \in stop THEN val[i] ELSE scan[FieldAt(data, i).end]]

\* Where extractField stops, and with what.
StopsField(data, num) ==
  {i \in 0..Len(data) : ~(FieldAt(data, i).whole /\ FieldAt(data, i).num # num)}
FoundField(data) ==
  [i \in 0..Len(data) |->
     IF FieldAt(data, i).whole /\ FieldAt(data, i).wire = 2
       THEN [ok |-> TRUE,
             bytes |-> SubSeq(data, FieldAt(data, i).next + 1, FieldAt(data, i).end)]
       ELSE Absent]

\* Where extractVarint stops, and with what.
StopsVarint(data, num) ==
  {i \in 0..Len(data) :
     ~(/\ FieldAt(data, i).whole
       /\ ~(FieldAt(data, i).num = num /\ FieldAt(data, i).wire = 0))}
FoundVarint(data) ==
  [i \in 0..Len(data) |->
     IF FieldAt(data, i).whole THEN FieldAt(data, i).val ELSE 0]

\* The loop over the fields comes to an end, since every field it steps over is
\* there and not empty.
LEMMA ScanEnds ==
  ASSUME NEW data \in Seq(Byte), NEW stop, NEW val,
         \A i \in 0..Len(data) : i \notin stop => FieldAt(data, i).whole
  PROVE  \E scan : Scans(scan, data, stop, val)
<1> DEFINE n == Len(data)
           V == {val[i] : i \in 0..n}
           step == [i \in 0..n |-> [x \in V |-> x]]
           jump == [i \in 0..n |-> FieldAt(data, i).end]
<1>1. n \in Nat
  BY LenProperties
<1>2. \A i \in 0..n : i \in stop => val[i] \in V
  OBVIOUS
<1>3. ASSUME NEW i \in 0..n, i \notin stop
      PROVE  step[i] \in [V -> V] /\ jump[i] \in (i + 1)..n
  <2>1. FieldAt(data, i).end \in (i + 1)..n
    BY <1>3, FieldAtType
  <2> QED
    BY <2>1
<1>4. /\ \A i \in 0..n : jump[i] = FieldAt(data, i).end
      /\ \A i \in 0..n : \A x \in V : step[i][x] = x
  OBVIOUS
<1> HIDE DEF n, V, step, jump
<1>5. PICK f \in [0..n -> V] : Computes(f, n, stop, val, step, jump)
  BY <1>1, <1>2, <1>3, RecursionUp
<1>6. ASSUME NEW i \in 0..n
      PROVE  f[i] = IF i \in stop THEN val[i] ELSE f[FieldAt(data, i).end]
  <2>1. f[i] = IF i \in stop THEN val[i] ELSE step[i][f[jump[i]]]
    BY <1>5 DEF Computes
  <2>2. CASE i \in stop
    BY <2>1, <2>2
  <2>3. CASE i \notin stop
    <3>1. jump[i] \in 0..n
      BY <1>1, <1>3, <2>3
    <3>2. f[jump[i]] \in V
      BY <3>1
    <3> QED
      BY <1>4, <2>1, <2>3, <3>2
  <2> QED
    BY <2>2, <2>3
<1>7. f = [i \in 0..n |-> IF i \in stop THEN val[i] ELSE f[FieldAt(data, i).end]]
  BY <1>6
<1> QED
  BY <1>7 DEF n, Scans

\* The loops of extractField and extractVarint, unfolded.
LEMMA ExtractFieldUnfolds ==
  ASSUME NEW data \in Seq(Byte), NEW num
  PROVE  \E scan : /\ extractField(data, num) = scan[0]
                   /\ Scans(scan, data, StopsField(data, num), FoundField(data))
<1> DEFINE body(g, i) == With(FieldAt(data, i), LAMBDA f :
             IF f.whole /\ f.num # num THEN g[f.end]
             ELSE IF f.whole /\ f.wire = 2
               THEN [ok |-> TRUE, bytes |-> SubSeq(data, f.next + 1, f.end)]
               ELSE Absent)
           Solves(g) == g = [i \in 0..Len(data) |-> body(g, i)]
           stop == StopsField(data, num)
           val == FoundField(data)
           plain(g, i) == IF i \in stop THEN val[i] ELSE g[FieldAt(data, i).end]
<1>1. extractField(data, num) = (CHOOSE g : Solves(g))[0]
  BY DEF extractField, With
<1>2. \A g : \A i \in 0..Len(data) : body(g, i) = plain(g, i)
  BY DEF StopsField, FoundField, With
<1>3. \A i \in 0..Len(data) : i \notin stop => FieldAt(data, i).whole
  BY DEF StopsField
<1> HIDE DEF body, stop, val
<1>4. PICK f : Scans(f, data, stop, val)
  BY <1>3, ScanEnds
<1>5. Solves(f)
  BY <1>2, <1>4 DEF Scans
<1> DEFINE scan == CHOOSE g : Solves(g)
<1> HIDE DEF Solves
<1>6. Solves(scan)
  BY <1>5
<1> HIDE DEF scan
<1>7. Scans(scan, data, stop, val)
  BY <1>2, <1>6 DEF Solves, Scans
<1> QED
  BY <1>1, <1>7 DEF scan, stop, val

LEMMA ExtractVarintUnfolds ==
  ASSUME NEW data \in Seq(Byte), NEW num
  PROVE  \E scan : /\ extractVarint(data, num) = scan[0]
                   /\ Scans(scan, data, StopsVarint(data, num), FoundVarint(data))
<1> DEFINE body(g, i) == With(FieldAt(data, i), LAMBDA f :
             IF f.whole /\ ~(f.num = num /\ f.wire = 0) THEN g[f.end]
             ELSE IF f.whole THEN f.val ELSE 0)
           Solves(g) == g = [i \in 0..Len(data) |-> body(g, i)]
           stop == StopsVarint(data, num)
           val == FoundVarint(data)
           plain(g, i) == IF i \in stop THEN val[i] ELSE g[FieldAt(data, i).end]
<1>1. extractVarint(data, num) = (CHOOSE g : Solves(g))[0]
  BY DEF extractVarint, With
<1>2. \A g : \A i \in 0..Len(data) : body(g, i) = plain(g, i)
  BY DEF StopsVarint, FoundVarint, With
<1>3. \A i \in 0..Len(data) : i \notin stop => FieldAt(data, i).whole
  BY DEF StopsVarint
<1> HIDE DEF body, stop, val
<1>4. PICK f : Scans(f, data, stop, val)
  BY <1>3, ScanEnds
<1>5. Solves(f)
  BY <1>2, <1>4 DEF Scans
<1> DEFINE scan == CHOOSE g : Solves(g)
<1> HIDE DEF Solves
<1>6. Solves(scan)
  BY <1>5
<1> HIDE DEF scan
<1>7. Scans(scan, data, stop, val)
  BY <1>2, <1>6 DEF Solves, Scans
<1> QED
  BY <1>1, <1>7 DEF scan, stop, val

\* In a message a loop is at the first byte of one field after the other.
LEMMA LayoutReads ==
  ASSUME NEW fields \in Seq(Field), NEW data \in Seq(Byte), NEW at,
         IsLayout(at, fields, data)
  PROVE  /\ \A j \in 1..Len(fields) :
              at[j - 1] \in 0..Len(data) /\ ReadsField(data, at[j - 1], fields[j])
         /\ ~FieldAt(data, Len(data)).whole
<1>1. Len(data) \in Nat /\ Len(fields) \in Nat
  BY LenProperties
<1>2. ASSUME NEW j \in 1..Len(fields)
      PROVE  at[j - 1] \in 0..Len(data) /\ ReadsField(data, at[j - 1], fields[j])
  <2>1. fields[j] \in Field
    BY LenProperties
  <2>2. j - 1 \in 0..Len(fields)
    BY <1>1
  <2>3. at[j - 1] \in Nat /\ Occurs(data, at[j - 1], EncodeField(fields[j]))
    BY <2>2 DEF IsLayout
  <2>4. Len(EncodeField(fields[j])) \in Nat
    BY <2>1, EncodeFieldType, LenProperties
  <2>5. at[j - 1] \in 0..Len(data)
    BY <1>1, <2>3, <2>4 DEF Occurs
  <2> QED
    BY <2>1, <2>3, <2>5, FieldAtReads
<1>3. ~FieldAt(data, Len(data)).whole
  <2>1. ASSUME NEW i, FieldAt(data, i).whole PROVE i < Len(data)
    BY <2>1, FieldAtIs
  <2> QED
    BY <1>1, <2>1
<1> QED
  BY <1>2, <1>3

\* The loop stops at the fields in hits, with the value found.
Finds(hits, at, fields, stop, val, found) ==
  \A j \in 1..Len(fields) :
    (j \in hits <=> at[j - 1] \in stop) /\ (j \in hits => val[at[j - 1]] = found)

\* It ends with what it finds at the first of them, or at the end.
LEMMA ScanReads ==
  ASSUME NEW fields \in Seq(Field), NEW data \in Seq(Byte), NEW at,
         IsLayout(at, fields, data),
         NEW scan, NEW stop, NEW val, Scans(scan, data, stop, val),
         NEW hits, NEW found, NEW none,
         Finds(hits, at, fields, stop, val, found),
         Len(data) \in stop, val[Len(data)] = none
  PROVE  scan[0] = IF \E j \in 1..Len(fields) : j \in hits THEN found ELSE none
<1> DEFINE n == Len(fields)
           After(m) == \E j \in (m + 1)..n : j \in hits
           S == {m \in 0..n : scan[at[m]] = IF After(m) THEN found ELSE none}
<1>1. n \in Nat /\ Len(data) \in Nat
  BY LenProperties
<1>2. \A i \in 0..Len(data) :
        scan[i] = IF i \in stop THEN val[i] ELSE scan[FieldAt(data, i).end]
  BY DEF Scans
<1>3. n \in S
  <2>1. at[n] = Len(data) /\ ~After(n)
    BY <1>1 DEF IsLayout
  <2>2. scan[Len(data)] = none
    BY <1>1, <1>2
  <2> HIDE DEF After
  <2> QED
    BY <1>1, <2>1, <2>2
<1>4. ASSUME NEW m \in 1..n, m \in S PROVE m - 1 \in S
  <2>1. at[m - 1] \in 0..Len(data) /\ ReadsField(data, at[m - 1], fields[m])
    BY LayoutReads
  <2>2. FieldAt(data, at[m - 1]).end = at[m]
    BY <2>1 DEF ReadsField, IsLayout
  <2>3. scan[at[m - 1]] = IF m \in hits THEN found ELSE scan[at[m]]
    BY <1>2, <2>1, <2>2 DEF Finds
  <2>4. After(m - 1) <=> m \in hits \/ After(m)
    BY <1>1
  <2>5. m - 1 \in 0..n /\ scan[at[m]] = IF After(m) THEN found ELSE none
    BY <1>1, <1>4
  <2> HIDE DEF After
  <2> QED
    BY <2>3, <2>4, <2>5
<1> HIDE DEF S
<1>5. 0 \in S
  <2>1. 0..n \subseteq S
    BY <1>1, <1>3, <1>4, InductionDownTo
  <2> QED
    BY <1>1, <2>1
<1>6. scan[at[0]] = IF After(0) THEN found ELSE none
  BY <1>5 DEF S
<1>7. at[0] = 0 /\ 0 + 1 = 1
  BY DEF IsLayout
<1> QED
  BY <1>6, <1>7

\* extractField finds the field of that number, and nothing if there is none.
LEMMA ExtractFieldReads ==
  ASSUME NEW fields \in Seq(Field), NEW num, NEW data, IsMessage(data, fields)
  PROVE  /\ Numbered(fields, num) = {} =>
              extractField(data, num) = Absent
         /\ \A f : Numbered(fields, num) = {f} /\ f.wire = 2 =>
              extractField(data, num) = [ok |-> TRUE, bytes |-> f.body]
<1> DEFINE stop == StopsField(data, num)
           val == FoundField(data)
           hits == {j \in 1..Len(fields) : fields[j].num = num}
<1>1. data \in Seq(Byte)
  BY DEF IsMessage
<1>2. PICK at : IsLayout(at, fields, data)
  BY DEF IsMessage
<1>3. PICK scan : extractField(data, num) = scan[0] /\ Scans(scan, data, stop, val)
  BY <1>1, ExtractFieldUnfolds
<1>4. /\ \A j \in 1..Len(fields) :
           at[j - 1] \in 0..Len(data) /\ ReadsField(data, at[j - 1], fields[j])
      /\ ~FieldAt(data, Len(data)).whole
  BY <1>1, <1>2, LayoutReads
<1>5. Len(data) \in 0..Len(data)
  BY <1>1, LenProperties
<1>6. \A j \in 1..Len(fields) : j \in hits <=> at[j - 1] \in stop
  BY <1>4 DEF StopsField, ReadsField
<1>7. Len(data) \in stop /\ val[Len(data)] = Absent
  BY <1>4, <1>5 DEF StopsField, FoundField
<1>8. \A j \in 1..Len(fields) : fields[j] \in Range(fields)
  BY LenProperties DEF Range
<1>9. \A f \in Numbered(fields, num) : \E j \in 1..Len(fields) : j \in hits
  BY LenProperties DEF Range, Numbered
<1>10. \A j \in hits : fields[j] \in Numbered(fields, num)
  BY <1>8 DEF Numbered
<1>11. ASSUME Numbered(fields, num) = {} PROVE extractField(data, num) = Absent
  <2>1. \A j \in 1..Len(fields) : j \notin hits
    BY <1>10, <1>11
  <2> HIDE DEF stop, val, hits
  <2>2. Finds(hits, at, fields, stop, val, Absent)
    BY <1>6, <2>1 DEF Finds
  <2>3. scan[0] = IF \E j \in 1..Len(fields) : j \in hits THEN Absent ELSE Absent
    BY <1>1, <1>2, <1>3, <1>7, <2>2, ScanReads
  <2> QED
    BY <1>3, <2>3
<1>12. ASSUME NEW f, Numbered(fields, num) = {f}, f.wire = 2
       PROVE  extractField(data, num) = [ok |-> TRUE, bytes |-> f.body]
  <2> DEFINE found == [ok |-> TRUE, bytes |-> f.body]
  <2>1. \A j \in 1..Len(fields) : j \in hits => fields[j] = f
    BY <1>10, <1>12
  <2>2. ASSUME NEW j \in 1..Len(fields), j \in hits PROVE val[at[j - 1]] = found
    <3>1. /\ at[j - 1] \in 0..Len(data) /\ ReadsField(data, at[j - 1], f)
          /\ f.wire = 2
      BY <1>4, <1>12, <2>1, <2>2
    <3> QED
      BY <3>1 DEF FoundField, ReadsField
  <2>3. \E j \in 1..Len(fields) : j \in hits
    BY <1>9, <1>12
  <2> HIDE DEF stop, val, hits, found
  <2>4. Finds(hits, at, fields, stop, val, found)
    BY <1>6, <2>2 DEF Finds
  <2>5. scan[0] = IF \E j \in 1..Len(fields) : j \in hits THEN found ELSE Absent
    BY <1>1, <1>2, <1>3, <1>7, <2>4, ScanReads
  <2> QED
    BY <1>3, <2>3, <2>5 DEF found
<1> QED
  BY <1>11, <1>12

\* extractVarint finds the number, and 0 if there is none.
LEMMA ExtractVarintReads ==
  ASSUME NEW fields \in Seq(Field), NEW num, NEW data, IsMessage(data, fields)
  PROVE  /\ Numbered(fields, num) = {} =>
              extractVarint(data, num) = 0
         /\ \A f : Numbered(fields, num) = {f} /\ f.wire = 0 =>
              extractVarint(data, num) = f.arg
<1> DEFINE stop == StopsVarint(data, num)
           val == FoundVarint(data)
           hits == {j \in 1..Len(fields) : fields[j].num = num /\ fields[j].wire = 0}
<1>1. data \in Seq(Byte)
  BY DEF IsMessage
<1>2. PICK at : IsLayout(at, fields, data)
  BY DEF IsMessage
<1>3. PICK scan : extractVarint(data, num) = scan[0] /\ Scans(scan, data, stop, val)
  BY <1>1, ExtractVarintUnfolds
<1>4. /\ \A j \in 1..Len(fields) :
           at[j - 1] \in 0..Len(data) /\ ReadsField(data, at[j - 1], fields[j])
      /\ ~FieldAt(data, Len(data)).whole
  BY <1>1, <1>2, LayoutReads
<1>5. Len(data) \in 0..Len(data)
  BY <1>1, LenProperties
<1>6. \A j \in 1..Len(fields) : j \in hits <=> at[j - 1] \in stop
  BY <1>4 DEF StopsVarint, ReadsField
<1>7. Len(data) \in stop /\ val[Len(data)] = 0
  BY <1>4, <1>5 DEF StopsVarint, FoundVarint
<1>8. \A j \in 1..Len(fields) : fields[j] \in Range(fields)
  BY LenProperties DEF Range
<1>9. \A f \in Numbered(fields, num) : f.wire = 0 =>
        \E j \in 1..Len(fields) : j \in hits
  BY LenProperties DEF Range, Numbered
<1>10. \A j \in hits : fields[j] \in Numbered(fields, num)
  BY <1>8 DEF Numbered
<1>11. ASSUME Numbered(fields, num) = {} PROVE extractVarint(data, num) = 0
  <2>1. \A j \in 1..Len(fields) : j \notin hits
    BY <1>10, <1>11
  <2> HIDE DEF stop, val, hits
  <2>2. Finds(hits, at, fields, stop, val, 0)
    BY <1>6, <2>1 DEF Finds
  <2>3. scan[0] = IF \E j \in 1..Len(fields) : j \in hits THEN 0 ELSE 0
    BY <1>1, <1>2, <1>3, <1>7, <2>2, ScanReads
  <2> QED
    BY <1>3, <2>3
<1>12. ASSUME NEW f, Numbered(fields, num) = {f}, f.wire = 0
       PROVE  extractVarint(data, num) = f.arg
  <2>1. \A j \in 1..Len(fields) : j \in hits => fields[j] = f
    BY <1>10, <1>12
  <2>2. \A j \in 1..Len(fields) : j \in hits => val[at[j - 1]] = f.arg
    BY <1>4, <2>1 DEF FoundVarint, ReadsField
  <2>3. \E j \in 1..Len(fields) : j \in hits
    BY <1>9, <1>12
  <2> HIDE DEF stop, val, hits
  <2>4. Finds(hits, at, fields, stop, val, f.arg)
    BY <1>6, <2>2 DEF Finds
  <2>5. scan[0] = IF \E j \in 1..Len(fields) : j \in hits THEN f.arg ELSE 0
    BY <1>1, <1>2, <1>3, <1>7, <2>4, ScanReads
  <2> QED
    BY <1>3, <2>3, <2>5
<1> QED
  BY <1>11, <1>12

\* Fields whose tag and value or length take one byte each.
LEMMA ShortFields ==
  ASSUME NEW num \in 1..15, NEW v \in 0..127, NEW b \in Seq(Byte), Len(b) < 128
  PROVE  /\ Num(num, v) \in Field /\ EncodeField(Num(num, v)) = <<8 * num, v>>
         /\ Bytes(num, b) \in Field
         /\ EncodeField(Bytes(num, b)) = <<8 * num + 2, Len(b)>> \o b
<1>1. \A x \in 0..127 : Fits(x) /\ Varint(x) = <<x>>
  <2> TAKE x \in 0..127
  <2>1. x < 2^WordBits /\ 1 <= MaxVarintLen
    BY WidthAssumption
  <2>2. Varint(x) = <<x>> /\ Len(<<x>>) = 1
    BY VarintEncodes
  <2> QED
    BY <2>1, <2>2 DEF Fits
<1>2. Len(b) \in 0..127
  <2>1. Len(b) \in Nat
    BY LenProperties
  <2>2. \A n \in Nat : n < 128 => n \in 0..127
    OBVIOUS
  <2> QED
    BY <2>1, <2>2
<1>3. 8 * num \in 0..127 /\ 8 * num + 2 \in 0..127 /\ 8 * num + 0 = 8 * num
  OBVIOUS
<1>4. Num(num, v) \in Field
  <2> DEFINE f == Num(num, v)
             none == <<>>
  <2>1. f = [num |-> num, wire |-> 0, arg |-> v, body |-> none]
    BY DEF Num
  <2>2. none \in Seq(Byte)
    BY EmptySeq
  <2>3. Fits(8 * num + 0) /\ Fits(v)
    BY <1>1, <1>3
  <2> HIDE DEF f, none
  <2>4. f \in [num : Nat \ {0}, wire : {0, 2}, arg : Nat, body : Seq(Byte)]
    <3>1. num \in Nat \ {0} /\ v \in Nat
      OBVIOUS
    <3> QED
      BY ONLY <2>1, <2>2, <3>1
  <2>5. f.num = num /\ f.wire = 0 /\ f.arg = v /\ f.body = none
    BY <2>1
  <2> QED
    BY <2>3, <2>4, <2>5 DEF Field, f, none
<1>5. Bytes(num, b) \in Field
  <2> DEFINE f == Bytes(num, b)
  <2>1. f = [num |-> num, wire |-> 2, arg |-> Len(b), body |-> b]
    BY DEF Bytes
  <2>3. Fits(8 * num + 2) /\ Fits(Len(b))
    BY <1>1, <1>2, <1>3
  <2> HIDE DEF f
  <2>4. f \in [num : Nat \ {0}, wire : {0, 2}, arg : Nat, body : Seq(Byte)]
    BY <1>2, <2>1
  <2>5. f.num = num /\ f.wire = 2 /\ f.arg = Len(b) /\ f.body = b
    BY <2>1
  <2> QED
    BY <2>3, <2>4, <2>5 DEF Field, f
<1>6. ASSUME NEW x \in Nat, NEW y \in Nat PROVE <<x>> \o <<y>> = <<x, y>>
  <2> DEFINE s == <<x>>
             t == <<y>>
             u == <<x, y>>
  <2>1. /\ s \in Seq(Nat) /\ Len(s) = 1 /\ s[1] = x
        /\ t \in Seq(Nat) /\ Len(t) = 1 /\ t[1] = y
        /\ u \in Seq(Nat) /\ Len(u) = 2 /\ u[1] = x /\ u[2] = y
    OBVIOUS
  <2> HIDE DEF s, t, u
  <2>2. /\ s \o t \in Seq(Nat) /\ Len(s \o t) = Len(s) + Len(t)
        /\ \A n \in 1..(Len(s) + Len(t)) :
             (s \o t)[n] = IF n <= Len(s) THEN s[n] ELSE t[n - Len(s)]
    BY <2>1, ConcatProperties
  <2>3. Len(s \o t) = Len(u) /\ \A n \in 1..Len(u) : (s \o t)[n] = u[n]
    BY <2>1, <2>2
  <2>4. s \o t = u
    BY <2>1, <2>2, <2>3, SeqEqual
  <2> QED
    BY <2>4 DEF s, t, u
<1>7. EncodeField(Num(num, v)) = <<8 * num, v>>
  <2>1. EncodeField(Num(num, v)) = <<8 * num>> \o <<v>> \o <<>>
    BY <1>1, <1>3 DEF EncodeField, Num
  <2>2. <<8 * num, v>> \in Seq(Nat)
    OBVIOUS
  <2>3. <<8 * num, v>> \o <<>> = <<8 * num, v>>
    BY <2>2, ConcatEmptySeq
  <2> QED
    <3>1. <<8 * num>> \o <<v>> = <<8 * num, v>>
      BY <1>3, <1>6
    <3> QED
      BY <2>1, <2>3, <3>1
<1>8. EncodeField(Bytes(num, b)) = <<8 * num + 2, Len(b)>> \o b
  <2>1. EncodeField(Bytes(num, b)) = <<8 * num + 2>> \o <<Len(b)>> \o b
    BY <1>1, <1>2, <1>3 DEF EncodeField, Bytes
  <2>2. <<8 * num + 2>> \o <<Len(b)>> = <<8 * num + 2, Len(b)>>
    BY <1>2, <1>6
  <2> QED
    BY <2>1, <2>2
<1> QED
  BY <1>4, <1>5, <1>7, <1>8

\* One of them is a number.
LEMMA ShortNum ==
  ASSUME NEW num \in 1..15, NEW v \in 0..127
  PROVE  Num(num, v) \in Field /\ EncodeField(Num(num, v)) = <<8 * num, v>>
<1> DEFINE none == <<>>
<1>1. none \in Seq(Byte) /\ Len(none) < 128
  OBVIOUS
<1> HIDE DEF none
<1> QED
  BY <1>1, ShortFields, Zenon

\* The other is a string.
LEMMA ShortBytes ==
  ASSUME NEW num \in 1..15, NEW b \in Seq(Byte), Len(b) < 128
  PROVE  /\ Bytes(num, b) \in Field
         /\ EncodeField(Bytes(num, b)) = <<8 * num + 2, Len(b)>> \o b
<1>1. 0 \in 0..127
  OBVIOUS
<1> QED
  BY <1>1, ShortFields, Zenon

-----------------------------------------------------------------------------
(* Responses.                                                              *)

\* A string the message carries, left out or not.
LEMMA CarriesBytes ==
  ASSUME NEW fields \in Seq(Field), NEW num, NEW b \in Seq(Byte),
         Carries(fields, Bytes(num, b))
  PROVE  extractString(EncodeFields(fields), num) = b
<1> DEFINE f == Bytes(num, b)
           data == EncodeFields(fields)
<1>1. f.num = num /\ f.wire = 2 /\ f.body = b /\ f.arg = Len(b)
  BY DEF Bytes
<1>2. IsMessage(data, fields)
  BY EncodeFieldsLayout
<1> HIDE DEF f, data
<1>3. CASE Numbered(fields, num) = {f}
  <2>1. extractField(data, num) = [ok |-> TRUE, bytes |-> f.body]
    BY <1>1, <1>2, <1>3, ExtractFieldReads
  <2> QED
    BY <1>1, <2>1 DEF extractString, data
<1>4. CASE Numbered(fields, num) = {} /\ Len(b) = 0
  <2>1. extractField(data, num) = Absent
    BY <1>2, <1>4, ExtractFieldReads
  <2>2. b = <<>>
    BY <1>4, EmptySeq
  <2> QED
    BY <2>1, <2>2 DEF extractString, data, Absent
<1> QED
  BY <1>1, <1>3, <1>4 DEF Carries, f

\* A number the message carries, left out or not.
LEMMA CarriesNum ==
  ASSUME NEW fields \in Seq(Field), NEW num, NEW v,
         Carries(fields, Num(num, v))
  PROVE  extractVarint(EncodeFields(fields), num) = v
<1> DEFINE f == Num(num, v)
           data == EncodeFields(fields)
<1>1. f.num = num /\ f.wire = 0 /\ f.arg = v
  BY DEF Num
<1>2. IsMessage(data, fields)
  BY EncodeFieldsLayout
<1> HIDE DEF f, data
<1>3. CASE Numbered(fields, num) = {f}
  BY <1>1, <1>2, <1>3, ExtractVarintReads DEF data
<1>4. CASE Numbered(fields, num) = {} /\ v = 0
  BY <1>2, <1>4, ExtractVarintReads DEF data
<1> QED
  BY <1>1, <1>3, <1>4 DEF Carries, f

\* A message in a message.
LEMMA CarriesSub ==
  ASSUME NEW fields \in Seq(Field), NEW num, NEW sub \in Seq(Field),
         Carries(fields, Sub(num, sub))
  PROVE  extractString(EncodeFields(fields), num) = EncodeFields(sub)
<1>1. EncodeFields(sub) \in Seq(Byte)
  BY EncodeFieldsLayout DEF IsMessage
<1> QED
  BY <1>1, CarriesBytes DEF Sub

\* A field that is there exactly if it is given.
LEMMA OneOf ==
  ASSUME NEW fields \in Seq(Field), NEW num, NEW sub \in Seq(Field), NEW given \in BOOLEAN,
         Numbered(fields, num) = IF given THEN {Sub(num, sub)} ELSE {}
  PROVE  /\ given => extractField(EncodeFields(fields), num) =
                        [ok |-> TRUE, bytes |-> EncodeFields(sub)]
         /\ ~given => extractField(EncodeFields(fields), num) = Absent
<1> DEFINE f == Sub(num, sub)
           data == EncodeFields(fields)
<1>1. f.wire = 2 /\ f.body = EncodeFields(sub)
  BY DEF Sub, Bytes
<1>2. IsMessage(data, fields)
  BY EncodeFieldsLayout
<1> HIDE DEF f, data
<1>3. CASE given
  <2>1. Numbered(fields, num) = {f}
    BY <1>3 DEF f
  <2> QED
    BY <1>1, <1>2, <1>3, <2>1, ExtractFieldReads DEF data
<1>4. CASE ~given
  BY <1>2, <1>4, ExtractFieldReads DEF data
<1> QED
  BY <1>3, <1>4

\* The port and the protocol.
LEMMA DecodeL4Reads ==
  ASSUME NEW r \in Response, WellFormed(r)
  PROVE  decodeL4(EncodeFields(r.l4)) =
           [proto |-> r.proto, port |-> IF r.proto = "" THEN 0 ELSE r.port]
<1> DEFINE data == EncodeFields(r.l4)
           tcp == r.proto = "TCP"
           udp == r.proto = "UDP"
           read == extractVarint(EncodeFields(r.ports), 2)
<1>1. /\ r.l4 \in Seq(Field) /\ r.ports \in Seq(Field)
      /\ r.proto \in {"TCP", "UDP", ""} /\ r.port \in 0..(2^PortBits - 1)
  BY DEF Response
<1>2. read = r.port
  BY <1>1, CarriesNum DEF WellFormed
<1>3. read % 2^PortBits = r.port
  <2>1. \A m \in Nat : \A p \in 0..(m - 1) : p % m = p
    OBVIOUS
  <2> QED
    BY <1>1, <1>2, <2>1, WidthAssumption
<1>4. /\ tcp => extractField(data, 1) = [ok |-> TRUE, bytes |-> EncodeFields(r.ports)]
      /\ ~tcp => extractField(data, 1) = Absent
  <2>1. tcp \in BOOLEAN /\ Numbered(r.l4, 1) = IF tcp THEN {Sub(1, r.ports)} ELSE {}
    BY DEF WellFormed
  <2> HIDE DEF tcp
  <2> QED
    BY <1>1, <2>1, OneOf
<1>5. /\ udp => extractField(data, 2) = [ok |-> TRUE, bytes |-> EncodeFields(r.ports)]
      /\ ~udp => extractField(data, 2) = Absent
  <2>1. udp \in BOOLEAN /\ Numbered(r.l4, 2) = IF udp THEN {Sub(2, r.ports)} ELSE {}
    BY DEF WellFormed
  <2> HIDE DEF udp
  <2> QED
    BY <1>1, <2>1, OneOf
<1> DEFINE a == extractField(data, 1)
           b == extractField(data, 2)
           with(proto, bytes) ==
             [proto |-> proto, port |-> extractVarint(bytes, 2) % 2^PortBits]
<1>6. decodeL4(data) = CASE a.ok -> with("TCP", a.bytes)
                         [] ~a.ok /\ b.ok -> with("UDP", b.bytes)
                         [] OTHER -> [proto |-> "", port |-> 0]
  BY DEF decodeL4
<1> HIDE DEF data, a, b
<1>7. CASE tcp
  <2>1. a.ok /\ a.bytes = EncodeFields(r.ports)
    BY <1>4, <1>7 DEF a
  <2>2. decodeL4(data) = with("TCP", a.bytes)
    BY <1>6, <2>1
  <2> QED
    BY <1>3, <1>7, <2>1, <2>2 DEF data
<1>8. CASE udp
  <2>1. ~a.ok /\ b.ok /\ b.bytes = EncodeFields(r.ports)
    BY <1>4, <1>5, <1>8 DEF a, b, Absent
  <2>2. decodeL4(data) = with("UDP", b.bytes)
    BY <1>6, <2>1
  <2> QED
    BY <1>3, <1>8, <2>1, <2>2 DEF data
<1>9. CASE r.proto = ""
  <2>1. a = Absent /\ b = Absent
    BY <1>4, <1>5, <1>9 DEF a, b
  <2>2. ~Absent.ok
    BY DEF Absent
  <2>3. ~a.ok /\ ~b.ok
    BY <2>1, <2>2
  <2>4. decodeL4(data) = [proto |-> "", port |-> 0]
    BY <1>6, <2>3
  <2> QED
    BY <1>9, <2>4 DEF data
<1> QED
  BY <1>1, <1>7, <1>8, <1>9

\* The verdicts.
LEMMA VerdictReads ==
  ASSUME NEW v \in Nat
  PROVE  Verdict(v) = IF v \in 3..5
                        THEN <<"FORWARDED", "DROPPED", "AUDIT">>[v - 2]
                        ELSE "UNKNOWN"
<1>1. CASE v = 3
  BY <1>1 DEF Verdict
<1>2. CASE v = 4
  BY <1>2 DEF Verdict
<1>3. CASE v = 5
  BY <1>3 DEF Verdict
<1>4. CASE v \notin 3..5
  BY <1>4 DEF Verdict
<1> QED
  BY <1>1, <1>2, <1>3, <1>4

\* decodeFlow finds what the flow says, and gives up on one without a
\* namespace.
LEMMA DecodeFlowReads ==
  ASSUME NEW r \in Response, WellFormed(r)
  PROVE  decodeFlow(EncodeFields(r.flow)) =
           [ok |-> r.ns # <<>>, flow |-> Meaning(r)]
<1> DEFINE data == EncodeFields(r.flow)
           src == EncodeFields(r.source)
           dst == EncodeFields(r.dest)
           dns == EncodeFields(r.dns)
           l4 == EncodeFields(r.l4)
<1>1. /\ r.flow \in Seq(Field) /\ r.source \in Seq(Field) /\ r.dest \in Seq(Field)
      /\ r.l4 \in Seq(Field) /\ r.dns \in Seq(Field)
      /\ r.ns \in Seq(Byte) /\ r.pod \in Seq(Byte) /\ r.ip \in Seq(Byte)
      /\ r.name \in Seq(Byte) /\ r.query \in Seq(Byte) /\ r.verdict \in Nat
  BY DEF Response
<1>2. /\ extractString(data, 3) = src /\ extractString(data, 4) = dst
      /\ extractString(data, 5) = l4 /\ extractString(data, 12) = dns
  BY <1>1, CarriesSub DEF WellFormed
<1>3. /\ extractString(src, 1) = r.ns /\ extractString(src, 3) = r.pod
      /\ extractString(dst, 1) = r.ip /\ extractString(dst, 6) = r.name
      /\ extractString(dns, 3) = r.query
  <2>1. /\ Carries(r.source, Bytes(1, r.ns)) /\ Carries(r.source, Bytes(3, r.pod))
        /\ Carries(r.dest, Bytes(1, r.ip)) /\ Carries(r.dest, Bytes(6, r.name))
        /\ Carries(r.dns, Bytes(3, r.query))
    BY DEF WellFormed
  <2>2. extractString(src, 1) = r.ns /\ extractString(src, 3) = r.pod
    BY <1>1, <2>1, CarriesBytes
  <2>3. extractString(dst, 1) = r.ip /\ extractString(dst, 6) = r.name
    BY <1>1, <2>1, CarriesBytes
  <2>4. extractString(dns, 3) = r.query
    BY <1>1, <2>1, CarriesBytes
  <2> QED
    BY <2>2, <2>3, <2>4
<1>4. extractVarint(data, 9) = r.verdict
  BY <1>1, CarriesNum DEF WellFormed
<1>5. decodeL4(l4) = [proto |-> r.proto, port |-> IF r.proto = "" THEN 0 ELSE r.port]
  BY DecodeL4Reads
<1>6. Verdict(r.verdict) = IF r.verdict \in 3..5
                             THEN <<"FORWARDED", "DROPPED", "AUDIT">>[r.verdict - 2]
                             ELSE "UNKNOWN"
  BY <1>1, VerdictReads
<1> HIDE DEF data, src, dst, dns, l4
<1> DEFINE read == [ns |-> r.ns, pod |-> r.pod, ip |-> r.ip,
                    fqdn |-> destFQDN(r.name, r.query),
                    proto |-> decodeL4(l4).proto, port |-> decodeL4(l4).port,
                    verdict |-> Verdict(r.verdict)]
<1>7. decodeFlow(data) = [ok |-> r.ns # <<>>, flow |-> read]
  BY <1>2, <1>3, <1>4 DEF decodeFlow
<1>8. read = Meaning(r)
  <2> DEFINE word == IF r.verdict \in 3..5
                       THEN <<"FORWARDED", "DROPPED", "AUDIT">>[r.verdict - 2]
                       ELSE "UNKNOWN"
             port == IF r.proto = "" THEN 0 ELSE r.port
  <2>1. Meaning(r) = [ns |-> r.ns, pod |-> r.pod, ip |-> r.ip,
                      fqdn |-> destFQDN(r.name, r.query), proto |-> r.proto,
                      port |-> port, verdict |-> word]
    BY DEF Meaning, destFQDN
  <2>2. Verdict(r.verdict) = word
    BY <1>6
  <2>3. decodeL4(l4) = [proto |-> r.proto, port |-> port]
    BY <1>5
  <2> HIDE DEF word, port
  <2>4. decodeL4(l4).proto = r.proto /\ decodeL4(l4).port = port
    BY <2>3
  <2> QED
    BY <2>1, <2>2, <2>4
<1> QED
  BY <1>7, <1>8 DEF data

\* What decodeGetFlowsResponse returns for a response the relay sends is what
\* the response says (hubble_grpc.go:115-294): for all values, all fields the
\* reader does not know, and all orders of the fields.
THEOREM ResponsesDecode ==
  ASSUME NEW r \in Response, WellFormed(r)
  PROVE  LET decoded == decodeGetFlowsResponse(Encode(r)) IN
         /\ decoded.ok <=> r.kind = "flow" /\ r.ns # <<>>
         /\ decoded.ok => decoded.flow = Meaning(r)
<1> DEFINE data == EncodeFields(r.response)
           given == r.kind = "flow"
<1>1. r.response \in Seq(Field) /\ r.flow \in Seq(Field)
  BY DEF Response
<1>2. given \in BOOLEAN
      /\ Numbered(r.response, 1) = IF given THEN {Sub(1, r.flow)} ELSE {}
  BY DEF WellFormed
<1>3. /\ given => extractField(data, 1) = [ok |-> TRUE, bytes |-> EncodeFields(r.flow)]
      /\ ~given => extractField(data, 1) = Absent
  <2> HIDE DEF given
  <2> QED
    BY <1>1, <1>2, OneOf
<1>4. decodeFlow(EncodeFields(r.flow)) = [ok |-> r.ns # <<>>, flow |-> Meaning(r)]
  BY DecodeFlowReads
<1> HIDE DEF data
<1>5. CASE given
  <2>1. decodeGetFlowsResponse(data) = [ok |-> r.ns # <<>>, flow |-> Meaning(r)]
    BY <1>3, <1>4, <1>5 DEF decodeGetFlowsResponse
  <2>2. /\ decodeGetFlowsResponse(data).ok <=> r.ns # <<>>
        /\ decodeGetFlowsResponse(data).flow = Meaning(r)
    <3> DEFINE named == r.ns # <<>>
    <3>1. named \in BOOLEAN
      OBVIOUS
    <3>2. decodeGetFlowsResponse(data) = [ok |-> named, flow |-> Meaning(r)]
      BY <2>1
    <3> HIDE DEF named
    <3>3. /\ decodeGetFlowsResponse(data).ok = named
          /\ decodeGetFlowsResponse(data).flow = Meaning(r)
      BY <3>2
    <3> QED
      BY <3>1, <3>3 DEF named
  <2> QED
    BY <1>5, <2>2 DEF Encode, data
<1>6. CASE ~given
  <2>1. decodeGetFlowsResponse(data) = [ok |-> FALSE, flow |-> NoFlow]
    BY <1>3, <1>6 DEF decodeGetFlowsResponse, Absent
  <2>2. decodeGetFlowsResponse(data).ok = FALSE
    BY <2>1
  <2> QED
    BY <1>6, <2>2 DEF Encode, data
<1> QED
  BY <1>5, <1>6
=============================================================================
