------------------------ MODULE DatagramStreamProofs ------------------------
(***************************************************************************)
(* What recv returns was sent, in the order of the sends if the link keeps *)
(* it, and without a silent loss if the link loses nothing; and a channel  *)
(* implements DatagramService.  For any number of senders, any payload     *)
(* lengths, budget and limits, and any number of faults, as long as no     *)
(* message id is used twice.  The invariant is StreamInv of DatagramStream.*)
(***************************************************************************)
EXTENDS DatagramStream, TLAPS, SequenceTheorems, FiniteSetTheorems, WellFoundedInduction

-----------------------------------------------------------------------------
(* Numbers *)

\* A set of numbers has a least member: what the proofs need of induction.
LEMMA Least ==
  ASSUME NEW T \in SUBSET Nat, T # {}
  PROVE  \E x \in T : \A y \in T : x <= y
<1>1. IsWellFoundedOn(OpToRel(<, Nat), Nat)
  BY NatLessThanWellFounded
<1> DEFINE R == OpToRel(<, Nat)
<1>2. \E x \in T : \A y \in T : ~ (<<y, x>> \in R)
  <2> HIDE DEF R
  <2>1. IsWellFoundedOn(R, Nat)
    BY <1>1 DEF R
  <2> QED BY <2>1, WFMin, Zenon
<1>3. PICK x \in T : \A y \in T : ~ (<<y, x>> \in R)
  BY <1>2
<1>4. \A y \in T : ~(y < x)
  BY <1>3 DEF OpToRel
<1> QED BY <1>4

\* The model's Min is that least member.
LEMMA MinIsLeast ==
  ASSUME NEW T \in SUBSET Nat, T # {}
  PROVE  Min(T) \in T /\ \A y \in T : Min(T) <= y
BY Least DEF Min

\* The constants of the model are numbers, and those of them that bound a
\* table, a queue or a fragment are positive.
LEMMA ConstantTypes ==
  /\ Budget \in Nat \ {0} /\ MaxConcurrent \in Nat \ {0} /\ Timeout \in Nat \ {0}
  /\ QueueDepth \in Nat \ {0} /\ IdSpace \in Nat \ {0}
  /\ MaxMessageLen \in Nat /\ MaxMessages \in Nat /\ Sizes \subseteq Nat
  /\ NoHandle \notin Handles
BY StreamAssumption

\* A message is split into the least number of fragments that holds it.
LEMMA FragmentsForIs ==
  ASSUME NEW len \in Nat
  PROVE  /\ FragmentsFor(len) \in Nat \ {0}
         /\ len <= FragmentsFor(len) * Budget
         /\ len > 0 => (FragmentsFor(len) - 1) * Budget < len
         /\ len = 0 => FragmentsFor(len) = 1
<1>1. CASE len = 0
  BY <1>1, ConstantTypes DEF FragmentsFor
<1>2. CASE len > 0
  <2> DEFINE n == (len + Budget - 1) \div Budget
  <2>1. FragmentsFor(len) = n
    BY <1>2 DEF FragmentsFor, DivCeil
  <2>2. Budget \in Nat /\ Budget > 0 /\ len + Budget - 1 \in Nat
    BY ConstantTypes
  <2>3. /\ n \in Nat
        /\ n * Budget <= len + Budget - 1
        /\ len + Budget - 1 < (n + 1) * Budget
    BY <2>2
  <2> HIDE DEF n
  <2>4. (n + 1) * Budget = n * Budget + Budget /\ (n - 1) * Budget = n * Budget - Budget
    BY <2>2, <2>3
  <2>5. n # 0
    BY <1>2, <2>2, <2>3
  <2>6. n * Budget \in Nat
    BY <2>2, <2>3
  <2>7. len <= n * Budget /\ (n - 1) * Budget < len
    BY <2>2, <2>3, <2>4, <2>6
  <2> QED BY <1>2, <2>1, <2>3, <2>5, <2>7
<1> QED BY <1>1, <1>2

\* As long as no id is used twice, message m has the id m - 1.
LEMMA MsgIdIs ==
  ASSUME MaxMessages <= IdSpace, NEW m \in 1..MaxMessages
  PROVE  MsgId(m) = m - 1
<1>1. m - 1 \in Nat /\ m - 1 < IdSpace
  BY ConstantTypes
<1>2. \A a \in Nat : \A b \in Nat \ {0} : a < b => a % b = a
  OBVIOUS
<1> QED BY <1>1, <1>2, ConstantTypes DEF MsgId

-----------------------------------------------------------------------------
(* Sequences *)

\* RemoveAt leaves the others where they stood, moved up behind the gap.
LEMMA RemoveAtIs ==
  ASSUME NEW S, NEW s \in Seq(S), NEW i \in 1..Len(s)
  PROVE  /\ RemoveAt(s, i) \in Seq(S)
         /\ Len(RemoveAt(s, i)) = Len(s) - 1
         /\ \A j \in 1..Len(s) - 1 : RemoveAt(s, i)[j] = IF j < i THEN s[j] ELSE s[j + 1]
<1> DEFINE a == SubSeq(s, 1, i - 1)
           b == SubSeq(s, i + 1, Len(s))
<1>1. a \in Seq(S) /\ Len(a) = i - 1 /\ \A j \in 1..i - 1 : a[j] = s[j]
  OBVIOUS
<1>2. b \in Seq(S) /\ Len(b) = Len(s) - i /\ \A j \in 1..Len(s) - i : b[j] = s[i + j]
  OBVIOUS
<1> HIDE DEF a, b
<1>3. /\ a \o b \in Seq(S) /\ Len(a \o b) = Len(a) + Len(b)
      /\ \A j \in 1..Len(a) + Len(b) :
            (a \o b)[j] = IF j <= Len(a) THEN a[j] ELSE b[j - Len(a)]
  BY <1>1, <1>2, ConcatProperties
<1>4. RemoveAt(s, i) = a \o b
  BY DEF RemoveAt, a, b
<1>5. ASSUME NEW j \in 1..Len(s) - 1
      PROVE  (a \o b)[j] = IF j < i THEN s[j] ELSE s[j + 1]
  <2>1. CASE j < i
    BY <2>1, <1>1, <1>3, <1>2
  <2>2. CASE j >= i
    <3>1. /\ j - (i - 1) \in 1..Len(s) - i /\ ~(j <= Len(a))
          /\ j \in 1..Len(a) + Len(b) /\ j - Len(a) = j - (i - 1)
      BY <2>2, <1>1, <1>2
    <3>2. (a \o b)[j] = b[j - Len(a)]
      BY <3>1, <1>3
    <3>3. b[j - (i - 1)] = s[i + (j - (i - 1))]
      BY <3>1, <1>2
    <3>4. i + (j - (i - 1)) = j + 1 /\ ~(j < i)
      BY <2>2
    <3> QED BY <3>1, <3>2, <3>3, <3>4
  <2>3. j < i \/ j >= i
    BY LenProperties
  <2> QED BY <2>1, <2>2, <2>3, Zenon
<1>6. Len(a) + Len(b) = Len(s) - 1
  BY <1>1, <1>2, LenProperties
<1> QED BY <1>3, <1>4, <1>5, <1>6

\* Repeating the i-th moves those behind it down.
LEMMA RepeatIs ==
  ASSUME NEW S, NEW s \in Seq(S), NEW i \in 1..Len(s)
  PROVE  /\ InsertAt(s, i, s[i]) \in Seq(S)
         /\ Len(InsertAt(s, i, s[i])) = Len(s) + 1
         /\ \A j \in 1..Len(s) + 1 :
               InsertAt(s, i, s[i])[j] = IF j <= i THEN s[j] ELSE s[j - 1]
<1> DEFINE a == SubSeq(s, 1, i - 1) \o <<s[i]>>
           b == SubSeq(s, i, Len(s))
<1>1. a \in Seq(S) /\ Len(a) = i /\ \A j \in 1..i : a[j] = s[j]
  OBVIOUS
<1>2. b \in Seq(S) /\ Len(b) = Len(s) - i + 1 /\ \A j \in 1..Len(s) - i + 1 : b[j] = s[i + j - 1]
  OBVIOUS
<1> HIDE DEF a, b
<1>3. /\ a \o b \in Seq(S) /\ Len(a \o b) = Len(a) + Len(b)
      /\ \A j \in 1..Len(a) + Len(b) :
            (a \o b)[j] = IF j <= Len(a) THEN a[j] ELSE b[j - Len(a)]
  BY <1>1, <1>2, ConcatProperties
<1>4. InsertAt(s, i, s[i]) = a \o b
  BY DEF InsertAt, a, b
<1>5. ASSUME NEW j \in 1..Len(s) + 1
      PROVE  (a \o b)[j] = IF j <= i THEN s[j] ELSE s[j - 1]
  <2>1. CASE j <= i
    BY <2>1, <1>1, <1>2, <1>3
  <2>2. CASE j > i
    <3>1. /\ j - i \in 1..Len(s) - i + 1 /\ ~(j <= Len(a))
          /\ j \in 1..Len(a) + Len(b) /\ j - Len(a) = j - i
      BY <2>2, <1>1, <1>2
    <3>2. (a \o b)[j] = b[j - Len(a)]
      BY <3>1, <1>3
    <3>3. b[j - i] = s[i + (j - i) - 1]
      BY <3>1, <1>2
    <3>4. i + (j - i) - 1 = j - 1 /\ ~(j <= i)
      BY <2>2
    <3> QED BY <3>1, <3>2, <3>3, <3>4
  <2>3. j <= i \/ j > i
    BY LenProperties
  <2> QED BY <2>1, <2>2, <2>3, Zenon
<1>6. Len(a) + Len(b) = Len(s) + 1
  BY <1>1, <1>2, LenProperties
<1> QED BY <1>3, <1>4, <1>5, <1>6

\* What stands behind the first n.
LEMMA BehindIs ==
  ASSUME NEW S, NEW s \in Seq(S), NEW n \in 0..Len(s)
  PROVE  /\ SubSeq(s, n + 1, Len(s)) \in Seq(S)
         /\ Len(SubSeq(s, n + 1, Len(s))) = Len(s) - n
         /\ \A j \in 1..Len(s) - n : SubSeq(s, n + 1, Len(s))[j] = s[n + j]
OBVIOUS

\* The members of a sequence are those it has at its places.
LEMMA RangeIs ==
  ASSUME NEW S, NEW s \in Seq(S)
  PROVE  /\ Range(s) \subseteq S
         /\ DOMAIN s = 1..Len(s) /\ Len(s) \in Nat
         /\ \A x : x \in Range(s) <=> \E k \in 1..Len(s) : s[k] = x
BY DEF Range

\* One more at the end, or one less at the front.
LEMMA EndsAre ==
  ASSUME NEW S, NEW s \in Seq(S)
  PROVE  /\ \A x \in S :
              /\ Append(s, x) \in Seq(S) /\ Len(Append(s, x)) = Len(s) + 1
              /\ \A j \in 1..Len(s) + 1 : Append(s, x)[j] = IF j <= Len(s) THEN s[j] ELSE x
         /\ s # <<>> =>
              /\ Head(s) = s[1] /\ s[1] \in S /\ Tail(s) \in Seq(S)
              /\ Len(Tail(s)) = Len(s) - 1 /\ Len(s) > 0
              /\ \A j \in 1..Len(s) - 1 : Tail(s)[j] = s[j + 1]
<1>1. s # <<>> => Len(s) > 0
  BY EmptySeq
<1>2. s # <<>> => Head(s) = s[1] /\ s[1] \in S /\ Tail(s) \in Seq(S) /\ Len(Tail(s)) = Len(s) - 1
  BY <1>1
<1>3. s # <<>> => \A j \in 1..Len(s) - 1 : Tail(s)[j] = s[j + 1]
  BY <1>1
<1>4. \A x \in S : /\ Append(s, x) \in Seq(S) /\ Len(Append(s, x)) = Len(s) + 1
                   /\ \A j \in 1..Len(s) + 1 : Append(s, x)[j] = IF j <= Len(s) THEN s[j] ELSE x
  OBVIOUS
<1> QED BY <1>1, <1>2, <1>3, <1>4

-----------------------------------------------------------------------------
(* Fragments *)

\* Where the i-th fragment of a message ends.
EndOf(len, i) == Smaller(len, (i + 1) * Budget)

\* Every fragment but the last is full, and the last ends the message.
LEMMA EndOfIs ==
  ASSUME NEW len \in Nat, NEW i \in 0..FragmentsFor(len) - 1
  PROVE  /\ i * Budget \in Nat /\ EndOf(len, i) \in i * Budget..len
         /\ i < FragmentsFor(len) - 1 => EndOf(len, i) = (i + 1) * Budget
         /\ i = FragmentsFor(len) - 1 => EndOf(len, i) = len
         /\ (i + 1) * Budget = i * Budget + Budget
         /\ len > 0 => i * Budget < EndOf(len, i)
<1> DEFINE n == FragmentsFor(len)
<1>1. n \in Nat \ {0} /\ len <= n * Budget /\ (len = 0 => n = 1)
      /\ (len > 0 => (n - 1) * Budget < len)
  BY FragmentsForIs
<1>2. Budget \in Nat /\ Budget > 0
  BY ConstantTypes
<1>3. i \in Nat /\ i <= n - 1
  BY <1>1
<1> HIDE DEF n
<1>4. /\ i * Budget \in Nat /\ (i + 1) * Budget = i * Budget + Budget
      /\ n * Budget \in Nat /\ (n - 1) * Budget \in Nat
  BY <1>1, <1>2, <1>3
<1>5. i * Budget <= (n - 1) * Budget
  BY <1>1, <1>2, <1>3
<1>6. i < n - 1 => (i + 1) * Budget <= (n - 1) * Budget
  BY <1>1, <1>2, <1>3
<1>7. i = n - 1 => (i + 1) * Budget = n * Budget
  BY <1>1, <1>3
<1>8. CASE len = 0
  BY <1>8, <1>1, <1>2, <1>3, <1>4, <1>7 DEF EndOf, Smaller, n
<1>9. CASE len > 0
  BY <1>9, <1>1, <1>2, <1>3, <1>4, <1>5, <1>6, <1>7 DEF EndOf, Smaller, n
<1> QED BY <1>8, <1>9

\* A payload is a sequence of as many bytes as the message is long.
LEMMA PayloadIs ==
  ASSUME NEW m \in Nat, NEW len \in Nat
  PROVE  /\ Payload(m, len) \in Payloads
         /\ Len(Payload(m, len)) = len
         /\ \A i \in 1..len : Payload(m, len)[i] = <<m, i>>
BY DEF Payload, Payloads

\* The body of the i-th fragment is that part of the payload.
LEMMA BodyIs ==
  ASSUME NEW m \in Nat, NEW len \in Nat, NEW i \in 0..FragmentsFor(len) - 1
  PROVE  LET b == Fragment(m, len, i).body IN
         /\ b = SubSeq(Payload(m, len), i * Budget + 1, EndOf(len, i))
         /\ b \in Payloads
         /\ Len(b) = EndOf(len, i) - i * Budget /\ Len(b) \in Nat
         /\ Len(b) <= len
         /\ i < FragmentsFor(len) - 1 => Len(b) = Budget
         /\ FragmentsFor(len) = 1 => b = Payload(m, len)
<1> DEFINE b == SubSeq(Payload(m, len), i * Budget + 1, EndOf(len, i))
           p == Payload(m, len)
<1>1. Fragment(m, len, i).body = b
  BY DEF Fragment, EndOf
<1>2. p \in Seq(Nat \X Nat) /\ Len(p) = len
  BY PayloadIs DEF Payloads
<1>3. i * Budget \in Nat /\ EndOf(len, i) \in i * Budget..len
  BY EndOfIs
<1> HIDE DEF p
<1>4. \A j \in i * Budget + 1..EndOf(len, i) : p[j] \in Nat \X Nat
  BY <1>2, <1>3
<1>5. b \in Seq(Nat \X Nat) /\ Len(b) = EndOf(len, i) - i * Budget
  <2>1. i * Budget + 1 \in Int /\ EndOf(len, i) \in Int
    BY <1>3
  <2>2. /\ b \in Seq(Nat \X Nat)
        /\ Len(b) = IF i * Budget + 1 <= EndOf(len, i) THEN EndOf(len, i) - (i * Budget + 1) + 1 ELSE 0
    BY <1>4, <2>1, SubSeqProperties DEF p
  <2> QED BY <2>2, <1>3
<1>6. i < FragmentsFor(len) - 1 => Len(b) = Budget
  BY <1>3, <1>5, EndOfIs, ConstantTypes
<1>7. FragmentsFor(len) = 1 => b = p
  <2>1. ASSUME FragmentsFor(len) = 1 PROVE i = 0 /\ EndOf(len, i) = len
    BY <2>1, EndOfIs
  <2>2. ASSUME FragmentsFor(len) = 1 PROVE b = SubSeq(p, 1, Len(p))
    BY <2>1, <2>2, <1>2, ConstantTypes DEF p
  <2>3. SubSeq(p, 1, Len(p)) = p
    BY <1>2, SubSeqFull
  <2> QED BY <2>2, <2>3
<1>8. Len(b) <= len /\ Len(b) \in Nat
  BY <1>3, <1>5
<1> HIDE DEF b
<1> QED BY <1>1, <1>5, <1>6, <1>7, <1>8 DEF Payloads, b, p

\* The bodies of a message's fragments, one after the other, are its payload.
LEMMA BodiesJoin ==
  ASSUME NEW m \in Nat, NEW len \in Nat, NEW s,
         s = [k \in 1..FragmentsFor(len) |-> Fragment(m, len, k - 1).body]
  PROVE  FlattenSeq(s) = Payload(m, len)
<1> DEFINE n == FragmentsFor(len)
           p == Payload(m, len)
           w == [i \in 1..n |-> SubSeq(p, 1, EndOf(len, i - 1))]
           Step(g, i) == IF i = 1 THEN s[i] ELSE g[i - 1] \o s[i]
           Eq(g) == g = [i \in 1..Len(s) |-> Step(g, i)]
<1>1. n \in Nat \ {0}
  BY FragmentsForIs
<1>2. p \in Seq(Nat \X Nat) /\ Len(p) = len
  BY PayloadIs DEF Payloads
<1>3. Len(s) = n /\ s \in [1..n -> Payloads]
  <2>1. \A k \in 1..n : k - 1 \in 0..FragmentsFor(len) - 1
    BY <1>1
  <2>2. \A k \in 1..n : Fragment(m, len, k - 1).body \in Payloads
    BY <2>1, BodyIs
  <2>3. DOMAIN s = 1..n
    OBVIOUS
  <2> QED BY <1>1, <2>2, <2>3
<1>4. FlattenSeq(s) = (CHOOSE g : Eq(g))[n]
  BY <1>1, <1>3 DEF FlattenSeq
<1>5. \A i \in 1..n : s[i] = SubSeq(p, (i - 1) * Budget + 1, EndOf(len, i - 1))
  <2> SUFFICES ASSUME NEW i \in 1..n
               PROVE  s[i] = SubSeq(p, (i - 1) * Budget + 1, EndOf(len, i - 1))
    OBVIOUS
  <2>1. i - 1 \in 0..FragmentsFor(len) - 1
    BY <1>1
  <2> QED BY <2>1, BodyIs
<1>6. w[1] = s[1]
  <2>1. s[1] = SubSeq(p, (1 - 1) * Budget + 1, EndOf(len, 1 - 1))
    BY <1>1, <1>5
  <2>2. (1 - 1) * Budget + 1 = 1
    BY ConstantTypes
  <2>3. 1 \in 1..n
    BY <1>1
  <2>4. w[1] = SubSeq(p, 1, EndOf(len, 1 - 1))
    BY <2>3
  <2> HIDE DEF w, p
  <2> QED BY <2>1, <2>2, <2>4
<1>7. ASSUME NEW i \in 1..n, i # 1
      PROVE  w[i] = w[i - 1] \o s[i]
  <2>1. i - 1 \in 0..FragmentsFor(len) - 1 /\ i - 2 \in 0..FragmentsFor(len) - 1 /\ i - 1 \in 1..n
        /\ i - 2 < FragmentsFor(len) - 1 /\ i - 1 - 1 = i - 2 /\ i - 2 + 1 = i - 1
    BY <1>1, <1>7
  <2>2. EndOf(len, i - 2) = (i - 1) * Budget
    BY <2>1, EndOfIs
  <2>3. (i - 1) * Budget \in Nat /\ EndOf(len, i - 1) \in (i - 1) * Budget..len
    BY <2>1, EndOfIs
  <2>4. 1 \in 1..Len(p) + 1 /\ (i - 1) * Budget \in 1 - 1..Len(p)
        /\ EndOf(len, i - 1) \in (i - 1) * Budget..Len(p)
    BY <1>2, <2>3
  <2> HIDE DEF p
  <2>5. SubSeq(p, 1, (i - 1) * Budget) \o SubSeq(p, (i - 1) * Budget + 1, EndOf(len, i - 1))
          = SubSeq(p, 1, EndOf(len, i - 1))
    BY <1>2, <2>4, ConcatAdjacentSubSeq
  <2>6. w[i - 1] = SubSeq(p, 1, (i - 1) * Budget)
    BY <2>1, <2>2
  <2> QED BY <2>5, <2>6, <1>5
<1> HIDE DEF w
<1>8. Eq(w)
  <2>1. w = [i \in 1..n |-> w[i]]
    BY DEF w
  <2>2. \A i \in 1..n : w[i] = Step(w, i)
    BY <1>6, <1>7
  <2> HIDE DEF Step
  <2>3. [i \in 1..n |-> w[i]] = [i \in 1..n |-> Step(w, i)]
    BY <2>2
  <2>4. 1..Len(s) = 1..n
    BY <1>3
  <2>5. [i \in 1..Len(s) |-> Step(w, i)] = [i \in 1..n |-> Step(w, i)]
    BY <2>4, Zenon
  <2> QED BY <2>1, <2>3, <2>5
<1>9. ASSUME NEW g, Eq(g)
      PROVE  g[n] = w[n]
  <2> DEFINE T == {i \in 1..n : g[i] # w[i]}
  <2>1. g[1] = w[1] /\ \A i \in 1..n : i # 1 => g[i] = g[i - 1] \o s[i]
    <3>1. \A i \in 1..n : g[i] = Step(g, i)
      <4> HIDE DEF Step
      <4> QED BY <1>9, <1>3
    <3>2. 1 \in 1..n
      BY <1>1
    <3>3. g[1] = Step(g, 1)
      BY <3>1, <3>2
    <3>4. g[1] = s[1]
      BY <3>3, Zenon
    <3>5. \A i \in 1..n : i # 1 => g[i] = g[i - 1] \o s[i]
      BY <3>1, Zenon
    <3> QED BY <3>4, <3>5, <1>6, Zenon
  <2> HIDE DEF Eq
  <2>2. SUFFICES ASSUME T # {} PROVE FALSE
    BY <1>1
  <2>3. T \in SUBSET Nat
    BY <1>1
  <2>4. PICK x \in T : \A y \in T : x <= y
    <3> HIDE DEF T
    <3> QED BY <2>2, <2>3, Least
  <2>5. x \in 1..n /\ x # 1 /\ x - 1 \in 1..n
    BY <2>1, <1>1
  <2>8. x - 1 \notin T
    <3> HIDE DEF T
    <3>1. ~(x <= x - 1)
      BY <2>5
    <3> QED BY <2>4, <3>1
  <2>6. g[x - 1] = w[x - 1]
    BY <2>5, <2>8
  <2>7. g[x] = g[x - 1] \o s[x] /\ w[x] = w[x - 1] \o s[x]
    BY <2>1, <2>5, <1>7
  <2>9. g[x] # w[x]
    OBVIOUS
  <2> HIDE DEF T
  <2> QED BY <2>6, <2>7, <2>9
<1>10. Eq(CHOOSE g : Eq(g))
  <2> HIDE DEF Eq
  <2> QED BY <1>8
<1>11. w[n] = p
  <2>1. n - 1 \in 0..FragmentsFor(len) - 1
    BY <1>1
  <2>2. EndOf(len, n - 1) = Len(p)
    BY <2>1, <1>2, EndOfIs
  <2>3. w[n] = SubSeq(p, 1, Len(p))
    BY <2>2, <1>1 DEF w
  <2> HIDE DEF p
  <2> QED BY <2>3, <1>2, SubSeqFull
<1> HIDE DEF Eq
<1> QED BY <1>4, <1>9, <1>10, <1>11

\* Every fragment a send writes is well formed.
LEMMA FragmentType ==
  ASSUME NEW m \in Nat, NEW len \in Nat, NEW i \in 0..FragmentsFor(len) - 1
  PROVE  /\ Fragment(m, len, i) \in Fragments
         /\ Fragment(m, len, i).of = m /\ Fragment(m, len, i).index = i
         /\ Fragment(m, len, i).total = FragmentsFor(len)
         /\ Fragment(m, len, i).id = MsgId(m)
<1>1. MsgId(m) \in Nat
  BY ConstantTypes DEF MsgId
<1>2. FragmentsFor(len) \in Nat
  BY FragmentsForIs
<1>3. Fragment(m, len, i).body \in Payloads
  BY BodyIs
<1> QED BY <1>1, <1>2, <1>3 DEF Fragment, Fragments

\* A payload belongs to some message as long as that message is known, and to
\* no other unless it is empty.
LEMMA MessageOfIs ==
  ASSUME sent \in Seq(Nat), NEW m \in DOMAIN sent
  PROVE  /\ MessageOf(Payload(m, sent[m])) \in DOMAIN sent
         /\ sent[m] # 0 => MessageOf(Payload(m, sent[m])) = m
<1> DEFINE P == Payload(m, sent[m])
           senders == {n \in DOMAIN sent : P = Payload(n, sent[n])}
<1>1. DOMAIN sent = 1..Len(sent) /\ Len(sent) \in Nat /\ m \in senders
  BY LenProperties
<1>2. \E x \in senders : \A y \in senders : x >= y
  <2> DEFINE T == {Len(sent) - x : x \in senders}
  <2>1. T \in SUBSET Nat /\ T # {}
    BY <1>1
  <2>2. PICK t \in T : \A u \in T : t <= u
    BY <2>1, Least
  <2>3. PICK x \in senders : t = Len(sent) - x
    BY <2>2
  <2>4. \A y \in senders : Len(sent) - y \in T /\ y \in Nat
    BY <1>1
  <2> HIDE DEF senders
  <2>5. ASSUME NEW y \in senders PROVE x >= y
    <3>1. t <= Len(sent) - y
      BY <2>2, <2>4
    <3> QED BY <3>1, <2>3, <2>4, <1>1
  <2> QED BY <2>3, <2>5
<1>3. MessageOf(P) = CHOOSE x \in senders : \A y \in senders : x >= y
  BY <1>1 DEF MessageOf
<1>4. MessageOf(P) \in senders
  <2> HIDE DEF senders
  <2> QED BY <1>2, <1>3
<1>5. ASSUME sent[m] # 0, NEW n \in senders
      PROVE  n = m
  <2>1. n \in Nat /\ m \in Nat /\ sent[n] \in Nat /\ sent[m] \in Nat
    BY <1>1, ElementOfSeq
  <2>2. P[1] = <<m, 1>> /\ Len(P) = sent[m]
    BY <2>1, <1>5, PayloadIs
  <2>3. P = Payload(n, sent[n])
    OBVIOUS
  <2>4. Len(P) = sent[n] /\ (sent[n] # 0 => P[1] = <<n, 1>>)
    BY <2>1, <2>3, PayloadIs
  <2> QED BY <2>2, <2>4, <1>5
<1> QED BY <1>4, <1>5

-----------------------------------------------------------------------------
(* The table of partial messages *)

PartialMessages ==
    UNION {[id : Nat, total : Nat, bodies : [S -> Payloads], len : Nat, age : 0..Timeout]
              : S \in SUBSET Nat}

\* An entry of the type that TypeOK asks for is one of these.
LEMMA PartialMessagesAre ==
  ASSUME NEW p
  PROVE  p \in PartialMessages <=> IsPartialMessage(p)
<1>1. ASSUME IsPartialMessage(p) PROVE p \in PartialMessages
  <2>1. DOMAIN p.bodies \in SUBSET Nat
        /\ p \in [id : Nat, total : Nat, bodies : [DOMAIN p.bodies -> Payloads],
                  len : Nat, age : 0..Timeout]
    BY <1>1 DEF IsPartialMessage
  <2> QED BY <2>1 DEF PartialMessages
<1>2. ASSUME p \in PartialMessages PROVE IsPartialMessage(p)
  <2>1. PICK S \in SUBSET Nat :
            p \in [id : Nat, total : Nat, bodies : [S -> Payloads], len : Nat, age : 0..Timeout]
    BY <1>2 DEF PartialMessages
  <2>2. DOMAIN p.bodies = S
    BY <2>1
  <2> QED BY <2>1, <2>2 DEF IsPartialMessage
<1> QED BY <1>1, <1>2

\* A table the reassembler may have: of proper parts, each of another message,
\* the oldest first.
Sorted(t) ==
    /\ \A j, k \in 1..Len(t) : t[j].id = t[k].id => j = k
    /\ \A j, k \in 1..Len(t) : j < k => t[j].age >= t[k].age

Sound(t) ==
    /\ t \in Seq(PartialMessages) /\ Len(t) <= MaxConcurrent
    /\ \A k \in 1..Len(t) : ProperPart(t[k])
    /\ Sorted(t)

\* What a table keeps of another, in its order, is no worse than that.
LEMMA KeptIsSound ==
  ASSUME NEW t, Sound(t), NEW u \in Seq(PartialMessages), Len(u) <= Len(t),
         NEW e \in [1..Len(u) -> 1..Len(t)],
         \A j, k \in 1..Len(u) : j < k => e[j] < e[k],
         \A k \in 1..Len(u) : u[k] = t[e[k]]
  PROVE  Sound(u) /\ Range(u) \subseteq Range(t)
<1>1. Len(u) \in Nat /\ Len(t) \in Nat /\ DOMAIN u = 1..Len(u) /\ DOMAIN t = 1..Len(t)
  BY LenProperties DEF Sound
<1>2. \A k \in 1..Len(u) : e[k] \in 1..Len(t)
  OBVIOUS
<1>3. \A k \in 1..Len(u) : ProperPart(u[k])
  BY <1>2 DEF Sound
<1>4. ASSUME NEW j \in 1..Len(u), NEW k \in 1..Len(u), u[j].id = u[k].id PROVE j = k
  <2>1. t[e[j]].id = t[e[k]].id
    BY <1>4
  <2>2. e[j] = e[k]
    BY <2>1, <1>2 DEF Sound, Sorted
  <2>3. ~(j < k) /\ ~(k < j)
    BY <2>2, <1>1, <1>2
  <2> QED BY <2>3, <1>1
<1>5. ASSUME NEW j \in 1..Len(u), NEW k \in 1..Len(u), j < k PROVE u[j].age >= u[k].age
  <2>1. e[j] < e[k]
    BY <1>5
  <2>2. t[e[j]].age >= t[e[k]].age
    BY <2>1, <1>2 DEF Sound, Sorted
  <2> QED BY <2>2
<1>6. Len(u) <= MaxConcurrent
  BY <1>1, ConstantTypes DEF Sound
<1>7. Range(u) \subseteq Range(t)
  BY <1>1, <1>2 DEF Range
<1> QED BY <1>3, <1>4, <1>5, <1>6, <1>7 DEF Sound, Sorted

\* The messages of a sorted table that are too old stand in front.
LEMMA TooOldIs ==
  ASSUME NEW t \in Seq(PartialMessages), Sorted(t)
  PROVE  /\ TooOld(t) \in 0..Len(t)
         /\ \A k \in 1..Len(t) : k <= TooOld(t) <=> t[k].age >= Timeout
<1>1. Len(t) \in Nat /\ DOMAIN t = 1..Len(t)
  BY LenProperties
<1>2. \A k \in 1..Len(t) : t[k].age \in Nat
  <2>1. \A k \in 1..Len(t) : t[k] \in PartialMessages
    BY ElementOfSeq
  <2> QED BY <2>1 DEF PartialMessages
<1> DEFINE T == {n \in 0..Len(t) : \A k \in 1..Len(t) : k > n => t[k].age < Timeout}
<1>3. T \in SUBSET Nat /\ Len(t) \in T
  BY <1>1
<1>4. PICK n \in T : \A y \in T : n <= y
  <2> HIDE DEF T
  <2> QED BY <1>3, Least
<1>5. n \in 0..Len(t) /\ \A k \in 1..Len(t) : k > n => t[k].age < Timeout
  OBVIOUS
<1>6. ASSUME NEW k \in 1..Len(t), k <= n, t[k].age < Timeout
      PROVE  FALSE
  <2>1. \A j \in 1..Len(t) : j > k => t[j].age <= t[k].age
    BY DEF Sorted
  <2>2. \A j \in 1..Len(t) : j > k - 1 => t[j].age < Timeout
    <3> SUFFICES ASSUME NEW j \in 1..Len(t), j > k - 1 PROVE t[j].age < Timeout
      OBVIOUS
    <3>1. j = k \/ j > k
      BY <1>1
    <3> QED BY <3>1, <2>1, <1>2, <1>6, ConstantTypes
  <2>3. k - 1 \in T
    BY <2>2, <1>1
  <2>4. n <= k - 1
    BY <2>3, <1>4
  <2> QED BY <2>4, <1>1, <1>5, <1>6
<1>7. \A k \in 1..Len(t) : k <= n <=> t[k].age >= Timeout
  <2> SUFFICES ASSUME NEW k \in 1..Len(t) PROVE k <= n <=> t[k].age >= Timeout
    OBVIOUS
  <2>1. k <= n \/ k > n
    BY <1>1, <1>5
  <2>2. t[k].age \in Nat /\ Timeout \in Nat /\ n \in Nat /\ k \in Nat
    BY <1>1, <1>2, <1>5, ConstantTypes
  <2> QED BY <2>1, <2>2, <1>5, <1>6
<1> HIDE DEF T
<1> QED BY <1>1, <1>5, <1>7 DEF TooOld

\* The timeout takes those, and leaves the others as they were.
LEMMA AliveIs ==
  ASSUME NEW t, Sound(t)
  PROVE  /\ Sound(Alive(t)) /\ Range(Alive(t)) \subseteq Range(t)
         /\ \A p \in Range(t) : p \in Range(Alive(t)) \/ p.age >= Timeout
<1> DEFINE n == TooOld(t)
           u == Alive(t)
<1>1. t \in Seq(PartialMessages) /\ Sorted(t) /\ Len(t) \in Nat /\ DOMAIN t = 1..Len(t)
  BY LenProperties DEF Sound
<1>2. n \in 0..Len(t) /\ \A k \in 1..Len(t) : k <= n <=> t[k].age >= Timeout
  BY <1>1, TooOldIs
<1> HIDE DEF n
<1>3. u = SubSeq(t, n + 1, Len(t))
  BY DEF Alive, n
<1> HIDE DEF u
<1>4. u \in Seq(PartialMessages) /\ Len(u) = Len(t) - n /\ \A j \in 1..Len(t) - n : u[j] = t[n + j]
  BY <1>1, <1>2, <1>3, BehindIs
<1> DEFINE e == [k \in 1..Len(u) |-> n + k]
<1>5. /\ e \in [1..Len(u) -> 1..Len(t)]
      /\ \A j, k \in 1..Len(u) : j < k => e[j] < e[k]
      /\ \A k \in 1..Len(u) : u[k] = t[e[k]]
  BY <1>1, <1>2, <1>4
<1> HIDE DEF e
<1>6. Sound(u) /\ Range(u) \subseteq Range(t)
  <2>1. Len(u) <= Len(t)
    BY <1>1, <1>2, <1>4
  <2> QED BY <1>4, <1>5, <2>1, KeptIsSound
<1>7. ASSUME NEW p \in Range(t), ~(p.age >= Timeout)
      PROVE  p \in Range(u)
  <2>1. PICK k \in 1..Len(t) : t[k] = p
    BY <1>1 DEF Range
  <2>2. ~(k <= n) /\ k - n \in 1..Len(t) - n /\ n + (k - n) = k
    BY <2>1, <1>1, <1>2, <1>7
  <2>3. u[k - n] = p /\ k - n \in DOMAIN u
    BY <2>1, <2>2, <1>4, LenProperties
  <2> QED BY <2>3 DEF Range
<1> QED BY <1>6, <1>7 DEF u

\* A message is at one place of the table.
LEMMA PlaceOfIs ==
  ASSUME NEW t, Sound(t), NEW id, Holds(t, id)
  PROVE  /\ PlaceOf(t, id) \in 1..Len(t) /\ t[PlaceOf(t, id)].id = id
         /\ \A p \in Range(t) : p.id = id => p = t[PlaceOf(t, id)]
<1>1. DOMAIN t = 1..Len(t)
  BY LenProperties DEF Sound
<1>2. PlaceOf(t, id) \in 1..Len(t) /\ t[PlaceOf(t, id)].id = id
  BY <1>1 DEF PlaceOf, Holds
<1>3. ASSUME NEW p \in Range(t), p.id = id
      PROVE  p = t[PlaceOf(t, id)]
  <2>1. PICK k \in 1..Len(t) : t[k] = p
    BY <1>1 DEF Range
  <2>2. k = PlaceOf(t, id)
    BY <2>1, <1>2, <1>3 DEF Sound, Sorted
  <2> QED BY <2>1, <2>2
<1> QED BY <1>2, <1>3

\* Giving a message up leaves the others.
LEMMA WithoutIdIs ==
  ASSUME NEW t, Sound(t), NEW id
  PROVE  /\ Sound(WithoutId(t, id)) /\ Range(WithoutId(t, id)) \subseteq Range(t)
         /\ ~Holds(WithoutId(t, id), id)
         /\ Len(WithoutId(t, id)) <= Len(t)
         /\ Holds(t, id) => Len(WithoutId(t, id)) < Len(t)
<1>1. t \in Seq(PartialMessages) /\ Len(t) \in Nat /\ DOMAIN t = 1..Len(t)
  BY LenProperties DEF Sound
<1>2. CASE ~Holds(t, id)
  BY <1>1, <1>2 DEF WithoutId
<1>3. CASE Holds(t, id)
  <2> DEFINE i == PlaceOf(t, id)
             u == RemoveAt(t, i)
             e == [k \in 1..Len(t) - 1 |-> IF k < i THEN k ELSE k + 1]
  <2>1. i \in 1..Len(t) /\ t[i].id = id
    BY <1>3, PlaceOfIs
  <2> HIDE DEF i
  <2>2. /\ u \in Seq(PartialMessages) /\ Len(u) = Len(t) - 1
        /\ \A j \in 1..Len(t) - 1 : u[j] = IF j < i THEN t[j] ELSE t[j + 1]
    BY <1>1, <2>1, RemoveAtIs
  <2>3. WithoutId(t, id) = u
    BY <1>3 DEF WithoutId, i
  <2> HIDE DEF u
  <2>4. /\ e \in [1..Len(u) -> 1..Len(t)]
        /\ \A j, k \in 1..Len(u) : j < k => e[j] < e[k]
        /\ \A k \in 1..Len(u) : u[k] = t[e[k]] /\ e[k] # i
    BY <1>1, <2>1, <2>2
  <2> HIDE DEF e
  <2>5. Len(u) < Len(t) /\ Len(u) <= Len(t) /\ DOMAIN u = 1..Len(u)
    BY <1>1, <2>1, <2>2, LenProperties
  <2>6. Sound(u) /\ Range(u) \subseteq Range(t)
    BY <2>2, <2>4, <2>5, KeptIsSound
  <2>7. ASSUME NEW k \in 1..Len(u), u[k].id = id PROVE FALSE
    <3>1. t[e[k]].id = t[i].id /\ e[k] \in 1..Len(t)
      BY <2>1, <2>4, <2>7
    <3>2. e[k] = i
      BY <3>1, <2>1 DEF Sound, Sorted
    <3> QED BY <3>2, <2>4
  <2> QED BY <2>3, <2>5, <2>6, <2>7 DEF Holds
<1> QED BY <1>2, <1>3

\* The oldest goes when there is no room.
LEMMA EvictedIs ==
  ASSUME NEW t, Sound(t)
  PROVE  /\ Sound(Evicted(t)) /\ Range(Evicted(t)) \subseteq Range(t)
         /\ Len(Evicted(t)) < MaxConcurrent
<1>1. t \in Seq(PartialMessages) /\ Len(t) \in Nat /\ DOMAIN t = 1..Len(t) /\ Len(t) <= MaxConcurrent
  BY LenProperties DEF Sound
<1>2. CASE Len(t) < MaxConcurrent
  BY <1>1, <1>2 DEF Evicted
<1>3. CASE ~(Len(t) < MaxConcurrent)
  <2> DEFINE u == Tail(t)
             e == [k \in 1..Len(t) - 1 |-> k + 1]
  <2>1. t # <<>>
    BY <1>1, <1>3, EmptySeq, ConstantTypes
  <2>2. u \in Seq(PartialMessages) /\ Len(u) = Len(t) - 1 /\ \A j \in 1..Len(t) - 1 : u[j] = t[j + 1]
    BY <1>1, <2>1, EndsAre
  <2>3. Evicted(t) = u
    BY <1>3 DEF Evicted
  <2> HIDE DEF u
  <2>4. /\ e \in [1..Len(u) -> 1..Len(t)]
        /\ \A j, k \in 1..Len(u) : j < k => e[j] < e[k]
        /\ \A k \in 1..Len(u) : u[k] = t[e[k]]
    BY <1>1, <2>2
  <2> HIDE DEF e
  <2>5. Len(u) <= Len(t) /\ Len(u) < MaxConcurrent
    BY <1>1, <2>2, ConstantTypes
  <2>6. Sound(u) /\ Range(u) \subseteq Range(t)
    BY <2>2, <2>4, <2>5, KeptIsSound
  <2> QED BY <2>3, <2>5, <2>6
<1> QED BY <1>2, <1>3

\* One more proper part, of a message the table does not hold.
LEMMA StartedIsSound ==
  ASSUME NEW t, Sound(t), Len(t) < MaxConcurrent,
         NEW p \in PartialMessages, ProperPart(p), p.age = 0, ~Holds(t, p.id)
  PROVE  Sound(Append(t, p)) /\ Range(Append(t, p)) = Range(t) \cup {p}
<1> DEFINE u == Append(t, p)
<1>1. t \in Seq(PartialMessages) /\ Len(t) \in Nat /\ DOMAIN t = 1..Len(t)
  BY LenProperties DEF Sound
<1>2. u \in Seq(PartialMessages) /\ Len(u) = Len(t) + 1
      /\ \A j \in 1..Len(t) + 1 : u[j] = IF j <= Len(t) THEN t[j] ELSE p
  BY <1>1, EndsAre
<1> HIDE DEF u
<1>3. DOMAIN u = 1..Len(t) + 1
  BY <1>2, LenProperties
<1>4. u[Len(t) + 1] = p /\ \A j \in 1..Len(t) : u[j] = t[j]
  BY <1>1, <1>2
<1>5. \A j \in 1..Len(t) + 1 : j \in 1..Len(t) \/ j = Len(t) + 1
  BY <1>1
<1>6. \A j \in 1..Len(t) : t[j].id # p.id /\ t[j].age \in Nat
  <2>1. \A j \in 1..Len(t) : t[j] \in PartialMessages
    BY <1>1, ElementOfSeq
  <2>2. \A j \in 1..Len(t) : t[j].age \in Nat
    BY <2>1 DEF PartialMessages
  <2> QED BY <2>2, <1>1 DEF Holds
<1>7. \A k \in 1..Len(t) + 1 : ProperPart(u[k])
  BY <1>4, <1>5 DEF Sound
<1>8. ASSUME NEW j \in 1..Len(t) + 1, NEW k \in 1..Len(t) + 1, u[j].id = u[k].id PROVE j = k
  BY <1>4, <1>5, <1>6, <1>8 DEF Sound, Sorted
<1>9. ASSUME NEW j \in 1..Len(t) + 1, NEW k \in 1..Len(t) + 1, j < k PROVE u[j].age >= u[k].age
  <2>1. j \in 1..Len(t)
    BY <1>1, <1>9
  <2> QED BY <2>1, <1>4, <1>5, <1>6, <1>9 DEF Sound, Sorted
<1>10. Range(u) = Range(t) \cup {p}
  <2>1. \A x : x \in Range(u) <=> \E k \in 1..Len(t) + 1 : u[k] = x
    BY <1>3 DEF Range
  <2>2. \A x : x \in Range(t) <=> \E k \in 1..Len(t) : t[k] = x
    BY <1>1 DEF Range
  <2>3. Len(t) + 1 \in 1..Len(t) + 1 /\ \A k \in 1..Len(t) : k \in 1..Len(t) + 1
    BY <1>1
  <2> QED BY <2>1, <2>2, <2>3, <1>4, <1>5
<1>11. Len(u) <= MaxConcurrent
  BY <1>1, <1>2, ConstantTypes
<1>12. Sorted(u)
  BY <1>2, <1>8, <1>9 DEF Sorted
<1> QED BY <1>2, <1>7, <1>10, <1>11, <1>12 DEF Sound, u

\* A part that grows in its place.
LEMMA StoredIsSound ==
  ASSUME NEW t, Sound(t), NEW i \in 1..Len(t),
         NEW p \in PartialMessages, ProperPart(p), p.age = t[i].age, p.id = t[i].id
  PROVE  /\ Sound([t EXCEPT ![i] = p])
         /\ \A x \in Range([t EXCEPT ![i] = p]) : x = p \/ (x \in Range(t) /\ x.id # p.id)
         /\ p \in Range([t EXCEPT ![i] = p])
<1> DEFINE u == [t EXCEPT ![i] = p]
<1>1. t \in Seq(PartialMessages) /\ Len(t) \in Nat /\ DOMAIN t = 1..Len(t)
  BY LenProperties DEF Sound
<1>2. u \in Seq(PartialMessages) /\ Len(u) = Len(t)
      /\ \A j \in 1..Len(t) : u[j] = IF j = i THEN p ELSE t[j]
  BY <1>1, ExceptSeq
<1> HIDE DEF u
<1>3. DOMAIN u = 1..Len(t)
  BY <1>2, LenProperties
<1>4. \A j \in 1..Len(t) : u[j].id = t[j].id /\ u[j].age = t[j].age
  BY <1>2
<1>5. Sorted(u)
  BY <1>2, <1>4 DEF Sound, Sorted
<1>6. \A j \in 1..Len(t) : ProperPart(u[j])
  BY <1>2 DEF Sound
<1>7. ASSUME NEW x \in Range(u), x # p PROVE x \in Range(t) /\ x.id # p.id
  <2>1. PICK j \in 1..Len(t) : u[j] = x
    BY <1>3 DEF Range
  <2>2. j # i /\ t[j] = x
    BY <2>1, <1>2, <1>7
  <2>3. t[j].id # t[i].id
    BY <2>2 DEF Sound, Sorted
  <2> QED BY <2>2, <2>3, <1>1 DEF Range
<1>8. p \in Range(u)
  BY <1>2, <1>3 DEF Range
<1>9. Sound(u)
  <2>1. Len(u) <= MaxConcurrent
    BY <1>2 DEF Sound
  <2> QED BY <2>1, <1>2, <1>5, <1>6 DEF Sound
<1>10. \A x \in Range(u) : x = p \/ (x \in Range(t) /\ x.id # p.id)
  BY <1>7
<1>11. u = [t EXCEPT ![i] = p]
  BY DEF u
<1> QED BY <1>8, <1>9, <1>10, <1>11

-----------------------------------------------------------------------------
(* Reassembler::accept, for the fragments of messages that were sent *)

\* A set of indices below n has n members only if it has them all.
LEMMA AllOfThem ==
  ASSUME NEW n \in Nat \ {0}, NEW S \in SUBSET (0..n - 1)
  PROVE  Cardinality(S) = n <=> S = 0..n - 1
<1>1. IsFiniteSet(0..n - 1) /\ Cardinality(0..n - 1) = n
  <2>1. 0 \in Int /\ n - 1 \in Int /\ ~(0 > n - 1) /\ n - 1 - 0 + 1 = n
    OBVIOUS
  <2>2. IsFiniteSet(0..n - 1)
        /\ Cardinality(0..n - 1) = IF 0 > n - 1 THEN 0 ELSE n - 1 - 0 + 1
    BY <2>1, FS_Interval
  <2> QED BY <2>1, <2>2
<1>2. Cardinality(0..n - 1) = Cardinality(S) => 0..n - 1 = S
  BY <1>1, FS_Subset
<1> QED BY <1>1, <1>2

\* What the step of a fragment may rely on.
Heard(t, f) ==
    /\ sent \in Seq(Nat) /\ Len(sent) <= MaxMessages
    /\ Range(order) \subseteq DOMAIN sent
    /\ Sound(t) /\ Genuine(f) /\ f.of \in Range(order)

\* A fragment and the message it is of.
LEMMA GenuineIs ==
  ASSUME MaxMessages <= IdSpace, sent \in Seq(Nat), Len(sent) <= MaxMessages,
         NEW f, Genuine(f)
  PROVE  LET m == f.of
             n == FragmentsFor(sent[m])
         IN /\ m \in DOMAIN sent /\ m \in Nat \ {0} /\ sent[m] \in Nat
            /\ n \in Nat \ {0} /\ f.index \in 0..n - 1
            /\ f = Fragment(m, sent[m], f.index)
            /\ f.total = n /\ f.id = m - 1 /\ f.body = Fragment(m, sent[m], f.index).body
            /\ f.body \in Payloads /\ Len(f.body) \in Nat /\ Len(f.body) <= sent[m]
            /\ f \in Fragments /\ f.id \in Nat
<1> DEFINE m == f.of
<1>1. DOMAIN sent = 1..Len(sent) /\ Len(sent) \in Nat
  BY LenProperties
<1>2. m \in DOMAIN sent /\ f.index \in 0..FragmentsFor(sent[m]) - 1
      /\ f = Fragment(m, sent[m], f.index)
  BY DEF Genuine
<1>3. m \in Nat \ {0} /\ sent[m] \in Nat /\ m \in 1..MaxMessages
  BY <1>1, <1>2, ElementOfSeq, ConstantTypes
<1>4. FragmentsFor(sent[m]) \in Nat \ {0}
  BY <1>3, FragmentsForIs
<1>5. MsgId(m) = m - 1 /\ m - 1 \in Nat
  BY <1>3, MsgIdIs
<1> HIDE DEF m
<1>6. LET g == Fragment(m, sent[m], f.index) IN
      /\ g \in Fragments /\ g.total = FragmentsFor(sent[m]) /\ g.id = MsgId(m)
      /\ g.body \in Payloads /\ Len(g.body) \in Nat /\ Len(g.body) <= sent[m]
  BY <1>2, <1>3, BodyIs, FragmentType
<1> QED BY <1>2, <1>3, <1>4, <1>5, <1>6 DEF m

\* A new entry is a proper part of its message, if that has more than one.
LEMMA FreshIs ==
  ASSUME MaxMessages <= IdSpace, NEW t, NEW f, Heard(t, f), f.total # 1
  PROVE  /\ Fresh(f) \in PartialMessages /\ ProperPart(Fresh(f))
         /\ Fresh(f).age = 0 /\ Fresh(f).id = f.id
<1> DEFINE m == f.of
           n == FragmentsFor(sent[m])
           p == Fresh(f)
           b == [i \in {f.index} |-> f.body]
<1>1. /\ m \in Range(order) /\ m \in Nat \ {0} /\ sent[m] \in Nat
      /\ n \in Nat \ {0} /\ f.index \in 0..n - 1 /\ f.total = n /\ f.id = m - 1
      /\ f.body = Fragment(m, sent[m], f.index).body
      /\ f.body \in Payloads /\ Len(f.body) \in Nat /\ f.id \in Nat
  BY GenuineIs DEF Heard
<1> HIDE DEF m, n
<1>2. p = [id |-> f.id, total |-> f.total, bodies |-> b, len |-> Len(f.body), age |-> 0]
  BY DEF Fresh
<1>3. p.id = f.id /\ p.total = f.total /\ p.bodies = b /\ p.age = 0
  BY <1>2
<1>4. b \in [{f.index} -> Payloads] /\ {f.index} \in SUBSET Nat
  BY <1>1
<1>5. p \in [id : Nat, total : Nat, bodies : [{f.index} -> Payloads], len : Nat, age : 0..Timeout]
  <2>1. f.total \in Nat /\ 0 \in 0..Timeout
    BY <1>1, ConstantTypes
  <2> HIDE DEF b, p
  <2> QED BY <2>1, <1>1, <1>2, <1>4
<1>6. p \in PartialMessages
  BY <1>4, <1>5 DEF PartialMessages
<1>7. Source(p) = m
  BY <1>1, <1>3 DEF Source
<1>8. DOMAIN b = {f.index} /\ b[f.index] = f.body
  OBVIOUS
<1>9. {f.index} \subseteq 0..n - 1 /\ {f.index} # 0..n - 1 /\ n > 1
  <2>1. n > 1
    BY <1>1
  <2>2. 0 \in 0..n - 1 /\ 1 \in 0..n - 1
    BY <1>1, <2>1
  <2> QED BY <1>1, <2>1, <2>2
<1> HIDE DEF b, p
<1>10. ProperPart(p)
  BY <1>1, <1>3, <1>7, <1>8, <1>9 DEF ProperPart, n
<1> QED BY <1>3, <1>6, <1>10 DEF p

\* The entry that a fragment has joined.
Grown(p, f) == [p EXCEPT !.bodies = With(@, f), !.len = @ + Len(f.body)]

\* A fragment that joins an entry of its message: the entry is still a proper
\* part, or has become the message.
LEMMA JoinedIs ==
  ASSUME MaxMessages <= IdSpace, NEW t, NEW f, Heard(t, f), f.total # 1,
         NEW p \in PartialMessages, ProperPart(p), p.id = f.id, f.index \notin DOMAIN p.bodies
  PROVE  LET q == Grown(p, f) IN
         /\ q \in PartialMessages /\ q.age = p.age /\ q.id = p.id
         /\ q.len = p.len + Len(f.body)
         /\ DOMAIN q.bodies = DOMAIN p.bodies \cup {f.index}
         /\ Cardinality(DOMAIN q.bodies) = f.total <=> DOMAIN q.bodies = 0..f.total - 1
         /\ DOMAIN q.bodies # 0..f.total - 1 => ProperPart(q)
         /\ DOMAIN q.bodies = 0..f.total - 1 =>
              FlattenSeq([k \in 1..f.total |-> q.bodies[k - 1]]) = Payload(f.of, sent[f.of])
<1> DEFINE m == f.of
           n == FragmentsFor(sent[m])
           b == With(p.bodies, f)
           q == Grown(p, f)
<1>1. /\ m \in Range(order) /\ m \in Nat \ {0} /\ sent[m] \in Nat
      /\ n \in Nat \ {0} /\ f.index \in 0..n - 1 /\ f.total = n /\ f.id = m - 1
      /\ f.body = Fragment(m, sent[m], f.index).body
      /\ f.body \in Payloads /\ Len(f.body) \in Nat /\ f.id \in Nat
  BY GenuineIs DEF Heard
<1> HIDE DEF m, n
<1>2. PICK S \in SUBSET Nat :
        p \in [id : Nat, total : Nat, bodies : [S -> Payloads], len : Nat, age : 0..Timeout]
  BY DEF PartialMessages
<1>3. /\ DOMAIN p.bodies = S /\ p.bodies \in [S -> Payloads] /\ p.len \in Nat
      /\ p.id \in Nat /\ p.age \in 0..Timeout /\ p.total \in Nat
  BY <1>2
<1>4. Source(p) = m
  BY <1>1, <1>3 DEF Source
<1>5. /\ p.total = n /\ n > 1 /\ S \subseteq 0..n - 1
      /\ \A i \in S : p.bodies[i] = Fragment(m, sent[m], i).body
  BY <1>3, <1>4 DEF ProperPart, n
<1>6. b = [i \in S \cup {f.index} |-> IF i = f.index THEN f.body ELSE p.bodies[i]]
  BY <1>3 DEF With
<1> HIDE DEF b
<1>7. /\ DOMAIN b = S \cup {f.index} /\ b \in [S \cup {f.index} -> Payloads]
      /\ \A i \in DOMAIN b : b[i] = Fragment(m, sent[m], i).body
      /\ DOMAIN b \subseteq 0..n - 1 /\ S \cup {f.index} \in SUBSET Nat
  <2>1. DOMAIN b = S \cup {f.index} /\ S \cup {f.index} \subseteq 0..n - 1
    BY <1>1, <1>5, <1>6
  <2>2. ASSUME NEW i \in S \cup {f.index}
        PROVE  b[i] = Fragment(m, sent[m], i).body /\ b[i] \in Payloads
    <3>1. CASE i = f.index
      BY <3>1, <1>1, <1>6
    <3>2. CASE i # f.index
      <4>1. i \in S /\ b[i] = p.bodies[i]
        BY <3>2, <1>6
      <4> QED BY <4>1, <1>3, <1>5
    <3> QED BY <3>1, <3>2
  <2>3. b \in [S \cup {f.index} -> Payloads]
    BY <2>2, <1>6
  <2> QED BY <2>1, <2>2, <2>3, <1>1
<1>8. q = [id |-> p.id, total |-> p.total, bodies |-> b, len |-> p.len + Len(f.body), age |-> p.age]
  <2>1. q = [p EXCEPT !.bodies = b, !.len = p.len + Len(f.body)]
    BY <1>2 DEF b, Grown
  <2> HIDE DEF q
  <2> QED BY <2>1, <1>2
<1> HIDE DEF q
<1>9. q.id = p.id /\ q.total = n /\ q.bodies = b /\ q.len = p.len + Len(f.body) /\ q.age = p.age
  BY <1>5, <1>8
<1>10. q \in PartialMessages
  <2>1. q \in [id : Nat, total : Nat, bodies : [S \cup {f.index} -> Payloads], len : Nat,
               age : 0..Timeout]
    BY <1>1, <1>3, <1>7, <1>8
  <2> QED BY <2>1, <1>7 DEF PartialMessages
<1>11. Cardinality(DOMAIN b) = n <=> DOMAIN b = 0..n - 1
  BY <1>1, <1>7, AllOfThem
<1>12. Source(q) = m
  BY <1>4, <1>9 DEF Source
<1>13. DOMAIN b # 0..n - 1 => ProperPart(q)
  BY <1>1, <1>5, <1>7, <1>9, <1>12 DEF ProperPart, n
<1>14. ASSUME DOMAIN b = 0..n - 1
       PROVE  FlattenSeq([k \in 1..n |-> b[k - 1]]) = Payload(m, sent[m])
  <2>1. \A k \in 1..n : k - 1 \in 0..n - 1
    BY <1>1
  <2>2. [k \in 1..n |-> b[k - 1]] = [k \in 1..n |-> Fragment(m, sent[m], k - 1).body]
    BY <2>1, <1>7, <1>14
  <2> QED BY <2>2, <1>1, BodiesJoin DEF n
<1>15. Cardinality(DOMAIN q.bodies) = f.total <=> DOMAIN q.bodies = 0..f.total - 1
  BY <1>1, <1>9, <1>11
<1>16. DOMAIN q.bodies # 0..f.total - 1 => ProperPart(q)
  BY <1>1, <1>9, <1>13
<1>17. DOMAIN q.bodies = 0..f.total - 1 =>
         FlattenSeq([k \in 1..f.total |-> q.bodies[k - 1]]) = Payload(m, sent[m])
  <2>1. [k \in 1..f.total |-> q.bodies[k - 1]] = [k \in 1..n |-> b[k - 1]]
    BY <1>1, <1>9
  <2> QED BY <2>1, <1>1, <1>9, <1>14
<1>18. DOMAIN q.bodies = DOMAIN p.bodies \cup {f.index}
  BY <1>3, <1>7, <1>9
<1> QED BY <1>9, <1>10, <1>15, <1>16, <1>17, <1>18 DEF q, m

\* A result of the step: a sound table with nothing new but what it has of the
\* fragment's message, and if a message came out it is that one.
Sane(t, f, r) ==
    /\ Sound(r.table)
    /\ r.done = <<>> \/ r.done = << Payload(f.of, sent[f.of]) >>
    /\ \A p \in Range(r.table) : p.id = f.id \/ p \in Range(t)

\* The outcomes of joining a fragment to the entry p,
JoinedTo(t, p, f, others, grown, r) ==
    /\ f.index \in DOMAIN p.bodies =>
          /\ p.bodies[f.index] = f.body => r = [table |-> t, done |-> <<>>]
          /\ p.bodies[f.index] # f.body => r = [table |-> Append(others, Fresh(f)), done |-> <<>>]
    /\ f.index \notin DOMAIN p.bodies =>
          /\ p.len + Len(f.body) > MaxMessageLen => r = [table |-> others, done |-> <<>>]
          /\ ~(p.len + Len(f.body) > MaxMessageLen) =>
               /\ Cardinality(DOMAIN grown.bodies) # f.total =>
                    r = [table |-> [t EXCEPT ![PlaceOf(t, f.id)] = grown], done |-> <<>>]
               /\ Cardinality(DOMAIN grown.bodies) = f.total =>
                    r = [table |-> others,
                         done |-> << FlattenSeq([k \in 1..f.total |-> grown.bodies[k - 1]]) >>]

\* Joined has these outcomes and no other.
LEMMA JoinedCases ==
  ASSUME NEW t, NEW p, NEW f
  PROVE  JoinedTo(t, p, f, WithoutId(t, f.id), Grown(p, f), Joined(t, p, f))
<1> DEFINE others == WithoutId(t, f.id)
           grown == Grown(p, f)
           stored == [t EXCEPT ![PlaceOf(t, f.id)] = grown]
           joined == FlattenSeq([k \in 1..f.total |-> grown.bodies[k - 1]])
           r == Joined(t, p, f)
<1>1. r = IF f.index \in DOMAIN p.bodies
          THEN IF p.bodies[f.index] = f.body THEN [table |-> t, done |-> <<>>]
               ELSE [table |-> Append(others, Fresh(f)), done |-> <<>>]
          ELSE IF p.len + Len(f.body) > MaxMessageLen THEN [table |-> others, done |-> <<>>]
          ELSE IF Cardinality(DOMAIN grown.bodies) # f.total
          THEN [table |-> stored, done |-> <<>>]
          ELSE [table |-> others, done |-> << joined >>]
  BY Zenon DEF Joined, Grown
<1>2. ASSUME NEW st, st = stored, NEW j, j = joined
      PROVE  /\ f.index \in DOMAIN p.bodies =>
                /\ p.bodies[f.index] = f.body => r = [table |-> t, done |-> <<>>]
                /\ p.bodies[f.index] # f.body =>
                     r = [table |-> Append(others, Fresh(f)), done |-> <<>>]
             /\ f.index \notin DOMAIN p.bodies =>
                /\ p.len + Len(f.body) > MaxMessageLen => r = [table |-> others, done |-> <<>>]
                /\ ~(p.len + Len(f.body) > MaxMessageLen) =>
                   /\ Cardinality(DOMAIN grown.bodies) # f.total => r = [table |-> st, done |-> <<>>]
                   /\ Cardinality(DOMAIN grown.bodies) = f.total =>
                        r = [table |-> others, done |-> << j >>]
  <2> HIDE DEF r, grown, stored, others, joined
  <2> QED BY <1>1, <1>2, Zenon
<1> HIDE DEF r, grown, others
<1>3. JoinedTo(t, p, f, others, grown, r)
  BY <1>2, Zenon DEF JoinedTo
<1> QED BY <1>3 DEF r, grown, others

\* and of accepting one.
AcceptedTo(t, f, a, r) ==
    /\ Malformed(f) => r = [table |-> t, done |-> <<>>]
    /\ ~Malformed(f) =>
       /\ f.total = 1 => r = [table |-> WithoutId(a, f.id), done |-> <<f.body>>]
       /\ f.total # 1 /\ ~Holds(a, f.id) =>
            /\ DeclaredMin(f) > MaxMessageLen => r = [table |-> a, done |-> <<>>]
            /\ ~(DeclaredMin(f) > MaxMessageLen) =>
                 r = [table |-> Append(Evicted(a), Fresh(f)), done |-> <<>>]
       /\ f.total # 1 /\ Holds(a, f.id) =>
            /\ a[PlaceOf(a, f.id)].total # f.total =>
                 r = [table |-> WithoutId(a, f.id), done |-> <<>>]
            /\ a[PlaceOf(a, f.id)].total = f.total => r = Joined(a, a[PlaceOf(a, f.id)], f)

\* Accepted has these outcomes and no other.
LEMMA AcceptedCases ==
  ASSUME NEW t, NEW f
  PROVE  AcceptedTo(t, f, Alive(t), Accepted(t, f))
<1> DEFINE a == Alive(t)
           held == a[PlaceOf(a, f.id)]
           r == Accepted(t, f)
<1>1. r = IF Malformed(f) THEN [table |-> t, done |-> <<>>]
          ELSE IF f.total = 1 THEN [table |-> WithoutId(a, f.id), done |-> <<f.body>>]
          ELSE IF ~Holds(a, f.id)
          THEN [table |-> IF DeclaredMin(f) > MaxMessageLen THEN a
                          ELSE Append(Evicted(a), Fresh(f)),
                done |-> <<>>]
          ELSE IF held.total # f.total THEN [table |-> WithoutId(a, f.id), done |-> <<>>]
          ELSE Joined(a, held, f)
  BY Zenon DEF Accepted
<1> HIDE DEF r, a
<1>2. AcceptedTo(t, f, a, r)
  BY <1>1, Zenon DEF AcceptedTo
<1> QED BY <1>2 DEF r, a

\* Joining a fragment to its message is sane.
LEMMA JoinedIsSane ==
  ASSUME MaxMessages <= IdSpace, NEW t, NEW f, Heard(t, f), f.total # 1, Holds(t, f.id)
  PROVE  Sane(t, f, Joined(t, t[PlaceOf(t, f.id)], f))
<1> DEFINE i == PlaceOf(t, f.id)
           p == t[i]
           others == WithoutId(t, f.id)
           joined == Grown(p, f)
           stored == [t EXCEPT ![i] = joined]
           r == Joined(t, p, f)
<1>5. JoinedTo(t, p, f, others, joined, r)
  BY JoinedCases
<1> SUFFICES Sane(t, f, r)
  OBVIOUS
<1>1. Sound(t) /\ t \in Seq(PartialMessages)
  BY DEF Heard, Sound
<1>2. i \in 1..Len(t) /\ p.id = f.id
  BY <1>1, PlaceOfIs
<1> HIDE DEF i
<1>3. p \in PartialMessages /\ ProperPart(p)
  BY <1>1, <1>2, ElementOfSeq DEF Sound
<1> HIDE DEF p
<1>4. /\ Sound(others) /\ Range(others) \subseteq Range(t)
      /\ ~Holds(others, f.id) /\ Len(others) < Len(t)
  BY <1>1, WithoutIdIs
<1> HIDE DEF others
<1> HIDE DEF r
<1>6. CASE f.index \in DOMAIN p.bodies /\ p.bodies[f.index] = f.body
  <2>1. r.table = t /\ r.done = <<>>
    BY <1>5, <1>6 DEF JoinedTo
  <2> QED BY <2>1, <1>1 DEF Sane
<1>7. CASE f.index \in DOMAIN p.bodies /\ p.bodies[f.index] # f.body
  <2> DEFINE u == Append(others, Fresh(f))
  <2>1. r.table = u /\ r.done = <<>>
    BY <1>5, <1>7 DEF JoinedTo
  <2>2. Fresh(f) \in PartialMessages /\ ProperPart(Fresh(f))
        /\ Fresh(f).age = 0 /\ Fresh(f).id = f.id
    BY FreshIs
  <2>3. Len(others) < MaxConcurrent
    BY <1>1, <1>4, LenProperties, ConstantTypes DEF Sound
  <2>4. Sound(u) /\ Range(u) = Range(others) \cup {Fresh(f)}
    BY <1>4, <2>2, <2>3, StartedIsSound
  <2> HIDE DEF u
  <2> QED BY <2>1, <2>2, <2>4, <1>4 DEF Sane
<1>8. CASE f.index \notin DOMAIN p.bodies
  <2>1. /\ joined \in PartialMessages /\ joined.age = p.age /\ joined.id = p.id
        /\ Cardinality(DOMAIN joined.bodies) = f.total <=> DOMAIN joined.bodies = 0..f.total - 1
        /\ DOMAIN joined.bodies # 0..f.total - 1 => ProperPart(joined)
        /\ DOMAIN joined.bodies = 0..f.total - 1 =>
             FlattenSeq([k \in 1..f.total |-> joined.bodies[k - 1]]) = Payload(f.of, sent[f.of])
    BY <1>2, <1>3, <1>8, JoinedIs
  <2> HIDE DEF joined
  <2>2. CASE p.len + Len(f.body) > MaxMessageLen
    <3>1. r.table = others /\ r.done = <<>>
      BY <1>5, <1>8, <2>2 DEF JoinedTo
    <3> QED BY <3>1, <1>4 DEF Sane
  <2>3. CASE ~(p.len + Len(f.body) > MaxMessageLen) /\ Cardinality(DOMAIN joined.bodies) # f.total
    <3>1. r.table = stored /\ r.done = <<>>
      BY <1>5, <1>8, <2>3 DEF JoinedTo, i
    <3>2. Sound(stored) /\ \A x \in Range(stored) : x = joined \/ x \in Range(t)
      BY <1>1, <1>2, <2>1, <2>3, StoredIsSound DEF p
    <3> HIDE DEF stored
    <3> QED BY <3>1, <3>2, <2>1, <1>2 DEF Sane
  <2>4. CASE ~(p.len + Len(f.body) > MaxMessageLen) /\ Cardinality(DOMAIN joined.bodies) = f.total
    <3> DEFINE bodies == FlattenSeq([k \in 1..f.total |-> joined.bodies[k - 1]])
    <3>1. r.table = others /\ r.done = << bodies >>
      BY <1>5, <1>8, <2>4 DEF JoinedTo
    <3>2. bodies = Payload(f.of, sent[f.of])
      BY <2>1, <2>4
    <3> HIDE DEF bodies
    <3> QED BY <3>1, <3>2, <1>4 DEF Sane
  <2> QED BY <2>2, <2>3, <2>4
<1> QED BY <1>6, <1>7, <1>8 DEF r, p, i

\* So is accept.
LEMMA AcceptedIsSane ==
  ASSUME MaxMessages <= IdSpace, NEW t, NEW f, Heard(t, f)
  PROVE  Sane(t, f, Accepted(t, f))
<1> DEFINE a == Alive(t)
           held == a[PlaceOf(a, f.id)]
           r == Accepted(t, f)
           started == IF DeclaredMin(f) > MaxMessageLen THEN a ELSE Append(Evicted(a), Fresh(f))
<1> SUFFICES Sane(t, f, r)
  OBVIOUS
<1>1. Sound(a) /\ Range(a) \subseteq Range(t) /\ Sound(t)
  BY AliveIs DEF Heard
<1> HIDE DEF a
<1>2. Heard(a, f)
  BY <1>1 DEF Heard
<1>3. Sound(WithoutId(a, f.id)) /\ Range(WithoutId(a, f.id)) \subseteq Range(a)
  BY <1>1, WithoutIdIs
<1>4. AcceptedTo(t, f, a, r)
  BY AcceptedCases DEF a
<1> HIDE DEF r
<1>5. CASE Malformed(f)
  <2>1. r.table = t /\ r.done = <<>>
    BY <1>4, <1>5 DEF AcceptedTo
  <2> QED BY <2>1, <1>1 DEF Sane
<1>6. CASE ~Malformed(f) /\ f.total = 1
  <2>1. r.table = WithoutId(a, f.id) /\ r.done = <<f.body>>
    BY <1>4, <1>6 DEF AcceptedTo
  <2>2. f.body = Payload(f.of, sent[f.of])
    <3>1. LET m == f.of IN
          /\ m \in Nat /\ sent[m] \in Nat /\ f.index \in 0..FragmentsFor(sent[m]) - 1
          /\ FragmentsFor(sent[m]) = 1 /\ f.body = Fragment(m, sent[m], f.index).body
      BY <1>2, <1>6, GenuineIs DEF Heard
    <3> QED BY <3>1, BodyIs
  <2> QED BY <2>1, <2>2, <1>1, <1>3 DEF Sane
<1>7. CASE ~Malformed(f) /\ f.total # 1 /\ ~Holds(a, f.id)
  <2>1. r.table = started /\ r.done = <<>>
    <3>1. CASE DeclaredMin(f) > MaxMessageLen
      <4>1. r = [table |-> a, done |-> <<>>]
        BY <3>1, <1>4, <1>7 DEF AcceptedTo
      <4> QED BY <3>1, <4>1
    <3>2. CASE ~(DeclaredMin(f) > MaxMessageLen)
      <4>1. r = [table |-> Append(Evicted(a), Fresh(f)), done |-> <<>>]
        BY <3>2, <1>4, <1>7 DEF AcceptedTo
      <4> QED BY <3>2, <4>1
    <3> QED BY <3>1, <3>2
  <2>2. /\ Sound(Evicted(a)) /\ Range(Evicted(a)) \subseteq Range(a)
        /\ Len(Evicted(a)) < MaxConcurrent
    BY <1>1, EvictedIs
  <2>3. Fresh(f) \in PartialMessages /\ ProperPart(Fresh(f))
        /\ Fresh(f).age = 0 /\ Fresh(f).id = f.id
    BY <1>2, <1>7, FreshIs
  <2>4. ~Holds(Evicted(a), f.id)
    <3>1. DOMAIN a = 1..Len(a) /\ DOMAIN Evicted(a) = 1..Len(Evicted(a))
      BY <1>1, <2>2, LenProperties DEF Sound
    <3>2. \A p \in Range(a) : p.id # f.id
      BY <1>7 DEF Holds, Range
    <3> QED BY <3>2, <2>2 DEF Holds, Range
  <2>5. /\ Sound(Append(Evicted(a), Fresh(f)))
        /\ Range(Append(Evicted(a), Fresh(f))) = Range(Evicted(a)) \cup {Fresh(f)}
    BY <2>2, <2>3, <2>4, StartedIsSound
  <2>6. Sound(started) /\ \A p \in Range(started) : p.id = f.id \/ p \in Range(a)
    BY <2>2, <2>3, <2>5, <1>1
  <2> HIDE DEF started
  <2> QED BY <2>1, <2>6, <1>1 DEF Sane
<1>8. CASE ~Malformed(f) /\ f.total # 1 /\ Holds(a, f.id) /\ held.total # f.total
  <2>1. r.table = WithoutId(a, f.id) /\ r.done = <<>>
    BY <1>4, <1>8 DEF AcceptedTo
  <2> QED BY <2>1, <1>1, <1>3 DEF Sane
<1>9. CASE ~Malformed(f) /\ f.total # 1 /\ Holds(a, f.id) /\ held.total = f.total
  <2>1. r = Joined(a, held, f)
    BY <1>4, <1>9 DEF AcceptedTo
  <2>2. Sane(a, f, r)
    BY <2>1, <1>2, <1>9, JoinedIsSane
  <2> QED BY <2>2, <1>1 DEF Sane
<1> QED BY <1>5, <1>6, <1>7, <1>8, <1>9

-----------------------------------------------------------------------------
(* The sending side *)

SendTypes ==
    /\ sent \in Seq(Nat) /\ unsent \in [Handles -> Seq(Fragments)]
    /\ lock \in Handles \cup {NoHandle}
    /\ order \in Seq(Nat) /\ whole \subseteq Nat

SendInv == SendTypes /\ SendsAreApart /\ TurnsAreOnce

\* What is known of a message stays so when others are sent and take turns.
Keeps ==
    /\ sent' \in Seq(Nat) /\ order' \in Seq(Nat)
    /\ DOMAIN sent \subseteq DOMAIN sent' /\ \A m \in DOMAIN sent : sent'[m] = sent[m]
    /\ Range(order) \subseteq Range(order') /\ Range(order') \subseteq DOMAIN sent'
    /\ Range(order) \subseteq DOMAIN sent

\* A fragment of a message stays one.
LEMMA GenuineStays ==
  ASSUME Keeps, NEW f, Genuine(f)
  PROVE  Genuine(f)'
BY DEF Keeps, Genuine

\* A proper part of a message stays one.
LEMMA ProperStays ==
  ASSUME Keeps, NEW p, ProperPart(p)
  PROVE  ProperPart(p)'
<1>1. Source(p) \in Range(order) /\ Source(p) \in DOMAIN sent /\ sent'[Source(p)] = sent[Source(p)]
      /\ Source(p) \in Range(order')
  BY DEF Keeps, ProperPart
<1> QED BY <1>1 DEF ProperPart

\* A send that waits for the sink, or holds it, has a message of its own.
LEMMA UnsentIs ==
  ASSUME SendInv, NEW h \in Handles, unsent[h] # <<>>
  PROVE  LET s == unsent[h]
             m == s[1].of
         IN /\ s \in Seq(Fragments) /\ Len(s) \in Nat /\ Len(s) > 0 /\ DOMAIN s = 1..Len(s)
            /\ Head(s) = s[1]
            /\ m \in DOMAIN sent /\ m \in Nat /\ sent[m] \in Nat
            /\ \A k \in 1..Len(s) :
                  /\ Genuine(s[k]) /\ s[k].of = m
                  /\ s[k].index = FragmentsFor(sent[m]) - Len(s) + k - 1
<1>1. unsent[h] \in Seq(Fragments)
  BY DEF SendInv, SendTypes
<1>2. /\ Len(unsent[h]) \in Nat /\ Len(unsent[h]) > 0 /\ DOMAIN unsent[h] = 1..Len(unsent[h])
      /\ Head(unsent[h]) = unsent[h][1]
  BY <1>1, EndsAre, LenProperties
<1>3. \A k \in 1..Len(unsent[h]) :
         /\ Genuine(unsent[h][k]) /\ unsent[h][k].of = unsent[h][1].of
         /\ unsent[h][k].index = FragmentsFor(sent[unsent[h][1].of]) - Len(unsent[h]) + k - 1
  BY <1>2 DEF SendInv, SendsAreApart
<1>4. Genuine(unsent[h][1])
  BY <1>2, <1>3
<1>5. unsent[h][1].of \in DOMAIN sent
  BY <1>4 DEF Genuine
<1>6. unsent[h][1].of \in Nat /\ sent[unsent[h][1].of] \in Nat
  BY <1>5, LenProperties, ElementOfSeq DEF SendInv, SendTypes
<1> QED BY <1>1, <1>2, <1>3, <1>5, <1>6

\* A send that begins has a message nobody else has, and all its fragments.
LEMMA BeginSendKeeps ==
  ASSUME SendInv, NEW h \in Handles, NEW len \in Sizes, BeginSend(h, len)
  PROVE  SendInv' /\ Keeps
<1> DEFINE n == FragmentsFor(len)
<1>14. PICK m : m = Len(sent) + 1
  OBVIOUS
<1>15. PICK s : s = Split(m, len)
  OBVIOUS
<1>1. /\ sent \in Seq(Nat) /\ Len(sent) \in Nat /\ DOMAIN sent = 1..Len(sent)
      /\ len \in Nat /\ m \in Nat \ {0} /\ n \in Nat \ {0}
  <2>1. sent \in Seq(Nat) /\ len \in Nat
    BY ConstantTypes DEF SendInv, SendTypes
  <2>2. Len(sent) \in Nat /\ DOMAIN sent = 1..Len(sent)
    BY <2>1, LenProperties
  <2>3. n \in Nat \ {0}
    BY <2>1, FragmentsForIs
  <2> QED BY <2>1, <2>2, <2>3, <1>14
<1>2. /\ sent' = Append(sent, len) /\ unsent' = [unsent EXCEPT ![h] = s]
      /\ unsent[h] = <<>> /\ Len(sent) < MaxMessages
      /\ lock' = lock /\ order' = order /\ whole' = whole
  BY <1>14, <1>15 DEF BeginSend
<1>3. /\ sent' \in Seq(Nat) /\ Len(sent') = m /\ DOMAIN sent' = 1..m /\ sent'[m] = len
      /\ \A j \in DOMAIN sent : j \in DOMAIN sent' /\ sent'[j] = sent[j]
  BY <1>1, <1>2, <1>14, EndsAre, LenProperties
<1> HIDE DEF n
<1>4. \A k \in 1..n : /\ Fragment(m, len, k - 1) \in Fragments
                      /\ Fragment(m, len, k - 1).of = m /\ Fragment(m, len, k - 1).index = k - 1
  <2> SUFFICES ASSUME NEW k \in 1..n
               PROVE  /\ Fragment(m, len, k - 1) \in Fragments
                      /\ Fragment(m, len, k - 1).of = m /\ Fragment(m, len, k - 1).index = k - 1
    OBVIOUS
  <2>1. k - 1 \in 0..FragmentsFor(len) - 1
    BY <1>1 DEF n
  <2> QED BY <2>1, <1>1, FragmentType
<1>5. s = [k \in 1..n |-> Fragment(m, len, k - 1)]
  BY <1>15 DEF Split, n
<1>6. /\ s \in Seq(Fragments) /\ Len(s) = n /\ DOMAIN s = 1..n /\ s # <<>>
      /\ \A k \in 1..n : s[k] = Fragment(m, len, k - 1)
  <2>1. \A k \in 1..n : s[k] = Fragment(m, len, k - 1)
    BY <1>5
  <2>2. s \in [1..n -> Fragments]
    BY <1>4, <1>5
  <2>3. s \in Seq(Fragments) /\ Len(s) = n
    BY <2>2, <1>1
  <2> QED BY <2>1, <2>2, <2>3, <1>1
<1>7. unsent' \in [Handles -> Seq(Fragments)] /\ unsent'[h] = s
      /\ \A g \in Handles : g # h => unsent'[g] = unsent[g]
  BY <1>2, <1>6 DEF SendInv, SendTypes
<1>8. SendTypes'
  BY <1>2, <1>3, <1>7 DEF SendInv, SendTypes
<1>9. Keeps
  BY <1>2, <1>3 DEF Keeps, SendInv, SendTypes, TurnsAreOnce
<1>10. m \notin DOMAIN sent /\ m \notin Range(order)
  BY <1>14, <1>1 DEF SendInv, TurnsAreOnce
<1>11. \A k \in 1..n : Genuine(s[k])' /\ s[k].of = m /\ s[k].index = k - 1
  <2> SUFFICES ASSUME NEW k \in 1..n PROVE Genuine(s[k])' /\ s[k].of = m /\ s[k].index = k - 1
    OBVIOUS
  <2>1. s[k] = Fragment(m, len, k - 1) /\ s[k].of = m /\ s[k].index = k - 1
    BY <1>4, <1>6
  <2>2. m \in DOMAIN sent' /\ k - 1 \in 0..FragmentsFor(sent'[m]) - 1
    BY <1>1, <1>3 DEF n
  <2> QED BY <2>1, <2>2, <1>3 DEF Genuine
<1>12. SendsAreApart'
  <2>1. Len(sent') <= MaxMessages
    BY <1>14, <1>1, <1>2, <1>3, ConstantTypes
  <2>2. ASSUME NEW g \in Handles, NEW k \in DOMAIN unsent'[g]
        PROVE  /\ Genuine(unsent[g][k])' /\ unsent'[g][k].of = unsent'[g][1].of
               /\ unsent'[g][k].index
                    = FragmentsFor(sent'[unsent'[g][1].of]) - Len(unsent'[g]) + k - 1
    <3>1. CASE g = h
      <4>1. k \in 1..n /\ 1 \in 1..n
        BY <3>1, <2>2, <1>1, <1>6, <1>7
      <4>2. unsent'[g][k].of = m /\ unsent'[g][1].of = m /\ unsent'[g][k].index = k - 1
            /\ Genuine(unsent[g][k])'
        BY <3>1, <4>1, <1>7, <1>11
      <4>3. FragmentsFor(sent'[m]) - Len(unsent'[g]) + k - 1 = k - 1
        BY <3>1, <4>1, <1>1, <1>3, <1>6, <1>7 DEF n
      <4> QED BY <4>2, <4>3
    <3>2. CASE g # h
      <4>1. unsent'[g] = unsent[g] /\ unsent[g] # <<>>
        BY <3>2, <2>2, <1>7
      <4>2. /\ Genuine(unsent[g][k]) /\ unsent[g][k].of = unsent[g][1].of
            /\ unsent[g][1].of \in DOMAIN sent
            /\ unsent[g][k].index = FragmentsFor(sent[unsent[g][1].of]) - Len(unsent[g]) + k - 1
        BY <4>1, <2>2, UnsentIs
      <4>3. Genuine(unsent[g][k])'
        BY <4>1, <4>2, <1>9, GenuineStays
      <4>4. sent'[unsent[g][1].of] = sent[unsent[g][1].of]
        BY <4>2, <1>3
      <4> QED BY <4>1, <4>2, <4>3, <4>4
    <3> QED BY <3>1, <3>2
  <2>3. \A g \in Handles : g # h /\ unsent[g] # <<>> => unsent[g][1].of \in DOMAIN sent
    BY UnsentIs
  <2>4. unsent'[h][1].of = m
    <3>1. 1 \in 1..n
      BY <1>1
    <3>2. s[1].of = m
      BY <3>1, <1>11
    <3> QED BY <3>2, <1>7
  <2>5. ASSUME NEW f \in Handles, NEW g \in Handles,
               unsent'[f] # <<>>, unsent'[g] # <<>>, unsent'[f][1].of = unsent'[g][1].of
        PROVE  f = g
    <3>1. CASE f # h /\ g # h
      BY <3>1, <2>5, <1>7 DEF SendInv, SendsAreApart
    <3>2. CASE f = h /\ g # h
      BY <3>2, <2>3, <2>4, <2>5, <1>7, <1>10
    <3>3. CASE f # h /\ g = h
      BY <3>3, <2>3, <2>4, <2>5, <1>7, <1>10
    <3> QED BY <3>1, <3>2, <3>3
  <2>6. ASSUME NEW g \in Handles, unsent'[g] # <<>>, lock' # g
        PROVE  /\ Len(unsent'[g]) = FragmentsFor(sent'[unsent'[g][1].of])
               /\ unsent'[g][1].of \notin Range(order')
    <3>1. CASE g = h
      BY <3>1, <2>4, <1>2, <1>3, <1>6, <1>7, <1>10 DEF n
    <3>2. CASE g # h
      <4>1. unsent'[g] = unsent[g] /\ unsent[g][1].of \in DOMAIN sent
        BY <3>2, <2>3, <2>6, <1>7
      <4> QED BY <4>1, <2>6, <1>2, <1>3 DEF SendInv, SendsAreApart
    <3> QED BY <3>1, <3>2
  <2> QED BY <2>1, <2>2, <2>5, <2>6 DEF SendsAreApart
<1>13. TurnsAreOnce'
  <2>1. lock # NoHandle => lock # h /\ unsent[lock] # <<>> /\ lock \in Handles
    BY <1>2 DEF SendInv, SendTypes, TurnsAreOnce
  <2>2. lock # NoHandle => unsent'[lock] = unsent[lock]
    BY <2>1, <1>7
  <2> QED BY <2>1, <2>2, <1>2, <1>3 DEF SendInv, TurnsAreOnce
<1> QED BY <1>8, <1>9, <1>12, <1>13 DEF SendInv

\* The send that gets the sink is the last in the order, and new in it.
LEMMA LockSinkKeeps ==
  ASSUME SendInv, NEW h \in Handles, LockSink(h)
  PROVE  /\ SendInv' /\ Keeps
         /\ order' = Append(order, unsent[h][1].of) /\ unsent[h][1].of \notin Range(order)
<1> DEFINE m == unsent[h][1].of
<1>1. /\ unsent[h] # <<>> /\ lock = NoHandle /\ lock' = h
      /\ sent' = sent /\ unsent' = unsent /\ whole' = whole
  BY DEF LockSink
<1>2. lock # h /\ h # NoHandle
  BY <1>1, ConstantTypes
<1>3. m \in DOMAIN sent /\ m \in Nat /\ Head(unsent[h]) = unsent[h][1]
  BY <1>1, UnsentIs
<1>4. order' = Append(order, m) /\ m \notin Range(order)
  BY <1>1, <1>2, <1>3 DEF LockSink, SendInv, SendsAreApart
<1>5. order \in Seq(Nat) /\ Len(order) \in Nat /\ DOMAIN order = 1..Len(order)
  BY LenProperties DEF SendInv, SendTypes
<1> HIDE DEF m
<1>6. /\ order' \in Seq(Nat) /\ Len(order') = Len(order) + 1 /\ DOMAIN order' = 1..Len(order) + 1
      /\ order'[Len(order) + 1] = m /\ \A k \in 1..Len(order) : order'[k] = order[k]
      /\ order' # <<>>
  <2>1. order' \in Seq(Nat) /\ Len(order') = Len(order) + 1
        /\ \A j \in 1..Len(order) + 1 : order'[j] = IF j <= Len(order) THEN order[j] ELSE m
    BY <1>3, <1>4, <1>5, EndsAre
  <2>2. order'[Len(order) + 1] = m /\ \A k \in 1..Len(order) : order'[k] = order[k]
    BY <2>1, <1>5
  <2> QED BY <2>1, <2>2, <1>5, LenProperties, EmptySeq
<1>7. Range(order') = Range(order) \cup {m}
  <2>1. \A k \in 1..Len(order) + 1 : k \in 1..Len(order) \/ k = Len(order) + 1
    BY <1>5
  <2>2. Len(order) + 1 \in 1..Len(order) + 1 /\ \A k \in 1..Len(order) : k \in 1..Len(order) + 1
    BY <1>5
  <2> QED BY <2>1, <2>2, <1>5, <1>6 DEF Range
<1>8. SendTypes'
  BY <1>1, <1>6 DEF SendInv, SendTypes
<1>9. Keeps
  BY <1>1, <1>3, <1>6, <1>7 DEF Keeps, SendInv, SendTypes, TurnsAreOnce
<1>10. SendsAreApart'
  <2>1. ASSUME NEW g \in Handles, unsent[g] # <<>>, lock' # g
        PROVE  /\ Len(unsent[g]) = FragmentsFor(sent[unsent[g][1].of])
               /\ unsent[g][1].of \notin Range(order')
    <3>1. lock # g /\ g # h
      BY <2>1, <1>1, ConstantTypes
    <3>2. /\ Len(unsent[g]) = FragmentsFor(sent[unsent[g][1].of])
          /\ unsent[g][1].of \notin Range(order)
      BY <2>1, <3>1 DEF SendInv, SendsAreApart
    <3>3. unsent[g][1].of # m
      BY <2>1, <3>1, <1>1 DEF SendInv, SendsAreApart, m
    <3> QED BY <3>2, <3>3, <1>7
  <2>2. ASSUME NEW g \in Handles, NEW k \in DOMAIN unsent[g]
        PROVE  Genuine(unsent[g][k])'
    <3>1. Genuine(unsent[g][k])
      BY DEF SendInv, SendsAreApart
    <3> QED BY <3>1, <1>1, <1>9, GenuineStays
  <2> QED BY <2>1, <2>2, <1>1 DEF SendInv, SendsAreApart
<1>11. TurnsAreOnce'
  <2>1. ASSUME NEW j \in DOMAIN order', NEW k \in DOMAIN order', order'[j] = order'[k]
        PROVE  j = k
    <3>1. \A i \in 1..Len(order) + 1 : i \in 1..Len(order) \/ i = Len(order) + 1
      BY <1>5
    <3>2. \A i \in 1..Len(order) : order[i] # m
      BY <1>4, <1>5 DEF Range
    <3> QED BY <2>1, <3>1, <3>2, <1>5, <1>6 DEF SendInv, TurnsAreOnce
  <2>2. order'[Len(order')] = m /\ m \notin whole /\ whole \subseteq Range(order')
    BY <1>4, <1>6, <1>7 DEF SendInv, TurnsAreOnce
  <2>3. Range(order') \subseteq DOMAIN sent'
    BY <1>9 DEF Keeps
  <2> QED BY <2>1, <2>2, <2>3, <1>1, <1>6 DEF TurnsAreOnce, m
<1> QED BY <1>4, <1>8, <1>9, <1>10, <1>11 DEF SendInv, m

\* The first fragment is written; the send waits with the others, or is done.
LEMMA WriteFragmentKeeps ==
  ASSUME SendInv, NEW h \in Handles, WriteFragment(h)
  PROVE  SendInv' /\ Keeps
<1> DEFINE s == unsent[h]
           rest == Tail(s)
           m == s[1].of
<1>1. /\ lock = h /\ sent' = sent /\ order' = order
      /\ unsent' = [unsent EXCEPT ![h] = rest]
      /\ lock' = IF rest = <<>> THEN NoHandle ELSE h
      /\ whole' = IF rest = <<>> THEN whole \cup {Head(s).of} ELSE whole
  BY DEF WriteFragment
<1>2. h # NoHandle /\ s # <<>> /\ order # <<>> /\ m = order[Len(order)]
  BY <1>1, ConstantTypes DEF SendInv, TurnsAreOnce
<1>3. /\ s \in Seq(Fragments) /\ Len(s) \in Nat /\ Len(s) > 0 /\ Head(s) = s[1]
      /\ m \in Nat /\ m \in DOMAIN sent /\ sent[m] \in Nat
      /\ \A k \in 1..Len(s) :
            /\ Genuine(s[k]) /\ s[k].of = m
            /\ s[k].index = FragmentsFor(sent[m]) - Len(s) + k - 1
  BY <1>2, UnsentIs
<1>4. FragmentsFor(sent[m]) \in Nat
  BY <1>3, FragmentsForIs
<1> HIDE DEF m, s
<1>5. /\ rest \in Seq(Fragments) /\ Len(rest) = Len(s) - 1 /\ DOMAIN rest = 1..Len(s) - 1
      /\ \A k \in 1..Len(s) - 1 : rest[k] = s[k + 1]
  <2>1. s # <<>>
    BY <1>2 DEF s
  <2> QED BY <2>1, <1>3, EndsAre, LenProperties
<1> HIDE DEF rest
<1>6. unsent' \in [Handles -> Seq(Fragments)] /\ unsent'[h] = rest
      /\ \A g \in Handles : g # h => unsent'[g] = unsent[g]
  BY <1>1, <1>5 DEF SendInv, SendTypes
<1>7. order \in Seq(Nat) /\ Len(order) \in Nat /\ DOMAIN order = 1..Len(order)
      /\ Len(order) > 0 /\ m \in Range(order)
  <2>1. order \in Seq(Nat) /\ Len(order) \in Nat /\ DOMAIN order = 1..Len(order)
    BY LenProperties DEF SendInv, SendTypes
  <2>2. Len(order) > 0
    BY <2>1, <1>2, EmptySeq
  <2> QED BY <2>1, <2>2, <1>2 DEF Range
<1>8. SendTypes'
  <2>1. whole' \subseteq Nat
    BY <1>1, <1>3 DEF SendInv, SendTypes, m
  <2>2. lock' \in Handles \cup {NoHandle}
    BY <1>1
  <2> QED BY <2>1, <2>2, <1>1, <1>6 DEF SendInv, SendTypes
<1>9. Keeps
  BY <1>1 DEF Keeps, SendInv, SendTypes, TurnsAreOnce
<1>10. \A k \in 1..Len(s) - 1 :
          /\ Genuine(rest[k]) /\ rest[k].of = m
          /\ rest[k].index = FragmentsFor(sent[m]) - Len(rest) + k - 1
  <2> SUFFICES ASSUME NEW k \in 1..Len(s) - 1
               PROVE  /\ Genuine(rest[k]) /\ rest[k].of = m
                      /\ rest[k].index = FragmentsFor(sent[m]) - Len(rest) + k - 1
    OBVIOUS
  <2>1. k + 1 \in 1..Len(s) /\ rest[k] = s[k + 1]
    BY <1>3, <1>5
  <2>2. FragmentsFor(sent[m]) - Len(s) + (k + 1) - 1 = FragmentsFor(sent[m]) - Len(rest) + k - 1
    BY <1>3, <1>4, <1>5
  <2> QED BY <2>1, <2>2, <1>3
<1>11. rest # <<>> => 1 \in 1..Len(s) - 1 /\ rest[1].of = m
  <2>1. rest # <<>> => Len(rest) > 0
    BY <1>5, EmptySeq
  <2> QED BY <2>1, <1>3, <1>5, <1>10
<1>12. \A g \in Handles : g # h => lock # g
  BY <1>1
<1>13. SendsAreApart'
  <2>1. ASSUME NEW g \in Handles, NEW k \in DOMAIN unsent'[g]
        PROVE  /\ Genuine(unsent'[g][k]) /\ unsent'[g][k].of = unsent'[g][1].of
               /\ unsent'[g][k].index
                    = FragmentsFor(sent[unsent'[g][1].of]) - Len(unsent'[g]) + k - 1
    <3>1. CASE g = h
      <4>1. k \in 1..Len(s) - 1 /\ rest # <<>>
        BY <3>1, <2>1, <1>5, <1>6, EmptySeq
      <4> QED BY <3>1, <4>1, <1>6, <1>10, <1>11
    <3>2. CASE g # h
      <4>1. unsent'[g] = unsent[g]
        BY <3>2, <1>6
      <4> QED BY <4>1, <2>1 DEF SendInv, SendsAreApart
    <3> QED BY <3>1, <3>2
  <2>2. ASSUME NEW f \in Handles, NEW g \in Handles,
               unsent'[f] # <<>>, unsent'[g] # <<>>, unsent'[f][1].of = unsent'[g][1].of
        PROVE  f = g
    <3>1. \A x \in Handles : unsent'[x] # <<>> =>
            unsent[x] # <<>> /\ unsent'[x][1].of = unsent[x][1].of
      BY <1>2, <1>6, <1>11 DEF m, s
    <3> QED BY <3>1, <2>2 DEF SendInv, SendsAreApart
  <2>3. ASSUME NEW g \in Handles, unsent'[g] # <<>>, lock' # g
        PROVE  /\ Len(unsent'[g]) = FragmentsFor(sent[unsent'[g][1].of])
               /\ unsent'[g][1].of \notin Range(order)
    <3>1. g # h
      BY <2>3, <1>1, <1>6
    <3> QED BY <3>1, <2>3, <1>6, <1>12 DEF SendInv, SendsAreApart
  <2>4. \A f : Genuine(f)' <=> Genuine(f)
    BY <1>1 DEF Genuine
  <2>5. ASSUME NEW g \in Handles, NEW k \in DOMAIN unsent'[g]
        PROVE  Genuine(unsent[g][k])'
    BY <2>1, <1>1 DEF Genuine
  <2>6. Len(sent') <= MaxMessages
    BY <1>1 DEF SendInv, SendsAreApart
  <2> QED BY <2>1, <2>2, <2>3, <2>5, <2>6, <1>1 DEF SendsAreApart
<1>14. TurnsAreOnce'
  <2>1. CASE rest = <<>>
    <3>1. lock' = NoHandle /\ whole' = whole \cup {m}
      BY <2>1, <1>1, <1>3 DEF m
    <3> QED BY <3>1, <1>1, <1>7 DEF SendInv, TurnsAreOnce
  <2>2. CASE rest # <<>>
    <3>1. lock' = h /\ whole' = whole /\ unsent'[h] # <<>> /\ unsent'[h][1].of = m
      BY <2>2, <1>1, <1>6, <1>11
    <3> QED BY <3>1, <1>1, <1>2 DEF SendInv, TurnsAreOnce, m
  <2> QED BY <2>1, <2>2
<1> QED BY <1>8, <1>9, <1>13, <1>14 DEF SendInv

\* A send that gives up leaves the sink and has nothing more to write.
LEMMA WriteFailsKeeps ==
  ASSUME SendInv, NEW h \in Handles, WriteFails(h)
  PROVE  SendInv' /\ Keeps
<1>1. /\ lock = h /\ lock' = NoHandle /\ sent' = sent /\ order' = order /\ whole' = whole
      /\ unsent' = [unsent EXCEPT ![h] = <<>>]
  BY DEF WriteFails
<1>2. unsent' \in [Handles -> Seq(Fragments)] /\ unsent'[h] = <<>>
      /\ \A g \in Handles : g # h => unsent'[g] = unsent[g] /\ lock # g
  BY <1>1, EmptySeq DEF SendInv, SendTypes
<1>3. SendTypes'
  BY <1>1, <1>2 DEF SendInv, SendTypes
<1>4. Keeps
  BY <1>1 DEF Keeps, SendInv, SendTypes, TurnsAreOnce
<1>5. SendsAreApart'
  <2>1. ASSUME NEW g \in Handles, NEW k \in DOMAIN unsent'[g]
        PROVE  g # h /\ unsent'[g] = unsent[g] /\ Genuine(unsent[g][k])'
    <3>1. g # h /\ unsent'[g] = unsent[g]
      BY <1>2, <2>1, EmptySeq
    <3>2. Genuine(unsent[g][k])
      BY <3>1, <2>1 DEF SendInv, SendsAreApart
    <3> QED BY <3>1, <3>2, <1>1 DEF Genuine
  <2>2. \A g \in Handles : unsent'[g] # <<>> => g # h /\ unsent'[g] = unsent[g] /\ lock # g
    BY <1>2
  <2>3. ASSUME NEW g \in Handles, NEW k \in DOMAIN unsent'[g]
        PROVE  /\ unsent'[g][k].of = unsent'[g][1].of
               /\ unsent'[g][k].index
                    = FragmentsFor(sent'[unsent'[g][1].of]) - Len(unsent'[g]) + k - 1
    BY <2>1, <2>3, <1>1 DEF SendInv, SendsAreApart
  <2>4. ASSUME NEW f \in Handles, NEW g \in Handles,
               unsent'[f] # <<>>, unsent'[g] # <<>>, unsent'[f][1].of = unsent'[g][1].of
        PROVE  f = g
    BY <2>2, <2>4 DEF SendInv, SendsAreApart
  <2>5. \A g \in Handles : unsent'[g] # <<>> =>
           /\ Len(unsent'[g]) = FragmentsFor(sent'[unsent'[g][1].of])
           /\ unsent'[g][1].of \notin Range(order')
    BY <2>2, <1>1 DEF SendInv, SendsAreApart
  <2>6. Len(sent') <= MaxMessages
    BY <1>1 DEF SendInv, SendsAreApart
  <2> QED BY <2>1, <2>3, <2>4, <2>5, <2>6 DEF SendsAreApart
<1>6. TurnsAreOnce'
  BY <1>1 DEF SendInv, TurnsAreOnce
<1> QED BY <1>3, <1>4, <1>5, <1>6 DEF SendInv

\* No step of anybody else touches the sending side.
LEMMA SendKeeps ==
  ASSUME SendInv, [Next]_vars
  PROVE  SendInv' /\ Keeps
<1>1. CASE UNCHANGED sendVars
  <2>1. sent' = sent /\ unsent' = unsent /\ lock' = lock /\ order' = order /\ whole' = whole
    BY <1>1 DEF sendVars
  <2>2. Keeps
    BY <2>1 DEF Keeps, SendInv, SendTypes, TurnsAreOnce
  <2>3. SendsAreApart'
    <3>1. ASSUME NEW g \in Handles, NEW k \in DOMAIN unsent[g]
          PROVE  Genuine(unsent[g][k])'
      <4>1. Genuine(unsent[g][k])
        BY DEF SendInv, SendsAreApart
      <4> QED BY <4>1, <2>1 DEF Genuine
    <3> QED BY <3>1, <2>1 DEF SendInv, SendsAreApart
  <2> QED BY <2>1, <2>2, <2>3 DEF SendInv, SendTypes, TurnsAreOnce
<1>2. CASE Sends
  <2>1. PICK h \in Handles :
           \/ \E len \in Sizes : BeginSend(h, len)
           \/ LockSink(h) \/ WriteFragment(h) \/ WriteFails(h)
    BY <1>2 DEF Sends
  <2> QED BY <2>1, BeginSendKeeps, LockSinkKeeps, WriteFragmentKeeps, WriteFailsKeeps
<1>3. Sends \/ UNCHANGED sendVars
  BY DEF Next, vars, Disturbs, Reassembles, ReadGap, Receive, HandOver, Tick, Elapse, Notify,
         Watches, WatchSeesLoss, WatchLags, WatchAborts, Recv, RecvBegins, RecvParks,
         RecvMessage, RecvClosed, RecvWoken, RecvDropped
<1> QED BY <1>1, <1>2, <1>3

-----------------------------------------------------------------------------
(* The wire *)

Items == Fragments \cup {Gap, TooShort}

\* A strike is counted, and nothing else.
LEMMA StrikeIs ==
  ASSUME faults \in [FaultKinds -> Nat], NEW kind \in FaultKinds, Strikes(kind)
  PROVE  /\ faults' \in [FaultKinds -> Nat] /\ faults'[kind] # 0
         /\ \A x \in FaultKinds : x # kind => faults'[x] = faults[x]
BY DEF Strikes

\* Every fragment of ours on the new wire stood on the old one, e says where.
From(e) ==
    \A j \in 1..Len(wire') : Ours(wire'[j]) => e[j] \in 1..Len(wire) /\ wire'[j] = wire[e[j]]

InStep(e) ==
    \A j, k \in 1..Len(wire') : j < k /\ Ours(wire'[j]) /\ Ours(wire'[k]) => e[j] <= e[k]

Undisturbing ==
    /\ Gap \notin Range(wire') /\ faults'["lost"] = 0 /\ faults'["swapped"] = 0
    => /\ Gap \notin Range(wire) /\ faults["lost"] = 0 /\ faults["swapped"] = 0
       /\ Range(wire) \subseteq Range(wire')

\* Whatever the radio and the drivers do puts nothing of ours on the wire, and
\* changes the order of what is there only by a swap.
LEMMA DisturbedWire ==
  ASSUME wire \in Seq(Items), faults \in [FaultKinds -> Nat],
         Lost \/ Doubled \/ Swapped \/ Overrun \/ Foreign
  PROVE  /\ wire' \in Seq(Items) /\ faults' \in [FaultKinds -> Nat]
         /\ Undisturbing
         /\ \E e \in [1..Len(wire') -> Nat] :
               From(e) /\ (faults'["swapped"] = 0 => faults["swapped"] = 0 /\ InStep(e))
<1>1. Len(wire) \in Nat /\ DOMAIN wire = 1..Len(wire)
  BY LenProperties
<1>2. "lost" \in FaultKinds /\ "swapped" \in FaultKinds /\ "doubled" \in FaultKinds
      /\ "overrun" \in FaultKinds /\ "foreign" \in FaultKinds
  BY DEF FaultKinds
<1>3. CASE Lost
  <2>1. PICK i \in 1..Len(wire) : wire' = RemoveAt(wire, i) /\ Strikes("lost")
    BY <1>1, <1>3 DEF Lost
  <2>2. /\ faults' \in [FaultKinds -> Nat] /\ faults'["lost"] # 0
        /\ faults'["swapped"] = faults["swapped"]
    BY <2>1, <1>2, StrikeIs
  <2>3. /\ wire' \in Seq(Items) /\ Len(wire') = Len(wire) - 1
        /\ \A j \in 1..Len(wire) - 1 : wire'[j] = IF j < i THEN wire[j] ELSE wire[j + 1]
    BY <2>1, RemoveAtIs
  <2> DEFINE e == [j \in 1..Len(wire') |-> IF j < i THEN j ELSE j + 1]
  <2>4. \A j \in 1..Len(wire') : e[j] \in 1..Len(wire) /\ wire'[j] = wire[e[j]]
    BY <1>1, <2>3
  <2>5. e \in [1..Len(wire') -> Nat] /\ \A j, k \in 1..Len(wire') : j < k => e[j] <= e[k]
    BY <1>1, <2>3
  <2> HIDE DEF e
  <2>6. From(e) /\ InStep(e)
    BY <2>4, <2>5 DEF From, InStep
  <2>7. Undisturbing
    BY <2>2 DEF Undisturbing
  <2> QED BY <2>2, <2>3, <2>5, <2>6, <2>7
<1>4. CASE Doubled
  <2>1. PICK i \in 1..Len(wire) : wire' = InsertAt(wire, i, wire[i]) /\ Strikes("doubled")
    BY <1>1, <1>4 DEF Doubled
  <2>2. /\ faults' \in [FaultKinds -> Nat] /\ faults'["lost"] = faults["lost"]
        /\ faults'["swapped"] = faults["swapped"]
    BY <2>1, <1>2, StrikeIs
  <2>3. /\ wire' \in Seq(Items) /\ Len(wire') = Len(wire) + 1
        /\ \A j \in 1..Len(wire) + 1 : wire'[j] = IF j <= i THEN wire[j] ELSE wire[j - 1]
    BY <2>1, RepeatIs
  <2> DEFINE e == [j \in 1..Len(wire') |-> IF j <= i THEN j ELSE j - 1]
  <2>4. \A j \in 1..Len(wire') : e[j] \in 1..Len(wire) /\ wire'[j] = wire[e[j]]
    BY <1>1, <2>3
  <2>5. e \in [1..Len(wire') -> Nat] /\ \A j, k \in 1..Len(wire') : j < k => e[j] <= e[k]
    BY <1>1, <2>3
  <2> HIDE DEF e
  <2>6. From(e) /\ InStep(e)
    BY <2>4, <2>5 DEF From, InStep
  <2>7. Range(wire) \subseteq Range(wire')
    <3> SUFFICES ASSUME NEW k \in 1..Len(wire) PROVE \E j \in DOMAIN wire' : wire'[j] = wire[k]
      BY <1>1 DEF Range
    <3>1. DOMAIN wire' = 1..Len(wire) + 1
      BY <2>3, LenProperties
    <3>2. CASE k <= i
      BY <3>1, <3>2, <1>1, <2>3
    <3>3. CASE ~(k <= i)
      <4>1. k + 1 \in 1..Len(wire) + 1 /\ ~(k + 1 <= i) /\ k + 1 - 1 = k
        BY <3>3, <1>1
      <4>2. wire'[k + 1] = wire[k + 1 - 1]
        BY <4>1, <2>3
      <4> QED BY <4>1, <4>2, <3>1
    <3> QED BY <3>2, <3>3
  <2>8. Undisturbing
    BY <2>2, <2>7 DEF Undisturbing
  <2> QED BY <2>2, <2>3, <2>5, <2>6, <2>8
<1>5. CASE Swapped
  <2>1. PICK i \in 1..Len(wire) - 1 :
           /\ wire' = [wire EXCEPT ![i] = wire[i + 1], ![i + 1] = wire[i]] /\ Strikes("swapped")
    BY <1>5 DEF Swapped
  <2>2. faults' \in [FaultKinds -> Nat] /\ faults'["swapped"] # 0
    BY <2>1, <1>2, StrikeIs
  <2>3. i \in 1..Len(wire) /\ i + 1 \in 1..Len(wire) /\ i # i + 1
    BY <1>1
  <2>4. wire[i] \in Items /\ wire[i + 1] \in Items
    BY <2>3, ElementOfSeq
  <2> DEFINE u == [wire EXCEPT ![i] = wire[i + 1]]
  <2>5. /\ u \in Seq(Items) /\ Len(u) = Len(wire)
        /\ \A j \in 1..Len(wire) : u[j] = IF j = i THEN wire[i + 1] ELSE wire[j]
    BY <2>3, <2>4, ExceptSeq
  <2> HIDE DEF u
  <2>6. wire' = [u EXCEPT ![i + 1] = wire[i]]
    BY <2>1 DEF u
  <2>7. /\ wire' \in Seq(Items) /\ Len(wire') = Len(wire)
        /\ \A j \in 1..Len(wire) : wire'[j] = IF j = i + 1 THEN wire[i] ELSE u[j]
    BY <2>3, <2>4, <2>5, <2>6, ExceptSeq
  <2> DEFINE e == [j \in 1..Len(wire') |-> IF j = i + 1 THEN i ELSE IF j = i THEN i + 1 ELSE j]
  <2>8. \A j \in 1..Len(wire') : e[j] \in 1..Len(wire) /\ wire'[j] = wire[e[j]]
    BY <2>3, <2>5, <2>7
  <2>9. e \in [1..Len(wire') -> Nat]
    BY <2>3, <2>7
  <2> HIDE DEF e
  <2>10. From(e) /\ Undisturbing
    BY <2>2, <2>8 DEF From, Undisturbing
  <2> QED BY <2>2, <2>7, <2>9, <2>10
<1>6. CASE Overrun
  <2>1. PICK n \in 1..Len(wire) :
           wire' = <<Gap>> \o SubSeq(wire, n + 1, Len(wire)) /\ Strikes("overrun")
    BY <1>1, <1>6 DEF Overrun
  <2>2. faults' \in [FaultKinds -> Nat] /\ faults'["swapped"] = faults["swapped"]
    BY <2>1, <1>2, StrikeIs
  <2> DEFINE u == SubSeq(wire, n + 1, Len(wire))
  <2>3. u \in Seq(Items) /\ Len(u) = Len(wire) - n /\ \A j \in 1..Len(wire) - n : u[j] = wire[n + j]
    <3>1. n \in 0..Len(wire)
      BY <1>1
    <3> QED BY <3>1, BehindIs
  <2> HIDE DEF u
  <2>4. wire' = <<Gap>> \o u
    BY <2>1 DEF u
  <2>5. <<Gap>> \in Seq(Items) /\ Len(<<Gap>>) = 1 /\ <<Gap>>[1] = Gap
    BY DEF Items
  <2>6. /\ wire' \in Seq(Items) /\ Len(wire') = 1 + (Len(wire) - n)
        /\ wire'[1] = Gap
        /\ \A j \in 2..Len(wire') : wire'[j] = u[j - 1]
    <3>1. /\ wire' \in Seq(Items) /\ Len(wire') = Len(<<Gap>>) + Len(u)
          /\ \A j \in 1..Len(<<Gap>>) + Len(u) :
               wire'[j] = IF j <= Len(<<Gap>>) THEN <<Gap>>[j] ELSE u[j - Len(<<Gap>>)]
      BY <2>3, <2>4, <2>5, ConcatProperties
    <3>2. /\ wire' \in Seq(Items) /\ Len(wire') = 1 + (Len(wire) - n)
          /\ \A j \in 1..Len(wire') : wire'[j] = IF j <= 1 THEN <<Gap>>[j] ELSE u[j - 1]
      BY <3>1, <2>3, <2>5
    <3> QED BY <3>2, <2>5, <1>1
  <2> DEFINE e == [j \in 1..Len(wire') |-> IF j = 1 THEN 1 ELSE n + (j - 1)]
  <2>7. ASSUME NEW j \in 1..Len(wire'), Ours(wire'[j])
        PROVE  e[j] \in 1..Len(wire) /\ wire'[j] = wire[e[j]]
    <3>1. j # 1
      BY <2>6, <2>7 DEF Ours
    <3>2. j \in 2..Len(wire') /\ j - 1 \in 1..Len(wire) - n /\ n + (j - 1) \in 1..Len(wire)
      BY <3>1, <2>6, <1>1
    <3> QED BY <3>1, <3>2, <2>3, <2>6
  <2>8. e \in [1..Len(wire') -> Nat] /\ \A j, k \in 1..Len(wire') : j < k => e[j] <= e[k]
    BY <2>6, <1>1
  <2> HIDE DEF e
  <2>9. From(e) /\ InStep(e)
    BY <2>7, <2>8 DEF From, InStep
  <2>10. Undisturbing
    <3>1. 1 \in DOMAIN wire'
      BY <2>6, <1>1, LenProperties
    <3> QED BY <3>1, <2>6 DEF Undisturbing, Range
  <2> QED BY <2>2, <2>6, <2>8, <2>9, <2>10
<1>7. CASE Foreign
  <2>1. PICK f \in ForeignWrites : wire' = Append(wire, f) /\ Strikes("foreign")
    BY <1>7 DEF Foreign
  <2>2. /\ faults' \in [FaultKinds -> Nat] /\ faults'["lost"] = faults["lost"]
        /\ faults'["swapped"] = faults["swapped"]
    BY <2>1, <1>2, StrikeIs
  <2>3. f \in Items
    <3>1. <<>> \in Payloads
      BY EmptySeq DEF Payloads
    <3> QED BY <3>1 DEF ForeignWrites, Items, Fragments
  <2>4. /\ wire' \in Seq(Items) /\ Len(wire') = Len(wire) + 1
        /\ \A j \in 1..Len(wire) + 1 : wire'[j] = IF j <= Len(wire) THEN wire[j] ELSE f
    BY <2>1, <2>3, EndsAre
  <2> DEFINE e == [j \in 1..Len(wire') |-> j]
  <2>5. ASSUME NEW j \in 1..Len(wire'), Ours(wire'[j])
        PROVE  e[j] \in 1..Len(wire) /\ wire'[j] = wire[e[j]]
    <3>1. ~Ours(f)
      BY DEF Ours
    <3>2. j <= Len(wire)
      BY <3>1, <2>4, <2>5, <1>1
    <3> QED BY <3>2, <2>4, <1>1
  <2>6. e \in [1..Len(wire') -> Nat] /\ \A j, k \in 1..Len(wire') : j < k => e[j] <= e[k]
    BY <2>4, <1>1
  <2> HIDE DEF e
  <2>7. From(e) /\ InStep(e)
    BY <2>5, <2>6 DEF From, InStep
  <2>8. Range(wire) \subseteq Range(wire')
    <3>1. DOMAIN wire' = 1..Len(wire) + 1
      BY <2>4, LenProperties
    <3>2. \A k \in 1..Len(wire) : k \in 1..Len(wire) + 1 /\ wire'[k] = wire[k]
      BY <2>4, <1>1
    <3> QED BY <3>1, <3>2, <1>1 DEF Range
  <2>9. Undisturbing
    BY <2>2, <2>8 DEF Undisturbing
  <2> QED BY <2>2, <2>4, <2>6, <2>7, <2>9
<1> QED BY <1>3, <1>4, <1>5, <1>6, <1>7

-----------------------------------------------------------------------------
(* The table and the queue through a step *)

\* Everything of the state that the other parts are not about.
RestTypes ==
    /\ open \in BOOLEAN /\ watcher \in {"watching", "lagged", "done"} /\ expired \subseteq Nat
    /\ raising \subseteq {"reassembly", "watcher"} /\ {flagged, permit, told} \subseteq BOOLEAN
    /\ reader \in {"away", "armed", "parked", "ended"}

TableType(t) ==
    /\ t \in Seq(Range(t)) /\ Len(t) <= MaxConcurrent
    /\ \A p \in Range(t) : IsPartialMessage(p)

\* What TypeOK says of the table.
LEMMA TableTypeIs ==
  ASSUME NEW t
  PROVE  TableType(t) <=> t \in Seq(PartialMessages) /\ Len(t) <= MaxConcurrent
<1>1. ASSUME TableType(t) PROVE t \in Seq(PartialMessages) /\ Len(t) <= MaxConcurrent
  <2>1. Range(t) \subseteq PartialMessages
    BY <1>1, PartialMessagesAre DEF TableType
  <2> QED BY <2>1, <1>1, SeqMonotonic DEF TableType
<1>2. ASSUME t \in Seq(PartialMessages), Len(t) <= MaxConcurrent PROVE TableType(t)
  <2>1. DOMAIN t = 1..Len(t) /\ Len(t) \in Nat /\ t \in [1..Len(t) -> PartialMessages]
    BY <1>2, LenProperties
  <2>2. \A k \in 1..Len(t) : t[k] \in Range(t) /\ t[k] \in PartialMessages
    BY <2>1 DEF Range
  <2>3. t \in [1..Len(t) -> Range(t)]
    BY <2>1, <2>2
  <2>4. t \in Seq(Range(t))
    BY <2>1, <2>3
  <2>5. \A p \in Range(t) : IsPartialMessage(p)
    BY <2>1, <2>2, PartialMessagesAre DEF Range
  <2> QED BY <2>4, <2>5, <1>2 DEF TableType
<1> QED BY <1>1, <1>2

QueueTypes ==
    /\ handing \in Seq(Payloads) /\ Len(handing) <= 1
    /\ inbound \in Seq(Payloads) /\ Len(inbound) <= QueueDepth
    /\ received \subseteq Nat /\ latest \in Nat

\* FaithfulInv, by the parts that the steps change.
Parts ==
    /\ SendInv
    /\ wire \in Seq(Items) /\ WireIsKnown
    /\ Sound(partial)
    /\ QueueTypes /\ QueuedWasSent
    /\ RestTypes /\ faults \in [FaultKinds -> Nat]

\* The parts together are FaithfulInv,
LEMMA PartsAre == FaithfulInv <=> Parts
<1>1. TableType(partial) <=> partial \in Seq(PartialMessages) /\ Len(partial) <= MaxConcurrent
  BY TableTypeIs
<1>2. partial \in Seq(PartialMessages) => DOMAIN partial = 1..Len(partial)
  BY LenProperties
<1> QED BY <1>1, <1>2 DEF FaithfulInv, Parts, TypeOK, SendInv, SendTypes, QueueTypes, RestTypes,
              TableType, Sound, Sorted, PartsOfOne, Items

\* also after a step.
LEMMA PartsAreNext == FaithfulInv' <=> Parts'
<1>1. TableType(partial') <=> partial' \in Seq(PartialMessages) /\ Len(partial') <= MaxConcurrent
  BY TableTypeIs
<1>2. partial' \in Seq(PartialMessages) => DOMAIN partial' = 1..Len(partial')
  BY LenProperties
<1> QED BY <1>1, <1>2 DEF FaithfulInv, Parts, TypeOK, SendInv, SendTypes, QueueTypes, RestTypes,
              TableType, Sound, Sorted, PartsOfOne, Items

\* What the wire may get from the sender.
Writes == \E h \in Handles : lock = h /\ unsent[h] # <<>> /\ wire' = Append(wire, Head(unsent[h]))

\* The four things that can happen to the wire.
LEMMA WireSteps ==
  ASSUME SendInv, faults \in [FaultKinds -> Nat], [Next]_vars
  PROVE  \/ wire' = wire /\ faults' \in [FaultKinds -> Nat]
            /\ faults'["swapped"] = faults["swapped"] /\ faults'["lost"] = faults["lost"]
         \/ Writes /\ Sends /\ faults' \in [FaultKinds -> Nat]
            /\ faults'["swapped"] = faults["swapped"] /\ faults'["lost"] = faults["lost"]
         \/ Disturbs
         \/ (ReadGap \/ Receive) /\ wire # <<>> /\ wire' = Tail(wire) /\ faults' = faults
<1>1. CASE Sends
  <2>1. PICK h \in Handles :
           \/ \E len \in Sizes : BeginSend(h, len)
           \/ LockSink(h) \/ WriteFragment(h) \/ WriteFails(h)
    BY <1>1 DEF Sends
  <2>2. lock = h => unsent[h] # <<>>
    BY ConstantTypes DEF SendInv, TurnsAreOnce
  <2>3. CASE \E len \in Sizes : BeginSend(h, len)
    BY <2>3 DEF BeginSend
  <2>4. CASE LockSink(h)
    BY <2>4 DEF LockSink
  <2>5. CASE WriteFragment(h)
    BY <2>2, <2>5, <1>1 DEF WriteFragment, Writes
  <2>6. CASE WriteFails(h)
    <3>1. "failed" \in FaultKinds /\ "lost" \in FaultKinds /\ "swapped" \in FaultKinds
          /\ Strikes("failed") /\ lock = h
          /\ (wire' = wire \/ wire' = Append(wire, Head(unsent[h])))
      BY <2>6 DEF WriteFails, FaultKinds
    <3>2. faults' \in [FaultKinds -> Nat] /\ faults'["swapped"] = faults["swapped"]
          /\ faults'["lost"] = faults["lost"]
      BY <3>1, StrikeIs
    <3> QED BY <3>1, <3>2, <2>2, <1>1 DEF Writes
  <2> QED BY <2>1, <2>3, <2>4, <2>5, <2>6
<1>2. CASE Disturbs
  BY <1>2
<1>3. CASE ReadGap \/ Receive
  BY <1>3 DEF ReadGap, Receive
<1>4. HandOver \/ Tick \/ Elapse \/ (\E who \in {"reassembly", "watcher"} : Notify(who))
        \/ Watches \/ Recv \/ RecvDropped \/ UNCHANGED vars => wire' = wire /\ faults' = faults
  BY DEF HandOver, Tick, Elapse, Notify, Watches, WatchSeesLoss, WatchLags, WatchAborts, Recv,
         RecvBegins, RecvParks, RecvMessage, RecvClosed, RecvWoken, RecvDropped, vars
<1> QED BY <1>1, <1>2, <1>3, <1>4 DEF Next, Reassembles

\* The wire holds fragments of messages that had their turn, whatever happens.
LEMMA WireKeeps ==
  ASSUME Parts, [Next]_vars
  PROVE  wire' \in Seq(Items) /\ faults' \in [FaultKinds -> Nat] /\ WireIsKnown'
<1>1. /\ wire \in Seq(Items) /\ Len(wire) \in Nat /\ DOMAIN wire = 1..Len(wire)
      /\ faults \in [FaultKinds -> Nat] /\ SendInv
  BY LenProperties DEF Parts
<1>2. Keeps
  BY <1>1, SendKeeps
<1>3. SUFFICES ASSUME wire' \in Seq(Items), faults' \in [FaultKinds -> Nat],
                      \A k \in 1..Len(wire') : Ours(wire'[k]) =>
                         \/ \E j \in 1..Len(wire) : wire'[k] = wire[j]
                         \/ Genuine(wire'[k]) /\ wire'[k].of \in Range(order)
               PROVE  WireIsKnown'
  <2>1. CASE wire' = wire /\ faults' \in [FaultKinds -> Nat]
    BY <2>1, <1>1
  <2>2. CASE Writes /\ faults' \in [FaultKinds -> Nat]
    <3>1. PICK h \in Handles : lock = h /\ unsent[h] # <<>> /\ wire' = Append(wire, Head(unsent[h]))
      BY <2>2 DEF Writes
    <3> DEFINE x == Head(unsent[h])
    <3>2. /\ x \in Fragments /\ Genuine(x) /\ x.of = unsent[h][1].of
      <4>1. /\ unsent[h] \in Seq(Fragments) /\ 1 \in 1..Len(unsent[h]) /\ x = unsent[h][1]
            /\ \A k \in 1..Len(unsent[h]) : Genuine(unsent[h][k])
        BY <3>1, <1>1, UnsentIs
      <4> QED BY <4>1, ElementOfSeq
    <3>3. x.of \in Range(order)
      <4>1. order # <<>> /\ order \in Seq(Nat) /\ x.of = order[Len(order)]
        BY <3>1, <3>2, <1>1, ConstantTypes DEF SendInv, SendTypes, TurnsAreOnce
      <4>2. Len(order) \in DOMAIN order
        BY <4>1, EmptySeq, LenProperties
      <4> QED BY <4>1, <4>2 DEF Range
    <3> HIDE DEF x
    <3>4. /\ wire' \in Seq(Items) /\ Len(wire') = Len(wire) + 1
          /\ \A j \in 1..Len(wire) + 1 : wire'[j] = IF j <= Len(wire) THEN wire[j] ELSE x
      <4>1. x \in Items /\ wire' = Append(wire, x)
        BY <3>1, <3>2 DEF Items, x
      <4> QED BY <4>1, <1>1, EndsAre
    <3>5. ASSUME NEW k \in 1..Len(wire')
          PROVE  (\E j \in 1..Len(wire) : wire'[k] = wire[j]) \/ wire'[k] = x
      BY <3>4, <1>1
    <3> QED BY <3>2, <3>3, <3>4, <3>5, <2>2, <1>3
  <2>3. CASE Disturbs
    <3>1. Lost \/ Doubled \/ Swapped \/ Overrun \/ Foreign
      BY <2>3 DEF Disturbs
    <3>2. wire' \in Seq(Items) /\ faults' \in [FaultKinds -> Nat]
          /\ \E e \in [1..Len(wire') -> Nat] : From(e)
      BY <3>1, <1>1, DisturbedWire
    <3> QED BY <3>2, <1>3 DEF From
  <2>4. CASE wire # <<>> /\ wire' = Tail(wire) /\ faults' = faults
    <3>1. /\ wire' \in Seq(Items) /\ Len(wire') = Len(wire) - 1
          /\ \A j \in 1..Len(wire) - 1 : wire'[j] = wire[j + 1]
      BY <2>4, <1>1, EndsAre
    <3>2. \A j \in 1..Len(wire) - 1 : j + 1 \in 1..Len(wire)
      BY <1>1
    <3> QED BY <3>1, <3>2, <2>4, <1>1, <1>3
  <2> QED BY <2>1, <2>2, <2>3, <2>4, <1>1, WireSteps
<1>4. \A x : Genuine(x) => Genuine(x)'
  BY <1>2, GenuineStays
<1>5. DOMAIN wire' = 1..Len(wire')
  BY <1>3, LenProperties
<1>6. ASSUME NEW k \in DOMAIN wire', Ours(wire'[k])
      PROVE  Genuine(wire'[k]) /\ wire'[k].of \in Range(order)
  <2>1. CASE \E j \in 1..Len(wire) : wire'[k] = wire[j]
    BY <2>1, <1>1, <1>6 DEF Parts, WireIsKnown
  <2> QED BY <2>1, <1>3, <1>5, <1>6
<1>7. Range(order) \subseteq Range(order')
  BY <1>2 DEF Keeps
<1>8. ASSUME NEW k \in DOMAIN wire', NEW x, x = wire'[k], Ours(x)
      PROVE  Genuine(x)' /\ x.of \in Range(order')
  BY <1>4, <1>6, <1>7, <1>8
<1> QED BY <1>8 DEF WireIsKnown, Genuine

\* A fragment of ours is accepted; anything else changes nothing.
LEMMA ReceiveIs ==
  ASSUME MaxMessages <= IdSpace, Parts, Receive
  PROVE  LET f == Head(wire) IN
         /\ open /\ handing = <<>> /\ wire # <<>> /\ f = wire[1] /\ 1 \in 1..Len(wire)
         /\ \/ /\ ~Ours(f)
               /\ partial' = partial /\ handing' = <<>> /\ expired' = expired
            \/ /\ Ours(f) /\ Heard(partial, f)
               /\ partial' = Accepted(partial, f).table /\ handing' = Accepted(partial, f).done
               /\ expired' = IF Malformed(f) THEN expired ELSE expired \cup TimedOut
<1> DEFINE f == Head(wire)
<1>1. /\ open /\ handing = <<>> /\ wire # <<>> /\ f # Gap
      /\ IF f = TooShort
         THEN partial' = partial /\ handing' = handing /\ expired' = expired
         ELSE /\ partial' = Accepted(partial, f).table /\ handing' = Accepted(partial, f).done
              /\ expired' = IF Malformed(f) THEN expired ELSE expired \cup TimedOut
  BY DEF Receive, Listens
<1>2. f = wire[1] /\ 1 \in 1..Len(wire) /\ DOMAIN wire = 1..Len(wire)
  BY <1>1, EndsAre, LenProperties DEF Parts
<1> HIDE DEF f
<1>3. CASE f = TooShort
  BY <1>1, <1>2, <1>3 DEF Ours, ForeignWrites, f
<1>4. CASE f # TooShort /\ f \in ForeignWrites
  <2>1. f.index = 1 /\ f.total = 1
    BY <1>4 DEF ForeignWrites
  <2>2. Malformed(f)
    BY <2>1 DEF Malformed
  <2>3. Accepted(partial, f) = [table |-> partial, done |-> <<>>]
    BY <2>2 DEF Accepted
  <2> QED BY <1>1, <1>2, <1>4, <2>2, <2>3 DEF Ours, f
<1>5. CASE f # TooShort /\ f \notin ForeignWrites
  <2>1. Ours(f)
    BY <1>1, <1>5 DEF Ours
  <2>2. Genuine(f) /\ f.of \in Range(order)
    BY <2>1, <1>2 DEF Parts, WireIsKnown
  <2>3. Heard(partial, f)
    BY <2>2 DEF Heard, Parts, SendInv, SendTypes, SendsAreApart, TurnsAreOnce
  <2> QED BY <1>1, <1>2, <1>5, <2>1, <2>3 DEF f
<1> QED BY <1>3, <1>4, <1>5

\* What is sound stays so when others are sent and take turns.
LEMMA SoundStays ==
  ASSUME Keeps, NEW t, Sound(t)
  PROVE  Sound(t)'
<1>1. \A p : ProperPart(p) => ProperPart(p)'
  BY ProperStays
<1>2. ASSUME NEW k \in 1..Len(t), NEW p, p = t[k]
      PROVE  ProperPart(p)'
  BY <1>1, <1>2 DEF Sound
<1> QED BY <1>2 DEF Sound, Sorted, ProperPart

\* An empty table is sound.
LEMMA EmptyIsSound == Sound(<<>>)
BY EmptySeq, ConstantTypes DEF Sound, Sorted

\* Time passes for all alike.
LEMMA ElapsedIsSound ==
  ASSUME NEW t, Sound(t)
  PROVE  LET u == [k \in DOMAIN t |-> [t[k] EXCEPT !.age = Smaller(@ + 1, Timeout)]] IN
         /\ Sound(u) /\ DOMAIN u = DOMAIN t
         /\ \A k \in DOMAIN t :
               u[k].id = t[k].id /\ u[k].bodies = t[k].bodies /\ u[k].len = t[k].len
<1> DEFINE u == [k \in DOMAIN t |-> [t[k] EXCEPT !.age = Smaller(@ + 1, Timeout)]]
<1>1. t \in Seq(PartialMessages) /\ Len(t) \in Nat /\ DOMAIN t = 1..Len(t) /\ Len(t) <= MaxConcurrent
  BY LenProperties DEF Sound
<1>2. \A k \in 1..Len(t) : u[k] = [t[k] EXCEPT !.age = Smaller(@ + 1, Timeout)]
  BY <1>1
<1>3. DOMAIN u = 1..Len(t)
  BY <1>1
<1>4. u = [k \in 1..Len(t) |-> u[k]]
  BY <1>1
<1> HIDE DEF u
<1>5. ASSUME NEW k \in 1..Len(t)
      PROVE  /\ u[k] \in PartialMessages
             /\ u[k].id = t[k].id /\ u[k].bodies = t[k].bodies /\ u[k].len = t[k].len
             /\ u[k].total = t[k].total
             /\ u[k].age = Smaller(t[k].age + 1, Timeout) /\ t[k].age \in 0..Timeout
  <2>1. PICK S \in SUBSET Nat :
          t[k] \in [id : Nat, total : Nat, bodies : [S -> Payloads], len : Nat, age : 0..Timeout]
    <3>1. t[k] \in PartialMessages
      BY <1>1, ElementOfSeq
    <3> QED BY <3>1 DEF PartialMessages
  <2>2. /\ u[k].id = t[k].id /\ u[k].bodies = t[k].bodies /\ u[k].len = t[k].len
        /\ u[k].total = t[k].total
        /\ u[k].age = Smaller(t[k].age + 1, Timeout) /\ t[k].age \in 0..Timeout
    BY <2>1, <1>2
  <2>3. Smaller(t[k].age + 1, Timeout) \in 0..Timeout
    BY <2>2, ConstantTypes DEF Smaller
  <2>4. u[k] \in [id : Nat, total : Nat, bodies : [S -> Payloads], len : Nat, age : 0..Timeout]
    BY <2>1, <2>3, <1>2
  <2> QED BY <2>2, <2>4 DEF PartialMessages
<1>6. u \in Seq(PartialMessages) /\ Len(u) = Len(t)
  <2>1. u \in [1..Len(t) -> PartialMessages]
    BY <1>3, <1>4, <1>5
  <2> QED BY <2>1, <1>1
<1>7. ASSUME NEW k \in 1..Len(t) PROVE ProperPart(u[k])
  <2>1. ProperPart(t[k])
    BY DEF Sound
  <2>2. Source(u[k]) = Source(t[k])
    BY <1>5 DEF Source
  <2> QED BY <2>1, <2>2, <1>5 DEF ProperPart
<1>8. ASSUME NEW j \in 1..Len(t), NEW k \in 1..Len(t), u[j].id = u[k].id PROVE j = k
  BY <1>5, <1>8 DEF Sound, Sorted
<1>9. ASSUME NEW j \in 1..Len(t), NEW k \in 1..Len(t), j < k PROVE u[j].age >= u[k].age
  <2>1. t[j].age >= t[k].age
    BY <1>9 DEF Sound, Sorted
  <2>2. \A a, b \in 0..Timeout : a >= b => Smaller(a + 1, Timeout) >= Smaller(b + 1, Timeout)
    BY ConstantTypes DEF Smaller
  <2>3. t[j].age \in 0..Timeout /\ t[k].age \in 0..Timeout
        /\ u[j].age = Smaller(t[j].age + 1, Timeout) /\ u[k].age = Smaller(t[k].age + 1, Timeout)
    BY <1>5
  <2> QED BY <2>1, <2>2, <2>3
<1>10. Sorted(u)
  BY <1>6, <1>8, <1>9 DEF Sorted
<1>11. Sound(u)
  BY <1>1, <1>6, <1>7, <1>10 DEF Sound
<1> QED BY <1>1, <1>3, <1>5, <1>11 DEF u

\* The five things that can happen to the table.
LEMMA TableSteps ==
  ASSUME [Next]_vars
  PROVE  \/ partial' = partial
         \/ partial' = <<>> /\ (ReadGap \/ WatchSeesLoss \/ WatchAborts)
         \/ Receive
         \/ Tick
         \/ Elapse
BY DEF Next, vars, Sends, BeginSend, LockSink, WriteFragment, WriteFails, Disturbs, Reassembles,
       ReadGap, HandOver, Notify, Watches, WatchSeesLoss, WatchLags, WatchAborts, Aborted, taskVars,
       Recv, RecvBegins, RecvParks, RecvMessage, RecvClosed, RecvWoken, RecvDropped

\* The table stays sound, whatever happens.
LEMMA TableKeeps ==
  ASSUME MaxMessages <= IdSpace, Parts, [Next]_vars
  PROVE  Sound(partial)'
<1>1. Keeps /\ Sound(partial)
  BY SendKeeps DEF Parts
<1>2. SUFFICES Sound(partial')
  <2>1. ASSUME NEW t, t = partial', Sound(t) PROVE Sound(partial)'
    <3>1. Sound(t)'
      BY <2>1, <1>1, SoundStays
    <3> QED BY <3>1, <2>1 DEF Sound
  <2> QED BY <2>1
<1>3. CASE partial' = partial
  BY <1>1, <1>3
<1>4. CASE partial' = <<>>
  BY <1>4, EmptyIsSound
<1>5. CASE Receive
  BY <1>1, <1>5, ReceiveIs, AcceptedIsSane DEF Sane
<1>6. CASE Tick
  BY <1>1, <1>6, AliveIs DEF Tick
<1>7. CASE Elapse
  BY <1>1, <1>7, ElapsedIsSound DEF Elapse
<1> QED BY <1>3, <1>4, <1>5, <1>6, <1>7, TableSteps

-----------------------------------------------------------------------------
(* The queue of complete messages *)

\* The queue with the message that waits for it.
LEMMA QueuedIs ==
  ASSUME NEW q \in Seq(Payloads), NEW w \in Seq(Payloads), Len(w) <= 1
  PROVE  /\ q \o w \in Seq(Payloads) /\ DOMAIN (q \o w) = 1..Len(q) + Len(w)
         /\ Len(q \o w) = Len(q) + Len(w) /\ Len(q) \in Nat /\ Len(w) \in Nat
         /\ \A k \in 1..Len(q) : (q \o w)[k] = q[k]
         /\ w = <<>> => q \o w = q
         /\ w # <<>> => Len(w) = 1 /\ (q \o w)[Len(q) + 1] = w[1]
<1>1. Len(q) \in Nat /\ Len(w) \in Nat /\ (w # <<>> => Len(w) = 1)
  <2>1. Len(q) \in Nat /\ Len(w) \in Nat
    BY LenProperties
  <2>2. w # <<>> => Len(w) # 0
    BY EmptySeq
  <2>3. \A a \in Nat : a <= 1 /\ a # 0 => a = 1
    OBVIOUS
  <2>4. w # <<>> => Len(w) = 1
    BY <2>1, <2>2, <2>3, Zenon
  <2> QED BY <2>1, <2>4
<1>2. /\ q \o w \in Seq(Payloads) /\ Len(q \o w) = Len(q) + Len(w)
      /\ \A i \in 1..Len(q) + Len(w) : (q \o w)[i] = IF i <= Len(q) THEN q[i] ELSE w[i - Len(q)]
  BY ConcatProperties
<1>3. \A k \in 1..Len(q) : (q \o w)[k] = q[k]
  BY <1>1, <1>2
<1>4. w # <<>> => (q \o w)[Len(q) + 1] = w[1]
  <2> SUFFICES ASSUME w # <<>> PROVE (q \o w)[Len(q) + 1] = w[1]
    OBVIOUS
  <2>1. Len(q) + 1 \in 1..Len(q) + Len(w) /\ ~(Len(q) + 1 <= Len(q)) /\ Len(q) + 1 - Len(q) = 1
    BY <1>1
  <2> QED BY <2>1, <1>2
<1>5. w = <<>> => q \o w = q
  BY ConcatEmptySeq
<1>6. DOMAIN (q \o w) = 1..Len(q) + Len(w)
  BY <1>2, LenProperties
<1> QED BY <1>1, <1>2, <1>3, <1>4, <1>5, <1>6

\* A queue of messages that were sent.
AllSent(q) == \A k \in 1..Len(q) : \E m \in Range(order) : q[k] = Payload(m, sent[m])

\* The ways in which the queue and what the application has change.
Arrives ==
    /\ handing = <<>> /\ inbound' = inbound /\ handing' # <<>>
    /\ open' = open /\ Receive
    /\ Ours(Head(wire)) /\ Heard(partial, Head(wire))
    /\ handing' = << Payload(Head(wire).of, sent[Head(wire).of]) >>
    /\ latest' = latest /\ received' = received

Reads ==
    /\ RecvMessage
    /\ inbound # <<>> /\ inbound' = Tail(inbound) /\ handing' = handing
    /\ latest' = MessageOf(Head(inbound)) /\ received' = received \cup {latest'}

Stays ==
    /\ latest' = latest /\ received' = received
    /\ \/ inbound' = inbound /\ handing' = handing
       \/ inbound' = inbound \o handing /\ handing' = <<>> /\ Len(inbound) < QueueDepth /\ open

Drops ==
    /\ latest' = latest /\ received' = received
    /\ inbound' = inbound /\ handing' = <<>> /\ ~open'

\* The queue and what the application has change in one of these ways.
LEMMA QueueSteps ==
  ASSUME MaxMessages <= IdSpace, Parts, [Next]_vars
  PROVE  Arrives \/ Reads \/ Stays \/ Drops
<1>1. CASE Receive
  <2>1. open' = open /\ inbound' = inbound /\ latest' = latest /\ received' = received
    BY <1>1 DEF Receive, readVars
  <2>2. /\ handing = <<>>
        /\ \/ handing' = <<>>
           \/ /\ Ours(Head(wire)) /\ Heard(partial, Head(wire))
              /\ handing' = Accepted(partial, Head(wire)).done
    BY <1>1, ReceiveIs
  <2>3. Heard(partial, Head(wire)) => Sane(partial, Head(wire), Accepted(partial, Head(wire)))
    BY AcceptedIsSane
  <2>4. \/ handing' = handing
        \/ /\ Ours(Head(wire)) /\ Heard(partial, Head(wire))
           /\ handing' = << Payload(Head(wire).of, sent[Head(wire).of]) >>
    BY <2>2, <2>3 DEF Sane
  <2>5. << Payload(Head(wire).of, sent[Head(wire).of]) >> # <<>>
    OBVIOUS
  <2> QED BY <1>1, <2>1, <2>2, <2>4, <2>5 DEF Arrives, Stays
<1>2. CASE HandOver
  BY <1>2 DEF HandOver, Stays, readVars
<1>3. CASE RecvMessage
  BY <1>3 DEF RecvMessage, taskVars, Reads
<1>4. CASE WatchSeesLoss \/ WatchAborts
  BY <1>4 DEF WatchSeesLoss, WatchAborts, Aborted, Drops, readVars
<1>5. CASE ~(Receive \/ HandOver \/ RecvMessage \/ WatchSeesLoss \/ WatchAborts)
  BY <1>5 DEF Stays, Next, vars, Sends, BeginSend, LockSink, WriteFragment, WriteFails, Disturbs,
              Reassembles, ReadGap, Tick, Elapse, Notify, Watches, WatchLags, taskVars, readVars,
              Recv, RecvBegins, RecvParks, RecvClosed, RecvWoken, RecvDropped
<1> QED BY <1>1, <1>2, <1>3, <1>4, <1>5

\* The queue holds nothing but what was sent, whatever happens.
LEMMA QueueKeeps ==
  ASSUME MaxMessages <= IdSpace, Parts, [Next]_vars
  PROVE  QueueTypes' /\ QueuedWasSent'
<1>1. /\ handing \in Seq(Payloads) /\ Len(handing) <= 1 /\ inbound \in Seq(Payloads)
      /\ Len(inbound) <= QueueDepth /\ received \subseteq Nat /\ latest \in Nat
      /\ received \subseteq DOMAIN sent /\ latest \in received \cup {0}
      /\ Len(inbound) \in Nat /\ Len(handing) \in Nat
  BY LenProperties DEF Parts, QueueTypes, QueuedWasSent
<1>2. Keeps
  BY SendKeeps DEF Parts
<1>3. /\ Queued \in Seq(Payloads) /\ DOMAIN Queued = 1..Len(inbound) + Len(handing)
      /\ Len(Queued) = Len(inbound) + Len(handing)
      /\ \A k \in 1..Len(inbound) : Queued[k] = inbound[k]
      /\ handing # <<>> => Len(handing) = 1 /\ Queued[Len(inbound) + 1] = handing[1]
  BY <1>1, QueuedIs DEF Queued
<1>4. AllSent(inbound) /\ AllSent(handing)
  <2>1. \A k \in DOMAIN Queued : \E m \in Range(order) : Queued[k] = Payload(m, sent[m])
    BY DEF Parts, QueuedWasSent
  <2>2. \A k \in 1..Len(inbound) : k \in DOMAIN Queued
    BY <1>1, <1>3
  <2>3. AllSent(inbound)
    BY <2>1, <2>2, <1>3 DEF AllSent
  <2>4. CASE handing = <<>>
    <3>1. Len(handing) = 0
      BY <2>4, EmptySeq
    <3> QED BY <2>3, <3>1 DEF AllSent
  <2>5. CASE handing # <<>>
    <3>1. Len(inbound) + 1 \in DOMAIN Queued /\ \A k \in 1..Len(handing) : k = 1
      BY <2>5, <1>1, <1>3
    <3> QED BY <2>1, <2>3, <2>5, <3>1, <1>3 DEF AllSent
  <2> QED BY <2>4, <2>5
<1>5. QueueTypes' /\ AllSent(inbound') /\ AllSent(handing')
      /\ received' \subseteq DOMAIN sent /\ latest' \in received' \cup {0}
  <2>1. CASE Arrives
    <3> DEFINE f == Head(wire)
               p == Payload(f.of, sent[f.of])
    <3>1. /\ handing' = <<p>> /\ inbound' = inbound /\ latest' = latest /\ received' = received
          /\ f.of \in Range(order) /\ f.of \in Nat /\ sent[f.of] \in Nat
      <4>1. Heard(partial, f)
        BY <2>1 DEF Arrives
      <4>2. f.of \in Nat /\ sent[f.of] \in Nat /\ f.of \in Range(order)
        BY <4>1, GenuineIs DEF Heard
      <4> QED BY <2>1, <4>2 DEF Arrives
    <3>2. p \in Payloads
      BY <3>1, PayloadIs
    <3>3. AllSent(<<p>>)
      <4>1. Len(<<p>>) = 1 /\ <<p>>[1] = p /\ \A k \in 1..1 : k = 1
        OBVIOUS
      <4>2. p = Payload(f.of, sent[f.of])
        OBVIOUS
      <4> HIDE DEF p
      <4> QED BY <3>1, <4>1, <4>2 DEF AllSent
    <3> HIDE DEF p
    <3>4. <<p>> \in Seq(Payloads) /\ Len(<<p>>) <= 1
      BY <3>2
    <3> QED BY <1>1, <1>4, <3>1, <3>3, <3>4 DEF QueueTypes
  <2>2. CASE Reads
    <3>1. /\ inbound # <<>> /\ inbound' = Tail(inbound) /\ handing' = handing
          /\ latest' = MessageOf(Head(inbound)) /\ received' = received \cup {latest'}
      BY <2>2 DEF Reads
    <3>2. /\ Tail(inbound) \in Seq(Payloads) /\ Len(Tail(inbound)) = Len(inbound) - 1
          /\ Head(inbound) = inbound[1] /\ 1 \in 1..Len(inbound)
          /\ \A j \in 1..Len(inbound) - 1 : Tail(inbound)[j] = inbound[j + 1]
      BY <3>1, <1>1, EndsAre
    <3>3. \A j \in 1..Len(inbound) - 1 : j + 1 \in 1..Len(inbound)
      BY <1>1
    <3>4. AllSent(Tail(inbound))
      BY <3>2, <3>3, <1>4 DEF AllSent
    <3>5. PICK m \in Range(order) : Head(inbound) = Payload(m, sent[m])
      BY <3>2, <1>4 DEF AllSent
    <3>6. m \in DOMAIN sent /\ sent \in Seq(Nat)
      BY DEF Parts, SendInv, SendTypes, TurnsAreOnce
    <3>7. latest' \in DOMAIN sent /\ latest' \in Nat
      BY <3>1, <3>5, <3>6, MessageOfIs, LenProperties
    <3>8. Len(Tail(inbound)) <= QueueDepth
      BY <3>2, <1>1, ConstantTypes
    <3> QED BY <3>1, <3>2, <3>4, <3>7, <3>8, <1>1, <1>4 DEF QueueTypes
  <2>3. CASE Stays
    <3>1. CASE inbound' = inbound /\ handing' = handing
      BY <2>3, <3>1, <1>1, <1>4 DEF Stays, QueueTypes
    <3>2. CASE inbound' = inbound \o handing /\ handing' = <<>> /\ Len(inbound) < QueueDepth
      <4>1. AllSent(Queued)
        BY <1>3 DEF Parts, QueuedWasSent, AllSent
      <4>2. Len(Queued) <= QueueDepth /\ <<>> \in Seq(Payloads) /\ Len(<<>>) = 0
        BY <3>2, <1>1, <1>3, EmptySeq, ConstantTypes
      <4>3. inbound' = Queued
        BY <3>2 DEF Queued
      <4>4. AllSent(<<>>)
        BY <4>2 DEF AllSent
      <4> QED BY <2>3, <3>2, <4>1, <4>2, <4>3, <4>4, <1>1, <1>3 DEF Stays, QueueTypes
    <3> QED BY <2>3, <3>1, <3>2 DEF Stays
  <2>4. CASE Drops
    <3>1. <<>> \in Seq(Payloads) /\ Len(<<>>) = 0
      BY EmptySeq
    <3>2. AllSent(<<>>)
      BY <3>1 DEF AllSent
    <3> QED BY <2>4, <3>1, <3>2, <1>1, <1>4 DEF Drops, QueueTypes
  <2> QED BY <2>1, <2>2, <2>3, <2>4, QueueSteps
<1>6. /\ DOMAIN Queued' = 1..Len(inbound') + Len(handing')
      /\ Len(inbound') \in Nat /\ Len(handing') \in Nat
      /\ \A k \in 1..Len(inbound') : Queued'[k] = inbound'[k]
      /\ handing' = <<>> => Queued' = inbound' /\ Len(handing') = 0
      /\ handing' # <<>> => Len(handing') = 1 /\ Queued'[Len(inbound') + 1] = handing'[1]
  BY <1>5, QueuedIs, EmptySeq DEF QueueTypes, Queued
<1>7. ASSUME NEW k \in DOMAIN Queued'
      PROVE  \E m \in Range(order') : Queued'[k] = Payload(m, sent'[m])
  <2>1. \E m \in Range(order) : Queued'[k] = Payload(m, sent[m])
    <3>1. CASE k \in 1..Len(inbound')
      BY <3>1, <1>5, <1>6 DEF AllSent
    <3>2. CASE k \notin 1..Len(inbound')
      <4>1. handing' # <<>> /\ k = Len(inbound') + 1 /\ 1 \in 1..Len(handing')
        <5>1. handing' = <<>> => k \in 1..Len(inbound')
          BY <1>6, <1>7
        <5>2. handing' # <<>>
          BY <5>1, <3>2
        <5>3. Len(handing') = 1 /\ k \in 1..Len(inbound') + 1
          BY <5>2, <1>6, <1>7
        <5> QED BY <5>2, <5>3, <3>2, <1>6
      <4> QED BY <4>1, <1>5, <1>6 DEF AllSent
    <3> QED BY <3>1, <3>2
  <2>2. PICK m \in Range(order) : Queued'[k] = Payload(m, sent[m])
    BY <2>1
  <2>3. m \in Range(order') /\ sent'[m] = sent[m]
    BY <1>2 DEF Keeps
  <2> QED BY <2>2, <2>3
<1>8. received' \subseteq DOMAIN sent'
  BY <1>2, <1>5 DEF Keeps
<1> QED BY <1>5, <1>7, <1>8 DEF QueuedWasSent

-----------------------------------------------------------------------------
(* What the application gets was sent *)

\* A step leaves everything else of its type.
LEMMA RestKeeps ==
  ASSUME Parts, [Next]_vars
  PROVE  RestTypes'
<1>1. RestTypes
  BY DEF Parts
<1>2. TimedOut \subseteq Nat
  <2>1. \A p \in Range(partial) : p.id \in Nat
    <3>1. partial \in Seq(PartialMessages)
      BY DEF Parts, Sound
    <3>2. Range(partial) \subseteq PartialMessages
      BY <3>1, RangeIs
    <3> QED BY <3>2 DEF PartialMessages
  <2> QED BY <2>1 DEF TimedOut
<1>3. CASE Receive
  <2>1. expired' = expired \/ expired' = expired \cup TimedOut
    BY <1>3 DEF Receive
  <2>2. expired' \subseteq Nat
    BY <1>1, <1>2, <2>1 DEF RestTypes
  <2> QED BY <1>1, <1>3, <2>2 DEF Receive, RestTypes, signalVars, readVars
<1>4. CASE Tick
  <2>1. expired' \subseteq Nat
    BY <1>1, <1>2, <1>4 DEF RestTypes, Tick
  <2> QED BY <1>1, <1>4, <2>1 DEF Tick, RestTypes, signalVars, readVars
<1>5. CASE Sends \/ Disturbs \/ UNCHANGED vars
  BY <1>1, <1>5 DEF Sends, BeginSend, LockSink, WriteFragment, WriteFails, Disturbs, vars, taskVars,
       signalVars, readVars, RestTypes
<1>6. CASE ReadGap \/ HandOver \/ Elapse
  BY <1>1, <1>6 DEF ReadGap, HandOver, Elapse, SetsFlag, taskVars, signalVars, readVars, RestTypes
<1>7. CASE \E who \in {"reassembly", "watcher"} : Notify(who)
  BY <1>1, <1>7 DEF Notify, taskVars, readVars, RestTypes
<1>8. CASE Watches
  BY <1>1, <1>8 DEF Watches, WatchSeesLoss, WatchLags, WatchAborts, Aborted, SetsFlag, signalVars,
       readVars, RestTypes
<1>9. CASE Recv \/ RecvDropped
  <2>1. CASE RecvBegins
    BY <1>1, <2>1 DEF RecvBegins, taskVars, RestTypes
  <2>2. CASE RecvParks \/ RecvMessage \/ RecvClosed \/ RecvWoken \/ RecvDropped
    BY <1>1, <2>2 DEF RecvParks, RecvMessage, RecvClosed, RecvWoken, RecvDropped, taskVars,
         signalVars, RestTypes
  <2> QED BY <1>9, <2>1, <2>2 DEF Recv
<1> QED BY <1>3, <1>4, <1>5, <1>6, <1>7, <1>8, <1>9 DEF Next, Reassembles

\* At first nothing is sent, held or queued.
LEMMA FaithfulAtFirst == Init => FaithfulInv
<1> SUFFICES ASSUME Init PROVE FaithfulInv
  OBVIOUS
<1>1. /\ \A S : <<>> \in Seq(S)
      /\ Len(<<>>) = 0 /\ DOMAIN <<>> = {} /\ Range(<<>>) = {}
  <2>1. \A S : <<>> \in Seq(S)
    BY EmptySeq
  <2>2. Len(<<>>) = 0 /\ DOMAIN <<>> = {}
    BY <2>1, EmptySeq, LenProperties
  <2> QED BY <2>1, <2>2 DEF Range
<1>2. TypeOK
  <2>1. lock \in Handles \cup {NoHandle} /\ unsent \in [Handles -> Seq(Fragments)]
    BY <1>1 DEF Init
  <2>2. faults \in [FaultKinds -> Nat]
    BY DEF Init
  <2>3. /\ sent = <<>> /\ order = <<>> /\ whole = {} /\ wire = <<>> /\ partial = <<>> /\ handing = <<>>
        /\ inbound = <<>> /\ received = {} /\ latest = 0
        /\ Len(partial) = 0 /\ Len(handing) = 0 /\ Len(inbound) = 0 /\ Range(partial) = {}
    BY <1>1 DEF Init
  <2>4. RestTypes
    BY DEF Init, RestTypes
  <2>5. TableType(partial) /\ QueueTypes
    BY <1>1, <2>3, ConstantTypes DEF TableType, QueueTypes
  <2>6. sent \in Seq(Nat) /\ order \in Seq(Nat) /\ whole \subseteq Nat
        /\ wire \in Seq(Fragments \cup {Gap, TooShort})
    BY <1>1, <2>3
  <2> QED BY <2>1, <2>2, <2>4, <2>5, <2>6 DEF TypeOK, RestTypes, TableType, QueueTypes
<1>3. SendsAreApart
  BY <1>1, ConstantTypes DEF Init, SendsAreApart
<1>4. TurnsAreOnce
  BY <1>1 DEF Init, TurnsAreOnce
<1>5. WireIsKnown /\ PartsOfOne
  BY <1>1 DEF Init, WireIsKnown, PartsOfOne
<1>6. QueuedWasSent
  <2>1. Queued = <<>>
    BY <1>1, ConcatEmptySeq DEF Init, Queued
  <2> QED BY <1>1, <2>1 DEF Init, QueuedWasSent
<1> QED BY <1>2, <1>3, <1>4, <1>5, <1>6 DEF FaithfulInv

\* No step of either device, of the radio or of the drivers mixes two messages.
LEMMA FaithfulStep ==
  ASSUME MaxMessages <= IdSpace, FaithfulInv, [Next]_vars
  PROVE  FaithfulInv'
<1>1. Parts
  BY PartsAre
<1>2. SendInv'
  BY <1>1, SendKeeps DEF Parts
<1>3. wire' \in Seq(Items) /\ faults' \in [FaultKinds -> Nat] /\ WireIsKnown'
  BY <1>1, WireKeeps
<1>4. Sound(partial)'
  BY <1>1, TableKeeps
<1>5. QueueTypes' /\ QueuedWasSent'
  BY <1>1, QueueKeeps
<1>6. RestTypes'
  BY <1>1, RestKeeps
<1>7. Parts'
  BY <1>2, <1>3, <1>4, <1>5, <1>6 DEF Parts, Items, Fragments
<1> QED BY <1>7, PartsAreNext

\* While no id is used twice, every fragment that is written, in flight, held
\* or joined belongs to the message it names.
THEOREM FaithfulAlways == MaxMessages <= IdSpace => (Spec => []FaithfulInv)
<1> SUFFICES ASSUME MaxMessages <= IdSpace PROVE Spec => []FaithfulInv
  OBVIOUS
<1>1. FaithfulInv /\ [Next]_vars => FaithfulInv'
  BY FaithfulStep
<1> QED BY <1>1, FaithfulAtFirst, PTL DEF Spec

\* The types, and the bounds on the reassembly table and on the queue behind it
\* (TypeOK; reassembly.rs, max_concurrent_reassemblies; inbound_queue_depth).
THEOREM StreamTypes == MaxMessages <= IdSpace => (Spec => []TypeOK)
<1> SUFFICES ASSUME MaxMessages <= IdSpace PROVE Spec => []TypeOK
  OBVIOUS
<1>1. FaithfulInv => TypeOK
  BY DEF FaithfulInv
<1> QED BY <1>1, FaithfulAlways, PTL

\* recv returns nothing that was not sent, byte for byte: no loss, repetition,
\* reordering, foreign write or aborted send makes the reassembler join
\* fragments of two messages (DeliveredWasSent).
THEOREM StreamDeliversWhatWasSent == MaxMessages <= IdSpace => (Spec => []DeliveredWasSent)
<1> SUFFICES ASSUME MaxMessages <= IdSpace PROVE Spec => []DeliveredWasSent
  OBVIOUS
<1>1. FaithfulInv => DeliveredWasSent
  <2> SUFFICES ASSUME FaithfulInv PROVE DeliveredWasSent
    OBVIOUS
  <2>1. sent \in Seq(Nat) /\ received \subseteq DOMAIN sent /\ Range(order) \subseteq DOMAIN sent
        /\ \A k \in DOMAIN Queued : \E m \in Range(order) : Queued[k] = Payload(m, sent[m])
    BY DEF FaithfulInv, TypeOK, QueuedWasSent, TurnsAreOnce
  <2>2. 0 \notin DOMAIN sent
    BY <2>1, LenProperties
  <2>3. ASSUME NEW k \in DOMAIN Queued PROVE MessageOf(Queued[k]) # 0
    <3>1. PICK m \in DOMAIN sent : Queued[k] = Payload(m, sent[m])
      BY <2>1
    <3> QED BY <3>1, <2>1, <2>2, MessageOfIs
  <2> QED BY <2>1, <2>2, <2>3 DEF DeliveredWasSent
<1> QED BY <1>1, FaithfulAlways, PTL

-----------------------------------------------------------------------------
(* What has arrived *)

\* MessageOf, of what was sent so far; and Arrivals.
SenderOf(s, payload) ==
    LET senders == {m \in DOMAIN s : payload = Payload(m, s[m])}
    IN  IF senders = {} THEN 0 ELSE CHOOSE m \in senders : \A n \in senders : m >= n

ListOf(s, l, q) == (IF l = 0 THEN <<>> ELSE <<l>>) \o [k \in DOMAIN q |-> SenderOf(s, q[k])]

\* These are MessageOf and Arrivals, before and after a step.
LEMMA ArrivalsAre ==
  /\ \A payload : MessageOf(payload) = SenderOf(sent, payload)
  /\ \A payload : MessageOf(payload)' = SenderOf(sent', payload)
  /\ Arrivals = ListOf(sent, latest, Queued)
  /\ Arrivals' = ListOf(sent', latest', Queued')
<1>1. /\ \A payload : MessageOf(payload) = SenderOf(sent, payload)
      /\ \A payload : MessageOf(payload)' = SenderOf(sent', payload)
  BY DEF MessageOf, SenderOf
<1>2. Arrivals = ListOf(sent, latest, Queued)
  BY <1>1 DEF Arrivals, ListOf
<1>3. Arrivals' = ListOf(sent', latest', Queued')
  BY DEF Arrivals, ListOf, MessageOf, SenderOf
<1> QED BY <1>1, <1>2, <1>3

NoneEmpty(s) == s \in Seq(Nat) /\ \A m \in DOMAIN s : s[m] # 0

\* A message that is not empty is told from all others.
LEMMA SenderOfIs ==
  ASSUME NEW s, NoneEmpty(s), NEW m \in DOMAIN s
  PROVE  SenderOf(s, Payload(m, s[m])) = m
<1> DEFINE P == Payload(m, s[m])
           senders == {n \in DOMAIN s : P = Payload(n, s[n])}
<1>1. s \in Seq(Nat) /\ DOMAIN s = 1..Len(s) /\ Len(s) \in Nat /\ m \in senders
  BY LenProperties DEF NoneEmpty
<1>2. ASSUME NEW n \in senders PROVE n = m
  <2>1. /\ n \in Nat /\ m \in Nat /\ s[n] \in Nat /\ s[m] \in Nat /\ s[m] # 0 /\ s[n] # 0
    BY <1>1, ElementOfSeq DEF NoneEmpty
  <2>5. \A x \in Nat : x # 0 => 1 \in 1..x
    OBVIOUS
  <2>2. P[1] = <<m, 1>>
    BY <2>1, <2>5, PayloadIs
  <2>3. P = Payload(n, s[n])
    OBVIOUS
  <2>4. P[1] = <<n, 1>>
    BY <2>1, <2>3, <2>5, PayloadIs
  <2> QED BY <2>2, <2>4
<1>3. senders = {m}
  BY <1>1, <1>2
<1>4. SenderOf(s, P) = CHOOSE x \in {m} : \A y \in {m} : x >= y
  BY <1>3 DEF SenderOf
<1>5. \E x \in {m} : \A y \in {m} : x >= y
  BY <1>1
<1> QED BY <1>4, <1>5

\* One place of Arrivals after the other.
LEMMA ListOfIs ==
  ASSUME NEW s, NEW l, NEW q \in Seq(Payloads)
  PROVE  LET b == IF l = 0 THEN 0 ELSE 1 IN
         /\ Len(q) \in Nat /\ DOMAIN ListOf(s, l, q) = 1..b + Len(q)
         /\ l # 0 => ListOf(s, l, q)[1] = l
         /\ \A k \in 1..Len(q) : ListOf(s, l, q)[b + k] = SenderOf(s, q[k])
<1> DEFINE a == IF l = 0 THEN <<>> ELSE <<l>>
           c == [k \in DOMAIN q |-> SenderOf(s, q[k])]
           S == {l} \cup {SenderOf(s, q[k]) : k \in DOMAIN q}
           b == IF l = 0 THEN 0 ELSE 1
<1>1. DOMAIN q = 1..Len(q) /\ Len(q) \in Nat
  BY LenProperties
<1>2. a \in Seq(S) /\ Len(a) = b /\ (l # 0 => a[1] = l)
  <2>1. CASE l = 0
    BY <2>1, EmptySeq
  <2>2. CASE l # 0
    BY <2>2
  <2> QED BY <2>1, <2>2
<1>3. c \in Seq(S) /\ Len(c) = Len(q) /\ \A k \in 1..Len(q) : c[k] = SenderOf(s, q[k])
  <2>1. c \in [1..Len(q) -> S]
    BY <1>1
  <2>2. \A k \in 1..Len(q) : c[k] = SenderOf(s, q[k])
    BY <1>1
  <2> HIDE DEF c, S
  <2> QED BY <2>1, <2>2, <1>1
<1> HIDE DEF a, c, S
<1>4. /\ a \o c \in Seq(S) /\ Len(a \o c) = Len(a) + Len(c)
      /\ \A i \in 1..Len(a) + Len(c) : (a \o c)[i] = IF i <= Len(a) THEN a[i] ELSE c[i - Len(a)]
  <2>1. a \in Seq(S) /\ c \in Seq(S)
    BY <1>2, <1>3
  <2> QED BY ONLY <2>1, ConcatProperties
<1>5. DOMAIN (a \o c) = 1..b + Len(q)
  BY <1>2, <1>3, <1>4, LenProperties
<1>6. ASSUME l # 0 PROVE (a \o c)[1] = l
  <2>1. 1 \in 1..Len(a) + Len(c) /\ 1 <= Len(a)
    BY <1>1, <1>2, <1>3, <1>6
  <2> QED BY <2>1, <1>2, <1>4, <1>6
<1>7. ASSUME NEW k \in 1..Len(q) PROVE (a \o c)[b + k] = SenderOf(s, q[k])
  <2>1. b + k \in 1..Len(a) + Len(c) /\ ~(b + k <= Len(a)) /\ b + k - Len(a) = k
    BY <1>1, <1>2, <1>3
  <2> QED BY <2>1, <1>3, <1>4
<1>8. ListOf(s, l, q) = a \o c
  BY DEF ListOf, a, c
<1> QED BY <1>1, <1>5, <1>6, <1>7, <1>8

\* The four things that can happen to the queue.
LEMMA QueuedSteps ==
  ASSUME MaxMessages <= IdSpace, Parts, [Next]_vars
  PROVE  /\ Queued \in Seq(Payloads) /\ Queued' \in Seq(Payloads)
         /\ \/ Queued' = Queued /\ latest' = latest /\ received' = received
            \/ /\ Arrives /\ latest' = latest /\ received' = received
               /\ Queued' = Append(Queued, Payload(Head(wire).of, sent[Head(wire).of]))
            \/ /\ Queued # <<>> /\ Queued' = Tail(Queued)
               /\ latest' = MessageOf(Queued[1]) /\ received' = received \cup {latest'}
            \/ /\ ~open' /\ latest' = latest /\ received' = received
               /\ Len(Queued') <= Len(Queued) /\ \A k \in 1..Len(Queued') : Queued'[k] = Queued[k]
<1>1. /\ handing \in Seq(Payloads) /\ Len(handing) <= 1 /\ inbound \in Seq(Payloads)
      /\ handing' \in Seq(Payloads) /\ inbound' \in Seq(Payloads)
  BY QueueKeeps DEF Parts, QueueTypes
<1>2. Queued \in Seq(Payloads) /\ Queued' \in Seq(Payloads)
  BY <1>1, ConcatProperties DEF Queued
<1>3. CASE Arrives
  <2>1. /\ handing = <<>> /\ inbound' = inbound /\ latest' = latest /\ received' = received
        /\ handing' = << Payload(Head(wire).of, sent[Head(wire).of]) >>
    BY <1>3 DEF Arrives
  <2>2. Queued = inbound
    BY <2>1, <1>1, ConcatEmptySeq DEF Queued
  <2>3. Queued' = inbound \o << Payload(Head(wire).of, sent[Head(wire).of]) >>
    BY <2>1 DEF Queued
  <2>4. Queued' = Append(Queued, Payload(Head(wire).of, sent[Head(wire).of]))
    <3>1. \A p : inbound \o <<p>> = Append(inbound, p)
      BY <1>1
    <3> QED BY <2>2, <2>3, <3>1
  <2> QED BY <2>1, <2>4, <1>2, <1>3
<1>4. CASE Reads
  <2>1. /\ inbound # <<>> /\ inbound' = Tail(inbound) /\ handing' = handing
        /\ latest' = MessageOf(Head(inbound)) /\ received' = received \cup {latest'}
    BY <1>4 DEF Reads
  <2>2. Head(inbound) = inbound[1] /\ 1 \in 1..Len(inbound)
    BY <2>1, <1>1, EndsAre, LenProperties
  <2>3. Queued # <<>> /\ Queued[1] = inbound[1]
    <3>1. Queued[1] = inbound[1] /\ Len(Queued) > 0
      BY <2>2, <1>1, QueuedIs, LenProperties DEF Queued
    <3> QED BY <3>1, EmptySeq
  <2>4. Queued' = Tail(Queued)
    <3>1. Tail(inbound \o handing) = Tail(inbound) \o handing
      BY <2>1, <1>1
    <3> QED BY <3>1, <2>1 DEF Queued
  <2> QED BY <2>1, <2>2, <2>3, <2>4, <1>2
<1>5. CASE Stays
  <2>1. CASE inbound' = inbound /\ handing' = handing
    BY <2>1, <1>2, <1>5 DEF Stays, Queued
  <2>2. CASE inbound' = inbound \o handing /\ handing' = <<>>
    <3>1. Queued' = inbound'
      BY <2>2, <1>1, ConcatEmptySeq DEF Queued
    <3> QED BY <3>1, <2>2, <1>2, <1>5 DEF Stays, Queued
  <2> QED BY <2>1, <2>2, <1>5 DEF Stays
<1>6. CASE Drops
  <2>1. Queued' = inbound
    BY <1>1, <1>6, ConcatEmptySeq DEF Queued, Drops
  <2>2. Len(Queued) = Len(inbound) + Len(handing) /\ Len(inbound) \in Nat /\ Len(handing) \in Nat
        /\ \A k \in 1..Len(inbound) : Queued[k] = inbound[k]
    BY <1>1, QueuedIs DEF Queued
  <2>3. Len(Queued') <= Len(Queued) /\ \A k \in 1..Len(Queued') : Queued'[k] = Queued[k]
    BY <2>1, <2>2
  <2> QED BY <2>3, <1>2, <1>6 DEF Drops
<1> QED BY <1>3, <1>4, <1>5, <1>6, QueueSteps

-----------------------------------------------------------------------------
(* The order of what has arrived and of what is on its way *)

\* The turn of a message that had the sink is its place in the order,
LEMMA TurnIs ==
  ASSUME SendInv, NEW m \in Range(order)
  PROVE  /\ Turn(m) \in 1..Len(order) /\ order[Turn(m)] = m /\ Len(order) \in Nat
         /\ \A k \in 1..Len(order) : order[k] = m => k = Turn(m)
<1>1. order \in Seq(Nat) /\ DOMAIN order = 1..Len(order) /\ Len(order) \in Nat
  BY LenProperties DEF SendInv, SendTypes
<1> DEFINE T == {k \in DOMAIN order : order[k] = m}
<1>2. T \in SUBSET Nat /\ T # {}
  BY <1>1 DEF Range
<1>3. Min(T) \in T
  BY <1>2, MinIsLeast
<1> QED BY <1>1, <1>3 DEF Turn, SendInv, TurnsAreOnce

\* and the turns of others do not change it.
LEMMA TurnStays ==
  ASSUME SendInv, [Next]_vars
  PROVE  /\ \A m \in Range(order) : Turn(m)' = Turn(m) /\ m \in Range(order')
         /\ order' = order \/ \E h \in Handles : LockSink(h)
<1>1. order \in Seq(Nat) /\ DOMAIN order = 1..Len(order) /\ Len(order) \in Nat
  BY LenProperties DEF SendInv, SendTypes
<1>2. order' = order \/ \E h \in Handles : LockSink(h)
  BY DEF Next, vars, sendVars, Sends, BeginSend, WriteFragment, WriteFails, Disturbs, Reassembles,
         ReadGap, Receive, HandOver, Tick, Elapse, Notify, Watches, WatchSeesLoss, WatchLags,
         WatchAborts, Recv, RecvBegins, RecvParks, RecvMessage, RecvClosed, RecvWoken, RecvDropped
<1>3. CASE order' = order
  BY <1>3 DEF Turn
<1>4. ASSUME NEW h \in Handles, LockSink(h), NEW m \in Range(order)
      PROVE  Turn(m)' = Turn(m) /\ m \in Range(order')
  <2> DEFINE x == unsent[h][1].of
  <2>1. order' = Append(order, x) /\ x \notin Range(order) /\ x \in Nat /\ Keeps
    <3>1. unsent[h] # <<>>
      BY <1>4 DEF LockSink
    <3> QED BY <3>1, <1>4, LockSinkKeeps, UnsentIs
  <2> HIDE DEF x
  <2>2. /\ DOMAIN order' = 1..Len(order) + 1
        /\ \A k \in 1..Len(order) + 1 : order'[k] = IF k <= Len(order) THEN order[k] ELSE x
    BY <2>1, <1>1, EndsAre, LenProperties
  <2>3. x # m
    BY <2>1
  <2>4. {k \in DOMAIN order' : order'[k] = m} = {k \in DOMAIN order : order[k] = m}
    BY <2>2, <2>3, <1>1
  <2> QED BY <2>1, <2>4 DEF Turn, Keeps
<1> QED BY <1>2, <1>3, <1>4

\* Where what is on the wire stood before, if it was not written just now.
Carried(e) ==
    /\ \A j \in 1..Len(wire') : Ours(wire'[j]) =>
          \/ /\ e[j] \in 1..Len(wire) /\ wire'[j] = wire[e[j]]
             /\ (ReadGap \/ Receive) => e[j] > 1
          \/ \E h \in Handles : /\ WriteFragment(h) \/ WriteFails(h)
                                /\ ~(ReadGap \/ Receive)
                                /\ j = Len(wire') /\ wire'[j] = unsent[h][1]
    /\ faults'["swapped"] = 0 => faults["swapped"] = 0 /\ InStep(e)

\* Every step carries the fragments of the wire, or adds the one written.
LEMMA WireIsCarried ==
  ASSUME Parts, [Next]_vars
  PROVE  \E e \in [1..Len(wire') -> Nat] : Carried(e)
<1>1. /\ wire \in Seq(Items) /\ wire' \in Seq(Items) /\ Len(wire) \in Nat /\ Len(wire') \in Nat
      /\ DOMAIN wire = 1..Len(wire) /\ faults \in [FaultKinds -> Nat]
  BY WireKeeps, LenProperties DEF Parts
<1>2. CASE ReadGap \/ Receive
  <2>1. wire # <<>> /\ wire' = Tail(wire) /\ faults' = faults
    BY <1>2 DEF ReadGap, Receive
  <2>2. /\ Len(wire') = Len(wire) - 1
        /\ \A j \in 1..Len(wire') : wire'[j] = wire[j + 1] /\ j + 1 \in 1..Len(wire) /\ j + 1 > 1
    BY <2>1, <1>1, EndsAre
  <2> DEFINE e == [j \in 1..Len(wire') |-> j + 1]
  <2>3. /\ e \in [1..Len(wire') -> Nat]
        /\ \A j \in 1..Len(wire') : e[j] = j + 1
        /\ \A j, k \in 1..Len(wire') : j < k => e[j] <= e[k]
    BY <1>1
  <2> HIDE DEF e
  <2>4. Carried(e)
    BY <2>1, <2>2, <2>3 DEF Carried, InStep
  <2> QED BY <2>3, <2>4
<1>3. CASE ~(ReadGap \/ Receive) /\ wire' = wire /\ faults'["swapped"] = faults["swapped"]
  <2> DEFINE e == [j \in 1..Len(wire') |-> j]
  <2>1. e \in [1..Len(wire') -> Nat] /\ (\A j \in 1..Len(wire') : e[j] = j)
        /\ \A j, k \in 1..Len(wire') : j < k => e[j] <= e[k]
    BY <1>1
  <2> HIDE DEF e
  <2>2. Carried(e)
    BY <2>1, <1>3 DEF Carried, InStep
  <2> QED BY <2>1, <2>2
<1>4. ASSUME ~(ReadGap \/ Receive), faults'["swapped"] = faults["swapped"],
             NEW h \in Handles, WriteFragment(h) \/ WriteFails(h), unsent[h] # <<>>,
             wire' = Append(wire, Head(unsent[h]))
      PROVE  \E e \in [1..Len(wire') -> Nat] : Carried(e)
  <2> DEFINE x == Head(unsent[h])
  <2>1. x \in Items /\ x = unsent[h][1]
    <3>1. unsent[h] \in Seq(Fragments) /\ 1 \in 1..Len(unsent[h]) /\ x = unsent[h][1]
      BY <1>4, UnsentIs DEF Parts
    <3> QED BY <3>1, ElementOfSeq DEF Items
  <2> HIDE DEF x
  <2>2. wire' = Append(wire, x)
    BY <1>4 DEF x
  <2>3. /\ Len(wire') = Len(wire) + 1
        /\ \A j \in 1..Len(wire) + 1 : wire'[j] = IF j <= Len(wire) THEN wire[j] ELSE x
    BY <2>1, <2>2, <1>1, EndsAre
  <2> DEFINE e == [j \in 1..Len(wire') |-> j]
  <2>4. e \in [1..Len(wire') -> Nat] /\ (\A j \in 1..Len(wire') : e[j] = j)
        /\ \A j, k \in 1..Len(wire') : j < k => e[j] <= e[k]
    BY <1>1
  <2> HIDE DEF e
  <2>5. ASSUME NEW j \in 1..Len(wire')
        PROVE  \/ e[j] \in 1..Len(wire) /\ wire'[j] = wire[e[j]]
               \/ j = Len(wire') /\ wire'[j] = x
    BY <1>1, <2>3, <2>4
  <2>6. Carried(e)
    BY <2>1, <2>4, <2>5, <1>4 DEF Carried, InStep
  <2> QED BY <2>4, <2>6
<1>5. CASE ~(ReadGap \/ Receive) /\ Sends
  <2>1. PICK h \in Handles :
           \/ \E len \in Sizes : BeginSend(h, len)
           \/ LockSink(h) \/ WriteFragment(h) \/ WriteFails(h)
    BY <1>5 DEF Sends
  <2>2. lock = h => unsent[h] # <<>>
    BY ConstantTypes DEF Parts, SendInv, TurnsAreOnce
  <2>3. CASE \E len \in Sizes : BeginSend(h, len)
    BY <2>3, <1>3, <1>5 DEF BeginSend
  <2>4. CASE LockSink(h)
    BY <2>4, <1>3, <1>5 DEF LockSink
  <2>5. CASE WriteFragment(h)
    BY <2>2, <2>5, <1>4, <1>5 DEF WriteFragment
  <2>6. CASE WriteFails(h)
    <3>1. faults'["swapped"] = faults["swapped"]
      <4>1. "failed" \in FaultKinds /\ "swapped" \in FaultKinds /\ Strikes("failed")
        BY <2>6 DEF WriteFails, FaultKinds
      <4> QED BY <4>1, <1>1, StrikeIs
    <3>2. lock = h /\ (wire' = wire \/ wire' = Append(wire, Head(unsent[h])))
      BY <2>6 DEF WriteFails
    <3> QED BY <3>1, <3>2, <2>2, <2>6, <1>3, <1>4, <1>5
  <2> QED BY <2>1, <2>3, <2>4, <2>5, <2>6
<1>6. CASE ~(ReadGap \/ Receive) /\ Disturbs
  <2>1. Lost \/ Doubled \/ Swapped \/ Overrun \/ Foreign
    BY <1>6 DEF Disturbs
  <2>2. PICK e \in [1..Len(wire') -> Nat] :
           From(e) /\ (faults'["swapped"] = 0 => faults["swapped"] = 0 /\ InStep(e))
    BY <2>1, <1>1, DisturbedWire
  <2>3. Carried(e)
    BY <2>2, <1>6 DEF Carried, From
  <2> QED BY <2>3
<1>7. CASE ~(ReadGap \/ Receive \/ Sends \/ Disturbs)
  <2>1. wire' = wire /\ faults' = faults
    BY <1>7 DEF Next, vars, Reassembles, HandOver, Tick, Elapse, Notify, Watches, WatchSeesLoss,
         WatchLags, WatchAborts, Recv, RecvBegins, RecvParks, RecvMessage, RecvClosed, RecvWoken,
         RecvDropped
  <2> QED BY <2>1, <1>3, <1>7
<1> QED BY <1>2, <1>5, <1>6, <1>7

\* Where the partial messages come from.
LEMMA TableIsCarried ==
  ASSUME MaxMessages <= IdSpace, Parts, [Next]_vars, NEW k \in DOMAIN partial'
  PROVE  \/ \E j \in DOMAIN partial : partial[j].id = partial'[k].id
         \/ Receive /\ Ours(Head(wire)) /\ partial'[k].id = Head(wire).id
<1>1. Sound(partial) /\ DOMAIN partial = 1..Len(partial) /\ Len(partial) \in Nat
      /\ \A q : q \in Range(partial) <=> \E j \in DOMAIN partial : partial[j] = q
  BY LenProperties DEF Parts, Sound, Range
<1>2. partial'[k] \in Range(partial')
  BY DEF Range
<1>3. CASE partial' = partial
  BY <1>3
<1>4. CASE partial' = <<>>
  BY <1>4
<1>5. CASE Receive
  <2>1. \/ partial' = partial
        \/ /\ Ours(Head(wire)) /\ Heard(partial, Head(wire))
           /\ partial' = Accepted(partial, Head(wire)).table
    BY <1>5, ReceiveIs
  <2>2. CASE Ours(Head(wire)) /\ Heard(partial, Head(wire))
             /\ partial' = Accepted(partial, Head(wire)).table
    <3>1. partial'[k].id = Head(wire).id \/ partial'[k] \in Range(partial)
      BY <2>2, <1>2, AcceptedIsSane DEF Sane
    <3> QED BY <3>1, <2>2, <1>1, <1>5
  <2> QED BY <2>1, <2>2, <1>3
<1>6. CASE Tick
  <2>1. partial'[k] \in Range(partial)
    BY <1>1, <1>2, <1>6, AliveIs DEF Tick
  <2> QED BY <2>1, <1>1
<1>7. CASE Elapse
  <2>1. /\ partial' = [i \in DOMAIN partial |-> [partial[i] EXCEPT !.age = Smaller(@ + 1, Timeout)]]
    BY <1>7 DEF Elapse
  <2>2. DOMAIN partial' = DOMAIN partial /\ partial'[k].id = partial[k].id
    BY <2>1, <1>1, ElapsedIsSound
  <2> QED BY <2>2
<1> QED BY <1>3, <1>4, <1>5, <1>6, <1>7, TableSteps

\* Where what has arrived stood before, if it did not arrive just now.
ArrivalsCarried(n, e) ==
    /\ DOMAIN Arrivals' = 1..n
    /\ \A j \in 1..n :
          \/ e[j] \in DOMAIN Arrivals /\ Arrivals'[j] = Arrivals[e[j]]
          \/ Receive /\ Ours(Head(wire)) /\ j = n /\ Arrivals'[j] = Head(wire).of
    /\ \A j, k \in 1..n : j < k => e[j] <= e[k]

\* Every step carries what has arrived, in its order, or adds one at the end.
LEMMA ArrivalsAreCarried ==
  ASSUME MaxMessages <= IdSpace, Parts, NoneEmpty(sent), NoneEmpty(sent'), [Next]_vars
  PROVE  \E n \in Nat : \E e \in [1..n -> Nat] : ArrivalsCarried(n, e)
<1> DEFINE b == IF latest = 0 THEN 0 ELSE 1
           c == IF latest' = 0 THEN 0 ELSE 1
           N == Len(Queued)
           n == Len(Queued')
<1>1. /\ Queued \in Seq(Payloads) /\ Queued' \in Seq(Payloads) /\ N \in Nat /\ n \in Nat
      /\ DOMAIN Queued = 1..N /\ DOMAIN Queued' = 1..n
      /\ b \in 0..1 /\ c \in 0..1
  BY QueuedSteps, LenProperties
<1>2. /\ DOMAIN Arrivals = 1..b + N
      /\ latest # 0 => Arrivals[1] = latest
      /\ \A k \in 1..N : Arrivals[b + k] = SenderOf(sent, Queued[k])
  BY <1>1, ListOfIs, ArrivalsAre
<1>3. /\ DOMAIN Arrivals' = 1..c + n
      /\ latest' # 0 => Arrivals'[1] = latest'
      /\ \A k \in 1..n : Arrivals'[c + k] = SenderOf(sent', Queued'[k])
  BY <1>1, ListOfIs, ArrivalsAre
<1>4. /\ Keeps
      /\ \A m \in Range(order) : m \in DOMAIN sent /\ m \in DOMAIN sent' /\ sent'[m] = sent[m]
  BY SendKeeps DEF Parts, Keeps
<1>5. ASSUME NEW k \in 1..N
      PROVE  SenderOf(sent, Queued[k]) = SenderOf(sent', Queued[k])
             /\ SenderOf(sent, Queued[k]) \in DOMAIN sent
  <2>1. PICK m \in Range(order) : Queued[k] = Payload(m, sent[m])
    BY <1>1 DEF Parts, QueuedWasSent
  <2> QED BY <2>1, <1>4, SenderOfIs
<1> HIDE DEF n, N, b, c
<1>6. CASE latest' = latest /\ n <= N /\ \A k \in 1..n : Queued'[k] = Queued[k]
  <2> DEFINE e == [j \in 1..c + n |-> j]
  <2>1. b = c
    BY <1>6 DEF b, c
  <2>2. ASSUME NEW j \in 1..c + n
        PROVE  j \in DOMAIN Arrivals /\ Arrivals'[j] = Arrivals[j]
    <3>1. j \in 1..b + N
      BY <2>1, <1>1, <1>6
    <3>2. CASE j <= c
      <4>1. j = 1 /\ c = 1
        BY <3>2, <1>1
      <4>2. latest # 0 /\ latest' # 0
        BY <4>1, <2>1, <1>6 DEF b, c
      <4> QED BY <4>1, <4>2, <3>1, <1>2, <1>3, <1>6
    <3>3. CASE ~(j <= c)
      <4>1. j - c \in 1..n /\ j - c \in 1..N /\ c + (j - c) = j /\ b + (j - c) = j
        BY <3>3, <2>1, <1>1, <1>6
      <4>2. Arrivals'[c + (j - c)] = SenderOf(sent', Queued'[j - c])
            /\ Arrivals[b + (j - c)] = SenderOf(sent, Queued[j - c])
        BY <4>1, <1>2, <1>3
      <4>3. Arrivals'[j] = SenderOf(sent', Queued[j - c]) /\ Arrivals[j] = SenderOf(sent, Queued[j - c])
        BY <4>1, <4>2, <1>6
      <4> QED BY <4>1, <4>3, <3>1, <1>2, <1>5
    <3> QED BY <3>2, <3>3
  <2>3. e \in [1..c + n -> Nat] /\ (\A j \in 1..c + n : e[j] = j) /\ c + n \in Nat
        /\ \A j, k \in 1..c + n : j < k => e[j] <= e[k]
    BY <1>1
  <2> HIDE DEF e
  <2>4. ArrivalsCarried(c + n, e)
    BY <2>2, <2>3, <1>3 DEF ArrivalsCarried
  <2> QED BY <2>3, <2>4
<1>7. CASE /\ Arrives /\ latest' = latest
           /\ Queued' = Append(Queued, Payload(Head(wire).of, sent[Head(wire).of]))
  <2> DEFINE e == [j \in 1..c + n |-> j]
             m == Head(wire).of
             P == Payload(m, sent[m])
  <2>1. b = c
    BY <1>7 DEF b, c
  <2>2. Receive /\ Ours(Head(wire)) /\ m \in Range(order) /\ m \in Nat /\ sent[m] \in Nat
    <3>1. Receive /\ Ours(Head(wire)) /\ Heard(partial, Head(wire))
      BY <1>7 DEF Arrives
    <3> QED BY <3>1, GenuineIs DEF Heard
  <2>3. P \in Payloads
    BY <2>2, PayloadIs
  <2>4. SenderOf(sent', P) = m
    <3>1. m \in DOMAIN sent' /\ sent'[m] = sent[m]
      BY <2>2, <1>4
    <3> QED BY <3>1, SenderOfIs
  <2> HIDE DEF P, m
  <2>5. Queued' = Append(Queued, P)
    BY <1>7 DEF P, m
  <2>6. n = N + 1 /\ \A k \in 1..N + 1 : Queued'[k] = IF k <= N THEN Queued[k] ELSE P
    BY <2>3, <2>5, <1>1, EndsAre DEF n, N
  <2>7. ASSUME NEW j \in 1..c + n
        PROVE  \/ j \in DOMAIN Arrivals /\ Arrivals'[j] = Arrivals[j]
               \/ j = c + n /\ Arrivals'[j] = m
    <3>1. CASE j <= c
      <4>1. j = 1 /\ c = 1
        BY <3>1, <1>1
      <4>2. latest # 0 /\ latest' # 0
        BY <4>1, <2>1, <1>7 DEF b, c
      <4>3. j \in 1..b + N
        BY <4>1, <2>1, <1>1
      <4> QED BY <4>1, <4>2, <4>3, <1>2, <1>3, <1>7
    <3>2. CASE ~(j <= c) /\ j # c + n
      <4>1. j - c \in 1..n /\ j - c \in 1..N /\ c + (j - c) = j /\ b + (j - c) = j /\ j \in 1..b + N
            /\ j - c <= N /\ j - c \in 1..N + 1
        BY <3>2, <2>1, <2>6, <1>1
      <4>2. Arrivals'[c + (j - c)] = SenderOf(sent', Queued'[j - c])
            /\ Arrivals[b + (j - c)] = SenderOf(sent, Queued[j - c])
            /\ Queued'[j - c] = Queued[j - c]
        BY <4>1, <2>6, <1>2, <1>3
      <4>3. Arrivals'[j] = SenderOf(sent', Queued[j - c]) /\ Arrivals[j] = SenderOf(sent, Queued[j - c])
        BY <4>1, <4>2
      <4> QED BY <4>1, <4>3, <1>2, <1>5
    <3>3. CASE j = c + n
      <4>1. n \in 1..n /\ n \in 1..N + 1 /\ ~(n <= N)
        BY <2>6, <1>1
      <4>2. Queued'[n] = P
        BY <4>1, <2>6
      <4>3. Arrivals'[c + n] = SenderOf(sent', Queued'[n])
        BY <4>1, <1>3
      <4> QED BY <3>3, <4>2, <4>3, <2>4
    <3> QED BY <3>1, <3>2, <3>3
  <2>8. e \in [1..c + n -> Nat] /\ (\A j \in 1..c + n : e[j] = j) /\ c + n \in Nat
        /\ \A j, k \in 1..c + n : j < k => e[j] <= e[k]
    BY <1>1
  <2> HIDE DEF e
  <2>9. ArrivalsCarried(c + n, e)
    BY <2>2, <2>7, <2>8, <1>3 DEF ArrivalsCarried, m
  <2> QED BY <2>8, <2>9
<1>8. CASE Queued # <<>> /\ Queued' = Tail(Queued) /\ latest' = MessageOf(Queued[1])
  <2> DEFINE e == [j \in 1..1 + n |-> b + j]
  <2>1. /\ n = N - 1 /\ N > 0 /\ 1 \in 1..N
        /\ \A k \in 1..n : Queued'[k] = Queued[k + 1] /\ k + 1 \in 1..N
    <3>1. N > 0 /\ n = N - 1 /\ \A k \in 1..N - 1 : Queued'[k] = Queued[k + 1]
      BY <1>1, <1>8, EndsAre DEF n, N
    <3> QED BY <3>1, <1>1
  <2>2. latest' = SenderOf(sent, Queued[1]) /\ latest' # 0 /\ c = 1
    <3>1. latest' = SenderOf(sent, Queued[1]) /\ latest' \in DOMAIN sent
      BY <2>1, <1>5, <1>8, ArrivalsAre
    <3>2. 0 \notin DOMAIN sent
      BY LenProperties DEF Parts, SendInv, SendTypes
    <3> QED BY <3>1, <3>2 DEF c
  <2>3. ASSUME NEW j \in 1..1 + n
        PROVE  b + j \in DOMAIN Arrivals /\ Arrivals'[j] = Arrivals[b + j]
    <3>1. j \in 1..N /\ b + j \in 1..b + N
      BY <2>1, <1>1
    <3>2. Arrivals[b + j] = SenderOf(sent, Queued[j])
      BY <3>1, <1>2
    <3>3. CASE j = 1
      BY <3>1, <3>2, <3>3, <2>2, <1>2, <1>3
    <3>4. CASE j # 1
      <4>1. j - 1 \in 1..n /\ 1 + (j - 1) = j /\ (j - 1) + 1 = j
        BY <3>4, <1>1
      <4>2. Arrivals'[1 + (j - 1)] = SenderOf(sent', Queued'[j - 1])
            /\ Queued'[j - 1] = Queued[(j - 1) + 1]
        BY <4>1, <2>1, <2>2, <1>3
      <4>3. Arrivals'[j] = SenderOf(sent', Queued[j])
        BY <4>1, <4>2
      <4> QED BY <4>3, <3>1, <3>2, <1>2, <1>5
    <3> QED BY <3>3, <3>4
  <2>4. e \in [1..1 + n -> Nat] /\ (\A j \in 1..1 + n : e[j] = b + j) /\ 1 + n \in Nat
        /\ \A j, k \in 1..1 + n : j < k => e[j] <= e[k]
    BY <1>1
  <2> HIDE DEF e
  <2>5. ArrivalsCarried(1 + n, e)
    BY <2>2, <2>3, <2>4, <1>3 DEF ArrivalsCarried
  <2> QED BY <2>4, <2>5
<1>9. Queued' = Queued => n <= N /\ \A k \in 1..n : Queued'[k] = Queued[k]
  BY <1>1 DEF n, N
<1> QED BY <1>6, <1>7, <1>8, <1>9, QueuedSteps DEF n, N

\* Messages come out in the order of their turns, and none that has its turn
\* later is ahead of them on the wire, or begun before them in the table.
Orderly ==
    Parts /\ NoneEmpty(sent) /\ WireInOrder /\ ArrivalsHadTheirTurn /\ InOrder

\* Nothing empty is sent.
LEMMA NoneEmptyStays ==
  ASSUME 0 \notin Sizes, NoneEmpty(sent), [Next]_vars
  PROVE  NoneEmpty(sent')
<1>1. sent' = sent \/ \E len \in Sizes : sent' = Append(sent, len)
  BY DEF Next, vars, sendVars, Sends, BeginSend, LockSink, WriteFragment, WriteFails, Disturbs,
         Reassembles, ReadGap, Receive, HandOver, Tick, Elapse, Notify, Watches, WatchSeesLoss,
         WatchLags, WatchAborts, Recv, RecvBegins, RecvParks, RecvMessage, RecvClosed, RecvWoken,
         RecvDropped
<1>2. ASSUME NEW len \in Sizes, sent' = Append(sent, len)
      PROVE  NoneEmpty(sent')
  <2>1. sent \in Seq(Nat) /\ len \in Nat /\ len # 0 /\ DOMAIN sent = 1..Len(sent) /\ Len(sent) \in Nat
    BY ConstantTypes, LenProperties DEF NoneEmpty
  <2>2. /\ sent' \in Seq(Nat) /\ DOMAIN sent' = 1..Len(sent) + 1
        /\ \A j \in 1..Len(sent) + 1 : sent'[j] = IF j <= Len(sent) THEN sent[j] ELSE len
    BY <2>1, <1>2, EndsAre, LenProperties
  <2> QED BY <2>1, <2>2 DEF NoneEmpty
<1> QED BY <1>1, <1>2

\* What has arrived had its turn and is in the order of the turns, whatever
\* happens.
LEMMA ArrivalsKeepTheirTurn ==
  ASSUME MaxMessages <= IdSpace, Orderly, NoneEmpty(sent'), [Next]_vars
  PROVE  ArrivalsHadTheirTurn' /\ InOrder'
<1>1. Parts /\ SendInv /\ NoneEmpty(sent)
  BY DEF Orderly, Parts
<1>2. PICK n \in Nat : \E e \in [1..n -> Nat] : ArrivalsCarried(n, e)
  BY <1>1, ArrivalsAreCarried
<1>3. PICK e \in [1..n -> Nat] : ArrivalsCarried(n, e)
  BY <1>2
<1>4. \A j \in DOMAIN Arrivals : Arrivals[j] \in Range(order)
  BY DEF Orderly, ArrivalsHadTheirTurn, Range
<1>5. Receive /\ Ours(Head(wire)) =>
         /\ 1 \in DOMAIN wire /\ Head(wire) = wire[1] /\ Head(wire).of \in Range(order)
  <2> SUFFICES ASSUME Receive, Ours(Head(wire))
               PROVE  /\ 1 \in DOMAIN wire /\ Head(wire) = wire[1] /\ Head(wire).of \in Range(order)
    OBVIOUS
  <2>1. 1 \in DOMAIN wire /\ Head(wire) = wire[1]
    BY <1>1, ReceiveIs, LenProperties DEF Parts
  <2> QED BY <2>1, <1>1 DEF Parts, WireIsKnown
<1>6. \A m \in Range(order) : m \in Range(order') /\ Turn(m)' = Turn(m) /\ Turn(m) \in Nat
  BY <1>1, TurnIs, TurnStays
<1>7. /\ DOMAIN Arrivals' = 1..n
      /\ \A j \in 1..n :
            \/ e[j] \in DOMAIN Arrivals /\ Arrivals'[j] = Arrivals[e[j]]
            \/ Receive /\ Ours(Head(wire)) /\ j = n /\ Arrivals'[j] = Head(wire).of
      /\ \A j, k \in 1..n : j < k => e[j] <= e[k]
  BY <1>3 DEF ArrivalsCarried
<1>8. ArrivalsHadTheirTurn'
  BY <1>4, <1>5, <1>6, <1>7 DEF ArrivalsHadTheirTurn, Range
<1>9. ASSUME faults'["swapped"] = 0, NEW j \in 1..n, NEW k \in 1..n, j < k,
             NEW l, l = Arrivals'[j], NEW m, m = Arrivals'[k]
      PROVE  Turn(l)' <= Turn(m)'
  <2>1. faults["swapped"] = 0
    BY <1>1, <1>9, WireIsCarried DEF Carried
  <2>2. e[j] \in DOMAIN Arrivals /\ l = Arrivals[e[j]] /\ l \in Range(order)
    BY <1>4, <1>7, <1>9
  <2>3. CASE e[k] \in DOMAIN Arrivals /\ m = Arrivals[e[k]]
    <3>1. Turn(l) <= Turn(m)
      <4>1. CASE e[j] = e[k]
        BY <4>1, <2>2, <2>3, <1>6
      <4>2. CASE e[j] # e[k]
        <5>1. e[j] < e[k]
          BY <4>2, <1>7, <1>9
        <5> QED BY <5>1, <2>1, <2>2, <2>3 DEF Orderly, InOrder
      <4> QED BY <4>1, <4>2
    <3> QED BY <3>1, <2>2, <2>3, <1>4, <1>6
  <2>4. CASE Receive /\ Ours(Head(wire)) /\ m = Head(wire).of
    <3>1. Turn(l) <= Turn(m)
      BY <2>1, <2>2, <2>4, <1>5 DEF Orderly, WireInOrder
    <3> QED BY <3>1, <2>2, <2>4, <1>5, <1>6
  <2> QED BY <2>3, <2>4, <1>7, <1>9
<1>10. InOrder'
  BY <1>7, <1>9 DEF InOrder, Turn
<1> QED BY <1>8, <1>10

\* The send that has the sink was the last to get it.
LEMMA LockIsLast ==
  ASSUME SendInv, lock # NoHandle
  PROVE  /\ lock \in Handles /\ unsent[lock] # <<>>
         /\ unsent[lock][1].of \in Range(order)
         /\ Turn(unsent[lock][1].of) = Len(order)
         /\ \A m \in Range(order) : Turn(m) <= Turn(unsent[lock][1].of)
<1>1. lock \in Handles /\ unsent[lock] # <<>> /\ order # <<>>
      /\ unsent[lock][1].of = order[Len(order)] /\ order \in Seq(Nat)
  BY DEF SendInv, SendTypes, TurnsAreOnce
<1>2. Len(order) \in 1..Len(order) /\ DOMAIN order = 1..Len(order) /\ Len(order) \in Nat
  BY <1>1, EmptySeq, LenProperties
<1>3. order[Len(order)] \in Range(order)
  BY <1>2 DEF Range
<1>4. Turn(order[Len(order)]) = Len(order)
  BY <1>2, <1>3, TurnIs
<1>5. \A m \in Range(order) : Turn(m) <= Len(order)
  BY TurnIs
<1> QED BY <1>1, <1>3, <1>4, <1>5

\* The next fragment a send writes follows the one it writes now.
LEMMA NextToWrite ==
  ASSUME SendInv, NEW h \in Handles, WriteFragment(h), lock' # NoHandle
  PROVE  /\ lock' = h /\ unsent'[lock'][1].of = unsent[h][1].of
         /\ unsent'[lock'][1].index = unsent[h][1].index + 1 /\ unsent[h][1].index \in Nat
<1>1. lock = h /\ unsent[h] # <<>> /\ lock' = h /\ Tail(unsent[h]) # <<>>
      /\ unsent'[h] = Tail(unsent[h])
  BY ConstantTypes DEF WriteFragment, SendInv, SendTypes, TurnsAreOnce
<1>2. /\ unsent[h] \in Seq(Fragments) /\ Len(unsent[h]) \in Nat
      /\ sent[unsent[h][1].of] \in Nat
      /\ \A k \in 1..Len(unsent[h]) :
            /\ unsent[h][k].of = unsent[h][1].of
            /\ unsent[h][k].index
                 = FragmentsFor(sent[unsent[h][1].of]) - Len(unsent[h]) + k - 1
  BY <1>1, UnsentIs
<1>3. Len(unsent[h]) > 1 /\ Tail(unsent[h])[1] = unsent[h][2]
  <2>1. /\ Tail(unsent[h]) \in Seq(Fragments) /\ Len(Tail(unsent[h])) = Len(unsent[h]) - 1
        /\ \A j \in 1..Len(unsent[h]) - 1 : Tail(unsent[h])[j] = unsent[h][j + 1]
    BY <1>1, <1>2, EndsAre
  <2>2. Len(Tail(unsent[h])) # 0 /\ Len(Tail(unsent[h])) \in Nat
    BY <2>1, <1>1, EmptySeq, LenProperties
  <2>4. \A a, b \in Nat : b = a - 1 /\ b # 0 => a > 1 /\ 1 \in 1..a - 1
    OBVIOUS
  <2>3. Len(unsent[h]) > 1 /\ 1 \in 1..Len(unsent[h]) - 1
    BY <2>1, <2>2, <2>4, <1>2
  <2> QED BY <2>1, <2>3
<1>4. 1 \in 1..Len(unsent[h]) /\ 2 \in 1..Len(unsent[h])
  BY <1>2, <1>3
<1>5. unsent[h][1].index \in Nat
  <2>1. unsent[h][1] \in Fragments
    BY <1>2, <1>4, ElementOfSeq
  <2> QED BY <2>1 DEF Fragments
<1>6. FragmentsFor(sent[unsent[h][1].of]) \in Nat
  BY <1>2, FragmentsForIs
<1>7. unsent[h][2].index = unsent[h][1].index + 1
  BY <1>2, <1>4, <1>6
<1> QED BY <1>1, <1>2, <1>3, <1>4, <1>5, <1>7

\* The three things WireInOrder says of a wire.
InOrderOnWire == \A j, k \in DOMAIN wire :
    j < k /\ Ours(wire[j]) /\ Ours(wire[k]) => Before(wire[j], wire[k])

BehindOthers == \A k \in DOMAIN wire : Ours(wire[k]) =>
    /\ \A j \in DOMAIN Arrivals : Turn(Arrivals[j]) <= Turn(wire[k].of)
    /\ \A j \in DOMAIN partial : Turn(Source(partial[j])) <= Turn(wire[k].of)

BehindTheLock == \A k \in DOMAIN wire : Ours(wire[k]) =>
    (lock # NoHandle /\ wire[k].of = unsent[lock][1].of => wire[k].index < unsent[lock][1].index)

\* They are WireInOrder, before and after a step.
LEMMA WireInOrderIs ==
  /\ WireInOrder <=> (faults["swapped"] = 0 => InOrderOnWire /\ BehindOthers /\ BehindTheLock)
  /\ WireInOrder' <=> (faults'["swapped"] = 0 => InOrderOnWire' /\ BehindOthers' /\ BehindTheLock')
<1>1. WireInOrder <=> (faults["swapped"] = 0 => InOrderOnWire /\ BehindOthers /\ BehindTheLock)
  BY DEF WireInOrder, InOrderOnWire, BehindOthers, BehindTheLock
<1>2. WireInOrder' <=> (faults'["swapped"] = 0 => InOrderOnWire' /\ BehindOthers' /\ BehindTheLock')
  BY DEF WireInOrder, InOrderOnWire, BehindOthers, BehindTheLock
<1> QED BY <1>1, <1>2

\* What a fragment on the new wire is: one of the old wire's, or the one that
\* the send with the sink had to write next.
LEMMA WireFragmentIs ==
  ASSUME Parts, [Next]_vars, NEW e \in [1..Len(wire') -> Nat], Carried(e),
         NEW k \in DOMAIN wire', Ours(wire'[k])
  PROVE  /\ k \in 1..Len(wire')
         /\ wire'[k].of \in Range(order) /\ Genuine(wire'[k]) /\ wire'[k].index \in Nat
         /\ \/ /\ e[k] \in DOMAIN wire /\ wire'[k] = wire[e[k]] /\ Ours(wire[e[k]])
               /\ ReadGap \/ Receive => e[k] > 1
            \/ /\ lock # NoHandle /\ k = Len(wire') /\ wire'[k] = unsent[lock][1]
               /\ WriteFragment(lock) \/ WriteFails(lock)
               /\ ~(ReadGap \/ Receive)
<1>1. k \in 1..Len(wire') /\ DOMAIN wire = 1..Len(wire)
  BY WireKeeps, LenProperties DEF Parts
<1>2. CASE e[k] \in 1..Len(wire) /\ wire'[k] = wire[e[k]] /\ (ReadGap \/ Receive => e[k] > 1)
  <2>1. Genuine(wire[e[k]]) /\ wire[e[k]].of \in Range(order) /\ wire[e[k]] \in Items
    BY <1>1, <1>2, ElementOfSeq DEF Parts, WireIsKnown
  <2>2. wire[e[k]].index \in Nat
    BY <2>1, <1>2 DEF Items, Fragments, Ours, ForeignWrites
  <2> QED BY <2>1, <2>2, <1>1, <1>2
<1>3. CASE \E h \in Handles : /\ WriteFragment(h) \/ WriteFails(h)
                              /\ ~(ReadGap \/ Receive)
                              /\ k = Len(wire') /\ wire'[k] = unsent[h][1]
  <2>1. PICK h \in Handles : /\ WriteFragment(h) \/ WriteFails(h)
                             /\ ~(ReadGap \/ Receive)
                             /\ k = Len(wire') /\ wire'[k] = unsent[h][1]
    BY <1>3
  <2>2. h = lock /\ lock # NoHandle /\ SendInv
    BY <2>1, ConstantTypes DEF WriteFragment, WriteFails, Parts
  <2>3. unsent[h] # <<>> /\ unsent[h][1].of \in Range(order)
    BY <2>2, LockIsLast
  <2>4. /\ unsent[h] \in Seq(Fragments) /\ Len(unsent[h]) \in Nat /\ Len(unsent[h]) > 0
        /\ \A j \in 1..Len(unsent[h]) : Genuine(unsent[h][j])
    BY <2>2, <2>3, UnsentIs
  <2>5. 1 \in 1..Len(unsent[h])
    BY <2>4
  <2>6. Genuine(unsent[h][1]) /\ unsent[h][1].index \in Nat
    <3>1. unsent[h][1] \in Fragments
      BY <2>4, <2>5, ElementOfSeq
    <3> QED BY <3>1, <2>4, <2>5 DEF Fragments
  <2> QED BY <2>1, <2>2, <2>3, <2>6, <1>1
<1> QED BY <1>1, <1>2, <1>3 DEF Carried

\* Of two fragments whose messages had their turn the earlier stays so.
LEMMA BeforeStays ==
  ASSUME SendInv, [Next]_vars, NEW f, NEW g, f.of \in Range(order), g.of \in Range(order),
         Before(f, g)
  PROVE  Before(f, g)'
BY TurnStays DEF Before

\* The wire keeps its order, behind all that was taken from it.
LEMMA WireKeepsItsOrder ==
  ASSUME MaxMessages <= IdSpace, Orderly, NoneEmpty(sent'), [Next]_vars
  PROVE  WireInOrder'
<1>1. Parts /\ SendInv /\ NoneEmpty(sent)
  BY DEF Orderly, Parts
<1>2. PICK e \in [1..Len(wire') -> Nat] : Carried(e)
  BY <1>1, WireIsCarried
<1>3. SUFFICES ASSUME faults'["swapped"] = 0
               PROVE  InOrderOnWire' /\ BehindOthers' /\ BehindTheLock'
  BY WireInOrderIs
<1>4. faults["swapped"] = 0 /\ InStep(e)
  BY <1>2, <1>3 DEF Carried
<1>5. InOrderOnWire /\ BehindOthers /\ BehindTheLock
  BY <1>4, WireInOrderIs DEF Orderly
<1>6. \A m \in Range(order) : m \in Range(order') /\ Turn(m)' = Turn(m) /\ Turn(m) \in Nat
  BY <1>1, TurnIs, TurnStays
<1>7. wire \in Seq(Items) /\ DOMAIN wire = 1..Len(wire) /\ Len(wire) \in Nat
      /\ DOMAIN wire' = 1..Len(wire') /\ Len(wire') \in Nat
  BY <1>1, WireKeeps, LenProperties DEF Parts
<1>8. InOrderOnWire'
  <2> SUFFICES ASSUME NEW j \in DOMAIN wire', NEW k \in DOMAIN wire', j < k,
                      NEW f, f = wire'[j], NEW g, g = wire'[k], Ours(f), Ours(g)
               PROVE  Before(f, g)'
    BY DEF InOrderOnWire, Before, Turn
  <2>1. f.of \in Range(order) /\ g.of \in Range(order) /\ f.index \in Nat /\ g.index \in Nat
    BY <1>1, <1>2, WireFragmentIs
  <2>2. e[j] \in DOMAIN wire /\ f = wire[e[j]] /\ Ours(wire[e[j]])
    BY <1>1, <1>2, <1>7, WireFragmentIs
  <2>3. Before(f, g)
    <3>1. CASE e[k] \in DOMAIN wire /\ g = wire[e[k]]
      <4>1. e[j] <= e[k]
        BY <1>4, <1>7 DEF InStep
      <4>2. CASE e[j] = e[k]
        BY <4>2, <3>1, <2>1, <2>2 DEF Before
      <4>3. CASE e[j] # e[k]
        <5>1. e[j] < e[k]
          BY <4>1, <4>3, <1>7
        <5> QED BY <5>1, <3>1, <2>2, <1>5 DEF InOrderOnWire
      <4> QED BY <4>2, <4>3
    <3>2. CASE lock # NoHandle /\ g = unsent[lock][1]
      <4>1. Turn(f.of) <= Turn(g.of)
        BY <3>2, <2>1, <1>1, LockIsLast
      <4>2. CASE f.of = g.of
        <5>1. f.index < g.index
          BY <4>2, <3>2, <2>2, <1>5 DEF BehindTheLock
        <5> QED BY <4>2, <5>1, <2>1 DEF Before
      <4>3. CASE f.of # g.of
        <5>1. Turn(f.of) # Turn(g.of)
          BY <4>3, <2>1, <1>1, TurnIs
        <5> QED BY <5>1, <4>1, <2>1, <1>6 DEF Before
      <4> QED BY <4>2, <4>3
    <3> QED BY <3>1, <3>2, <1>1, <1>2, WireFragmentIs
  <2> QED BY <2>1, <2>3, <1>1, BeforeStays
<1>9. BehindTheLock'
  <2> SUFFICES ASSUME NEW k \in DOMAIN wire', Ours(wire'[k]), lock' # NoHandle,
                      wire'[k].of = unsent'[lock'][1].of
               PROVE  wire'[k].index < unsent'[lock'][1].index
    BY DEF BehindTheLock
  <2>1. /\ wire'[k].of \in Range(order) /\ wire'[k].index \in Nat
        /\ \/ e[k] \in DOMAIN wire /\ wire'[k] = wire[e[k]] /\ Ours(wire[e[k]])
           \/ /\ lock # NoHandle /\ k = Len(wire') /\ wire'[k] = unsent[lock][1]
              /\ WriteFragment(lock) \/ WriteFails(lock)
    BY <1>1, <1>2, WireFragmentIs
  <2>2. ASSUME NEW h \in Handles, LockSink(h) PROVE FALSE
    <3>1. lock' = h /\ unsent' = unsent /\ unsent[h][1].of \notin Range(order)
      BY <2>2, <1>1, LockSinkKeeps DEF LockSink
    <3> QED BY <3>1, <2>1
  <2>3. ASSUME NEW h \in Handles, WriteFails(h) PROVE FALSE
    BY <2>3 DEF WriteFails
  <2>4. ASSUME NEW h \in Handles, WriteFragment(h)
        PROVE  wire'[k].index < unsent'[lock'][1].index
    <3>1. /\ lock = h /\ lock # NoHandle /\ unsent'[lock'][1].of = unsent[h][1].of
          /\ unsent'[lock'][1].index = unsent[h][1].index + 1 /\ unsent[h][1].index \in Nat
      BY <2>4, <1>1, NextToWrite, ConstantTypes DEF WriteFragment
    <3>2. wire'[k].index <= unsent[h][1].index
      <4>1. CASE e[k] \in DOMAIN wire /\ wire'[k] = wire[e[k]] /\ Ours(wire[e[k]])
        <5>1. wire'[k].index < unsent[h][1].index
          BY <4>1, <3>1, <1>5 DEF BehindTheLock
        <5> QED BY <5>1, <3>1, <2>1
      <4>2. CASE wire'[k] = unsent[lock][1]
        BY <4>2, <3>1
      <4> QED BY <4>1, <4>2, <2>1
    <3> QED BY <3>1, <3>2, <2>1
  <2>5. ASSUME ~ \E h \in Handles : LockSink(h) \/ WriteFragment(h) \/ WriteFails(h)
        PROVE  wire'[k].index < unsent'[lock'][1].index
    <3>1. lock' = lock
      BY <2>5 DEF Next, vars, sendVars, Sends, BeginSend, Disturbs, Reassembles, ReadGap, Receive,
           HandOver, Tick, Elapse, Notify, Watches, WatchSeesLoss, WatchLags, WatchAborts, Recv,
           RecvBegins, RecvParks, RecvMessage, RecvClosed, RecvWoken, RecvDropped
    <3>2. unsent' = unsent \/ \E h \in Handles : \E len \in Sizes : BeginSend(h, len)
      BY <2>5 DEF Next, vars, sendVars, Sends, Disturbs, Reassembles, ReadGap, Receive,
           HandOver, Tick, Elapse, Notify, Watches, WatchSeesLoss, WatchLags, WatchAborts, Recv,
           RecvBegins, RecvParks, RecvMessage, RecvClosed, RecvWoken, RecvDropped
    <3>3. lock \in Handles /\ unsent[lock] # <<>>
      BY <3>1, <1>1, LockIsLast
    <3>4. unsent'[lock] = unsent[lock]
      <4>1. ASSUME NEW h \in Handles, NEW len \in Sizes, BeginSend(h, len)
            PROVE  unsent'[lock] = unsent[lock]
        BY <3>3, <4>1, <1>1 DEF BeginSend, SendInv, SendTypes
      <4> QED BY <4>1, <3>2
    <3>5. e[k] \in DOMAIN wire /\ wire'[k] = wire[e[k]] /\ Ours(wire[e[k]])
      BY <2>1, <2>5, <3>3
    <3> QED BY <3>1, <3>4, <3>5, <1>5 DEF BehindTheLock
  <2> QED BY <2>2, <2>3, <2>4, <2>5
<1>10. BehindOthers'
  <2> SUFFICES ASSUME NEW k \in DOMAIN wire', NEW g, g = wire'[k], Ours(g)
               PROVE  /\ \A j \in DOMAIN Arrivals' : Turn(Arrivals[j])' <= Turn(g.of)'
                      /\ \A j \in DOMAIN partial' : Turn(Source(partial[j]))' <= Turn(g.of)'
    BY DEF BehindOthers, Turn
  <2>1. /\ g.of \in Range(order)
        /\ \/ /\ e[k] \in DOMAIN wire /\ g = wire[e[k]] /\ Ours(wire[e[k]])
              /\ ReadGap \/ Receive => e[k] > 1
           \/ /\ lock # NoHandle /\ g = unsent[lock][1]
              /\ WriteFragment(lock) \/ WriteFails(lock)
    BY <1>1, <1>2, WireFragmentIs
  <2>2. ASSUME NEW m \in Range(order),
               \A i \in DOMAIN wire : Ours(wire[i]) => Turn(m) <= Turn(wire[i].of)
        PROVE  Turn(m)' <= Turn(g.of)'
    <3>1. Turn(m) <= Turn(g.of)
      BY <2>1, <2>2, <1>1, LockIsLast
    <3> QED BY <3>1, <2>1, <1>6
  <2>3. ASSUME Receive, Ours(Head(wire)), NEW l, l = Head(wire).of
        PROVE  Turn(l)' <= Turn(g.of)'
    <3>1. 1 \in DOMAIN wire /\ Head(wire) = wire[1] /\ wire[1].of \in Range(order)
      <4>1. 1 \in DOMAIN wire /\ Head(wire) = wire[1]
        BY <2>3, <1>1, <1>7, ReceiveIs
      <4> QED BY <4>1, <2>3, <1>1 DEF Parts, WireIsKnown
    <3>2. e[k] \in DOMAIN wire /\ g = wire[e[k]] /\ Ours(wire[e[k]]) /\ e[k] > 1
      BY <2>3, <1>1, <1>2, WireFragmentIs
    <3>3. Before(Head(wire), g)
      BY <3>1, <3>2, <2>3, <1>5 DEF InOrderOnWire
    <3>4. Turn(l) <= Turn(g.of) /\ l \in Range(order)
      BY <3>1, <3>3, <2>1, <2>3, <1>6 DEF Before
    <3> QED BY <3>4, <2>1, <1>6
  <2>4. ASSUME NEW j \in DOMAIN Arrivals', NEW m, m = Arrivals'[j]
        PROVE  Turn(m)' <= Turn(g.of)'
    <3>1. PICK n \in Nat : \E i \in [1..n -> Nat] : ArrivalsCarried(n, i)
      BY <1>1, ArrivalsAreCarried
    <3>2. PICK i \in [1..n -> Nat] : ArrivalsCarried(n, i)
      BY <3>1
    <3>3. CASE i[j] \in DOMAIN Arrivals /\ m = Arrivals[i[j]]
      <4>1. m \in Range(order)
        BY <3>3 DEF Orderly, ArrivalsHadTheirTurn, Range
      <4>2. \A x \in DOMAIN wire : Ours(wire[x]) => Turn(m) <= Turn(wire[x].of)
        BY <3>3, <1>5 DEF BehindOthers
      <4> QED BY <4>1, <4>2, <2>2
    <3>4. CASE Receive /\ Ours(Head(wire)) /\ m = Head(wire).of
      BY <3>4, <2>3
    <3> QED BY <3>2, <3>3, <3>4, <2>4 DEF ArrivalsCarried
  <2>5. ASSUME NEW j \in DOMAIN partial', NEW m, m = Source(partial'[j])
        PROVE  Turn(m)' <= Turn(g.of)'
    <3>1. CASE \E i \in DOMAIN partial : partial[i].id = partial'[j].id
      <4>1. PICK i \in DOMAIN partial : partial[i].id = partial'[j].id
        BY <3>1
      <4>2. m = Source(partial[i])
        BY <4>1, <2>5 DEF Source
      <4>3. m \in Range(order)
        <5>1. ProperPart(partial[i])
          BY LenProperties, <1>1 DEF Parts, Sound
        <5> QED BY <5>1, <4>2 DEF ProperPart
      <4>4. \A x \in DOMAIN wire : Ours(wire[x]) => Turn(m) <= Turn(wire[x].of)
        BY <4>2, <1>5 DEF BehindOthers
      <4> QED BY <4>3, <4>4, <2>2
    <3>2. CASE Receive /\ Ours(Head(wire)) /\ partial'[j].id = Head(wire).id
      <4>1. m = Head(wire).of
        <5>1. Heard(partial, Head(wire))
          BY <3>2, <1>1, ReceiveIs
        <5>2. Head(wire).id = Head(wire).of - 1 /\ Head(wire).of \in Nat
          BY <5>1, GenuineIs DEF Heard
        <5> QED BY <5>2, <3>2, <2>5 DEF Source
      <4> QED BY <4>1, <3>2, <2>3
    <3> QED BY <3>1, <3>2, <1>1, TableIsCarried
  <2> QED BY <2>4, <2>5
<1> QED BY <1>8, <1>9, <1>10

\* At first nothing has arrived and nothing is on its way.
LEMMA OrderlyAtFirst == Init => Orderly
<1> SUFFICES ASSUME Init PROVE Orderly
  OBVIOUS
<1>1. Parts
  BY FaithfulAtFirst, PartsAre
<1>2. sent = <<>> /\ wire = <<>> /\ latest = 0 /\ inbound = <<>> /\ handing = <<>>
  BY DEF Init
<1>3. /\ \A S : <<>> \in Seq(S)
      /\ Len(<<>>) = 0 /\ DOMAIN <<>> = {}
  <2>1. \A S : <<>> \in Seq(S)
    BY EmptySeq
  <2> QED BY <2>1, EmptySeq, LenProperties
<1>4. NoneEmpty(sent) /\ WireInOrder
  BY <1>2, <1>3 DEF NoneEmpty, WireInOrder
<1>5. DOMAIN Arrivals = {}
  <2>1. Queued = <<>>
    BY <1>2, <1>3, ConcatEmptySeq DEF Queued
  <2>2. DOMAIN ListOf(sent, latest, Queued) = 1..0 + Len(Queued)
    BY <2>1, <1>2, <1>3, ListOfIs
  <2> QED BY <2>1, <2>2, <1>3, ArrivalsAre
<1> QED BY <1>1, <1>4, <1>5 DEF Orderly, ArrivalsHadTheirTurn, InOrder, Range

\* Every step leaves all in its order.
LEMMA OrderlyStep ==
  ASSUME MaxMessages <= IdSpace, 0 \notin Sizes, Orderly, [Next]_vars
  PROVE  Orderly'
<1>1. Parts'
  BY FaithfulStep, PartsAre, PartsAreNext DEF Orderly
<1>2. NoneEmpty(sent')
  BY NoneEmptyStays DEF Orderly
<1>3. WireInOrder'
  BY <1>2, WireKeepsItsOrder
<1>4. ArrivalsHadTheirTurn' /\ InOrder'
  BY <1>2, ArrivalsKeepTheirTurn
<1>5. NoneEmpty(sent)'
  BY <1>2 DEF NoneEmpty
<1> QED BY <1>1, <1>3, <1>4, <1>5 DEF Orderly

\* On a link that does not reorder, what is on the wire comes behind all that
\* was taken from it, and what was taken keeps the order of its turns.
THEOREM OrderAlways ==
  MaxMessages <= IdSpace /\ 0 \notin Sizes => (Spec => []OrderInv)
<1> SUFFICES ASSUME MaxMessages <= IdSpace, 0 \notin Sizes PROVE Spec => []OrderInv
  OBVIOUS
<1>1. Orderly /\ [Next]_vars => Orderly'
  BY OrderlyStep
<1>2. Orderly => OrderInv
  BY PartsAre DEF Orderly, OrderInv
<1> QED BY <1>1, <1>2, OrderlyAtFirst, PTL DEF Spec

\* Over a link that does not reorder, messages come out of recv in the order in
\* which their sends got the sink, whatever is lost, repeated or given up
\* (InOrder).
THEOREM StreamKeepsOrder ==
  MaxMessages <= IdSpace /\ 0 \notin Sizes => (Spec => []InOrder)
<1> SUFFICES ASSUME MaxMessages <= IdSpace, 0 \notin Sizes PROVE Spec => []InOrder
  OBVIOUS
<1>1. OrderInv => InOrder
  BY DEF OrderInv
<1> QED BY <1>1, OrderAlways, PTL

-----------------------------------------------------------------------------
(* Nothing is lost without a reason *)

\* The table t has the first k fragments of the message with this id.
TakenIn(t, id, k) ==
    IF k = 0 THEN \A p \in Range(t) : p.id # id
    ELSE \E p \in Range(t) :
            p.id = id /\ DOMAIN p.bodies = 0..k - 1 /\ p.len = k * Budget

\* Taken, of the table before and after a step.
LEMMA TakenIs ==
  ASSUME NEW m, NEW k
  PROVE  /\ Taken(m, k) <=> TakenIn(partial, MsgId(m), k)
         /\ Taken(m, k)' <=> TakenIn(partial', MsgId(m), k)
         /\ \A t, id : (~Holds(t, id)) <=> \A p \in Range(t) : p.id # id
<1>1. \A t, id : (~Holds(t, id)) <=> \A p \in Range(t) : p.id # id
  BY DEF Holds, Range
<1>2. Taken(m, k) <=> TakenIn(partial, MsgId(m), k)
  <2>1. CASE k = 0
    BY <2>1, <1>1 DEF Taken, TakenIn
  <2>2. CASE k # 0
    BY <2>2 DEF Taken, TakenIn, Range
  <2> QED BY <2>1, <2>2
<1>3. Taken(m, k)' <=> TakenIn(partial', MsgId(m), k)
  <2>1. CASE k = 0
    BY <2>1, <1>1 DEF Taken, TakenIn
  <2>2. CASE k # 0
    BY <2>2 DEF Taken, TakenIn, Range
  <2> QED BY <2>1, <2>2
<1> QED BY <1>1, <1>2, <1>3

\* The first fragment of a message of several is full, and so are those before
\* the last.
LEMMA LenIs ==
  ASSUME MaxMessages <= IdSpace, NEW t, NEW f, Heard(t, f), sent[f.of] # 0
  PROVE  LET n == FragmentsFor(sent[f.of]) IN
         /\ f.index < n - 1 => Len(f.body) = Budget /\ (n - 1) * Budget < sent[f.of]
         /\ f.index * Budget \in Nat /\ f.index * Budget + Len(f.body) <= sent[f.of]
         /\ (f.index + 1) * Budget = f.index * Budget + Budget
<1> DEFINE m == f.of
           len == sent[m]
           n == FragmentsFor(len)
           i == f.index
<1>1. /\ m \in Nat /\ len \in Nat /\ len # 0 /\ i \in 0..n - 1 /\ n \in Nat \ {0}
      /\ f.body = Fragment(m, len, i).body /\ Len(f.body) \in Nat
  BY GenuineIs DEF Heard
<1> HIDE DEF m, len, i
<1>2. /\ (n - 1) * Budget < len
  BY <1>1, FragmentsForIs
<1>3. /\ i * Budget \in Nat /\ EndOf(len, i) \in i * Budget..len
      /\ (i + 1) * Budget = i * Budget + Budget
  BY <1>1, EndOfIs
<1>4. /\ Len(f.body) = EndOf(len, i) - i * Budget
      /\ i < n - 1 => Len(f.body) = Budget
  BY <1>1, BodyIs
<1> HIDE DEF n
<1>5. i * Budget + Len(f.body) <= len
  BY <1>1, <1>3, <1>4
<1> QED BY <1>2, <1>3, <1>4, <1>5 DEF m, len, n, i

\* What the reassembler makes of the next fragment of a message, or of one it
\* has: unless the message is longer than it allows or has timed out, it has
\* one more of it, or all.
LEMMA AcceptedTakes ==
  ASSUME MaxMessages <= IdSpace, NEW t, NEW f, Heard(t, f), sent[f.of] # 0,
         NEW k \in 0..FragmentsFor(sent[f.of]) - 1, f.index <= k, TakenIn(t, f.id, k)
  PROVE  LET m == f.of
             n == FragmentsFor(sent[m])
             r == Accepted(t, f)
         IN \/ sent[m] > MaxMessageLen
            \/ ~Malformed(f) /\ \E p \in Range(t) : p.id = f.id /\ p.age >= Timeout
            \/ r.done = << Payload(m, sent[m]) >>
            \/ f.index < k /\ TakenIn(r.table, f.id, k)
            \/ f.index = k /\ k + 1 <= n - 1 /\ TakenIn(r.table, f.id, k + 1)
<1> DEFINE m == f.of
           len == sent[m]
           n == FragmentsFor(len)
           i == f.index
           a == Alive(t)
           r == Accepted(t, f)
<1>1. /\ m \in Nat /\ len \in Nat /\ len # 0 /\ i \in 0..n - 1 /\ n \in Nat \ {0}
      /\ f.total = n /\ f.id = m - 1 /\ f.id \in Nat /\ f.index = i
      /\ f.body = Fragment(m, len, i).body /\ f.body \in Payloads
      /\ Len(f.body) \in Nat /\ Len(f.body) <= len
  BY GenuineIs DEF Heard
<1>2. /\ i < n - 1 => Len(f.body) = Budget /\ (n - 1) * Budget < len
      /\ i * Budget \in Nat /\ i * Budget + Len(f.body) <= len
      /\ (i + 1) * Budget = i * Budget + Budget
  BY LenIs
<1>3. AcceptedTo(t, f, a, r)
  BY AcceptedCases
<1>4. Sound(a) /\ Range(a) \subseteq Range(t) /\ \A p \in Range(t) : p \in Range(a) \/ p.age >= Timeout
  BY AliveIs DEF Heard
<1>5. k \in 0..n - 1 /\ i <= k
  OBVIOUS
<1>6. Heard(a, f)
  BY <1>4 DEF Heard
<1>7. MaxMessageLen \in Nat /\ Budget \in Nat \ {0}
  BY ConstantTypes
<1> HIDE DEF m, len, n, i, a, r
<1>8. SUFFICES ASSUME ~(len > MaxMessageLen),
                      ~(~Malformed(f) /\ \E p \in Range(t) : p.id = f.id /\ p.age >= Timeout)
               PROVE  \/ r.done = << Payload(m, len) >>
                      \/ i < k /\ TakenIn(r.table, f.id, k)
                      \/ i = k /\ k + 1 <= n - 1 /\ TakenIn(r.table, f.id, k + 1)
  BY DEF m, len, n, i, r
<1>9. ~Malformed(f)
  BY <1>1, <1>7, <1>8 DEF Malformed
<1>10. \A p \in Range(t) : p.id = f.id => p \in Range(a)
  BY <1>4, <1>8, <1>9
<1>11. CASE n = 1
  <2>1. r = [table |-> WithoutId(a, f.id), done |-> <<f.body>>]
    BY <1>1, <1>3, <1>9, <1>11 DEF AcceptedTo
  <2>2. f.body = Payload(m, len)
    BY <1>1, <1>11, BodyIs DEF n
  <2> QED BY <2>1, <2>2
<1>12. CASE n # 1 /\ k = 0
  <2>1. i = 0 /\ 0 < n - 1 /\ k + 1 <= n - 1
    BY <1>1, <1>5, <1>12
  <2>2. ~Holds(a, f.id)
    <3>1. \A p \in Range(a) : p.id # f.id
      BY <1>4, <1>12 DEF TakenIn
    <3> QED BY <3>1, TakenIs
  <2>3. ~(DeclaredMin(f) > MaxMessageLen)
    <3>1. Len(f.body) = Budget /\ (n - 1) * Budget < len
      BY <1>2, <2>1
    <3>2. f.body # <<>>
      BY <3>1, <1>7, EmptySeq
    <3>3. DeclaredMin(f) = (n - 1) * Budget
      BY <3>1, <3>2, <1>1 DEF DeclaredMin
    <3>4. (n - 1) * Budget \in Nat
      BY <1>1, <1>7
    <3> QED BY <3>1, <3>3, <3>4, <1>1, <1>7, <1>8
  <2>4. r = [table |-> Append(Evicted(a), Fresh(f)), done |-> <<>>]
    BY <2>2, <2>3, <1>1, <1>3, <1>9, <1>12 DEF AcceptedTo
  <2>5. /\ Sound(Evicted(a)) /\ Range(Evicted(a)) \subseteq Range(a)
        /\ Len(Evicted(a)) < MaxConcurrent
    BY <1>4, EvictedIs
  <2>6. Fresh(f) \in PartialMessages /\ ProperPart(Fresh(f)) /\ Fresh(f).age = 0 /\ Fresh(f).id = f.id
    BY <1>1, <1>12, FreshIs
  <2>7. ~Holds(Evicted(a), f.id)
    <3>1. \A p \in Range(Evicted(a)) : p.id # f.id
      BY <2>2, <2>5, TakenIs
    <3> QED BY <3>1, TakenIs
  <2>8. Fresh(f) \in Range(Append(Evicted(a), Fresh(f)))
    BY <2>5, <2>6, <2>7, StartedIsSound
  <2>9. DOMAIN Fresh(f).bodies = 0..(k + 1) - 1 /\ Fresh(f).len = (k + 1) * Budget
    BY <2>1, <1>1, <1>2, <1>7, <1>12 DEF Fresh, i
  <2>10. TakenIn(r.table, f.id, k + 1)
    BY <2>4, <2>6, <2>8, <2>9, <1>12 DEF TakenIn
  <2> QED BY <2>1, <2>10, <1>12
<1>13. CASE n # 1 /\ k # 0
  <2>1. PICK p \in Range(t) : p.id = f.id /\ DOMAIN p.bodies = 0..k - 1 /\ p.len = k * Budget
    BY <1>13 DEF TakenIn
  <2>2. p \in Range(a)
    BY <2>1, <1>10
  <2>3. Holds(a, f.id)
    BY <2>1, <2>2, TakenIs
  <2>4. p = a[PlaceOf(a, f.id)] /\ PlaceOf(a, f.id) \in 1..Len(a)
    BY <2>1, <2>2, <2>3, <1>4, PlaceOfIs
  <2>5. ProperPart(p) /\ p \in PartialMessages
    BY <2>4, <1>4, ElementOfSeq DEF Sound
  <2>6. /\ p.total = n /\ \A j \in DOMAIN p.bodies : p.bodies[j] = Fragment(m, len, j).body
    <3>1. Source(p) = m
      BY <2>1, <1>1 DEF Source
    <3> QED BY <3>1, <2>5 DEF ProperPart, n, len
  <2>7. r = Joined(a, p, f)
    BY <2>3, <2>4, <2>6, <1>1, <1>3, <1>9, <1>13 DEF AcceptedTo
  <2> DEFINE others == WithoutId(a, f.id)
             grown == Grown(p, f)
  <2>8. JoinedTo(a, p, f, others, grown, r)
    BY <2>7, JoinedCases
  <2>9. CASE i < k
    <3>1. i \in DOMAIN p.bodies
      BY <2>1, <2>9, <1>1, <1>5
    <3>2. p.bodies[i] = f.body
      BY <3>1, <2>6, <1>1
    <3>3. r = [table |-> a, done |-> <<>>]
      BY <3>1, <3>2, <2>8, <1>1 DEF JoinedTo
    <3>4. TakenIn(a, f.id, k)
      BY <2>1, <2>2, <1>13 DEF TakenIn
    <3> QED BY <3>3, <3>4, <2>9
  <2>10. CASE i = k
    <3>1. i \notin DOMAIN p.bodies
      BY <2>1, <2>10, <1>1
    <3>2. ~(p.len + Len(f.body) > MaxMessageLen)
      <4>1. \A x, l, s, most \in Nat : x + l <= s /\ ~(s > most) => ~(x + l > most)
        OBVIOUS
      <4>2. p.len = i * Budget
        BY <2>1, <2>10
      <4> QED BY <4>1, <4>2, <1>1, <1>2, <1>7, <1>8
    <3>3. /\ grown \in PartialMessages /\ grown.id = p.id /\ grown.age = p.age
          /\ grown.len = p.len + Len(f.body)
          /\ DOMAIN grown.bodies = DOMAIN p.bodies \cup {i}
          /\ Cardinality(DOMAIN grown.bodies) = n <=> DOMAIN grown.bodies = 0..n - 1
          /\ DOMAIN grown.bodies # 0..n - 1 => ProperPart(grown)
          /\ DOMAIN grown.bodies = 0..n - 1 =>
               FlattenSeq([j \in 1..n |-> grown.bodies[j - 1]]) = Payload(m, len)
      BY <3>1, <2>1, <2>5, <1>1, <1>6, <1>13, JoinedIs DEF len, m
    <3>4. DOMAIN grown.bodies = 0..k
      BY <3>3, <2>1, <2>10, <1>1, <1>13
    <3> HIDE DEF grown, others
    <3>5. CASE k = n - 1
      <4>1. r = [table |-> others,
                 done |-> << FlattenSeq([j \in 1..f.total |-> grown.bodies[j - 1]]) >>]
        BY <3>1, <3>2, <3>3, <3>4, <3>5, <2>8, <1>1 DEF JoinedTo
      <4>2. FlattenSeq([j \in 1..f.total |-> grown.bodies[j - 1]]) = Payload(m, len)
        BY <3>3, <3>4, <3>5, <1>1
      <4> QED BY <4>1, <4>2
    <3>6. CASE k # n - 1
      <4> DEFINE u == [a EXCEPT ![PlaceOf(a, f.id)] = grown]
      <4>1. k + 1 <= n - 1 /\ k < n - 1 /\ 0..k # 0..n - 1
        <5>1. k + 1 <= n - 1 /\ k < n - 1 /\ n - 1 \notin 0..k /\ n - 1 \in 0..n - 1
          BY <3>6, <1>1, <1>5
        <5> QED BY <5>1
      <4>2. r = [table |-> u, done |-> <<>>]
        BY <3>1, <3>2, <3>3, <3>4, <4>1, <2>8, <1>1 DEF JoinedTo
      <4>3. grown \in Range(u)
        BY <3>3, <3>4, <4>1, <2>1, <2>4, <1>4, StoredIsSound
      <4>4. grown.len = (k + 1) * Budget /\ 0..k = 0..(k + 1) - 1
        BY <3>3, <4>1, <2>1, <2>10, <1>1, <1>2, <1>5
      <4> HIDE DEF u
      <4>5. TakenIn(r.table, f.id, k + 1)
        BY <3>3, <3>4, <4>2, <4>3, <4>4, <2>1, <1>5 DEF TakenIn
      <4> QED BY <4>1, <4>5, <2>10
    <3> QED BY <3>5, <3>6
  <2> QED BY <2>9, <2>10, <1>1, <1>5
<1> QED BY <1>11, <1>12, <1>13

\* The link is undisturbed only if it was so before, and then nothing leaves
\* the wire but what the reassembler reads.
LEMMA UndisturbedBefore ==
  ASSUME Parts, [Next]_vars, Undisturbed'
  PROVE  /\ Undisturbed /\ ~ReadGap
         /\ Receive \/ Range(wire) \subseteq Range(wire')
<1>1. /\ open' /\ ~flagged' /\ ~told' /\ Gap \notin Range(wire')
      /\ faults'["lost"] = 0 /\ faults'["swapped"] = 0
  BY DEF Undisturbed
<1>2. /\ wire \in Seq(Items) /\ wire' \in Seq(Items) /\ faults \in [FaultKinds -> Nat] /\ SendInv
      /\ DOMAIN wire = 1..Len(wire) /\ Len(wire) \in Nat /\ DOMAIN wire' = 1..Len(wire')
  BY WireKeeps, LenProperties DEF Parts
<1>3. ~ReadGap
  BY <1>1 DEF ReadGap, SetsFlag
<1>4. open /\ ~flagged /\ ~told
  <2>1. CASE RecvBegins
    BY <2>1, <1>1 DEF RecvBegins, taskVars, Parts, RestTypes
  <2>2. CASE WatchLags \/ WatchSeesLoss \/ WatchAborts
    BY <2>2, <1>1 DEF WatchLags, WatchSeesLoss, WatchAborts, SetsFlag, Aborted
  <2>3. CASE Sends \/ Disturbs \/ UNCHANGED vars
    <3>1. open' = open /\ flagged' = flagged /\ told' = told
      BY <2>3 DEF vars, taskVars, signalVars, readVars, Sends, BeginSend, LockSink, WriteFragment,
           WriteFails, Disturbs
    <3> QED BY <3>1, <1>1
  <2>4. CASE Receive \/ HandOver \/ Tick \/ Elapse \/ \E who \in {"reassembly", "watcher"} : Notify(who)
    <3>1. open' = open /\ flagged' = flagged /\ told' = told
      BY <2>4 DEF taskVars, signalVars, readVars, Receive, HandOver, Tick, Elapse, Notify
    <3> QED BY <3>1, <1>1
  <2>5. CASE RecvParks \/ RecvMessage \/ RecvClosed \/ RecvWoken \/ RecvDropped
    <3>1. open' = open /\ flagged' = flagged /\ told' = told
      BY <2>5 DEF taskVars, signalVars, readVars, RecvParks, RecvMessage, RecvClosed, RecvWoken,
           RecvDropped
    <3> QED BY <3>1, <1>1
  <2> QED BY <2>1, <2>2, <2>3, <2>4, <2>5, <1>3 DEF Next, Reassembles, Watches, Recv
<1>5. CASE wire' = wire /\ faults'["swapped"] = faults["swapped"] /\ faults'["lost"] = faults["lost"]
  BY <1>1, <1>3, <1>4, <1>5 DEF Undisturbed
<1>6. CASE Writes /\ faults'["swapped"] = faults["swapped"] /\ faults'["lost"] = faults["lost"]
  <2>1. PICK h \in Handles : lock = h /\ unsent[h] # <<>> /\ wire' = Append(wire, Head(unsent[h]))
    BY <1>6 DEF Writes
  <2>2. Head(unsent[h]) \in Items
    <3>1. unsent[h] \in Seq(Fragments) /\ 1 \in 1..Len(unsent[h]) /\ Head(unsent[h]) = unsent[h][1]
      BY <2>1, <1>2, UnsentIs
    <3> QED BY <3>1, ElementOfSeq DEF Items
  <2>3. \A j \in 1..Len(wire) : j \in DOMAIN wire' /\ wire'[j] = wire[j]
    <3>1. Len(wire') = Len(wire) + 1
          /\ \A j \in 1..Len(wire) + 1 : wire'[j] = IF j <= Len(wire) THEN wire[j] ELSE Head(unsent[h])
      BY <2>1, <2>2, <1>2, EndsAre
    <3> QED BY <3>1, <1>2
  <2>4. Range(wire) \subseteq Range(wire')
    BY <2>3, <1>2 DEF Range
  <2> QED BY <2>4, <1>1, <1>3, <1>4, <1>6 DEF Undisturbed
<1>7. CASE Disturbs
  <2>1. Undisturbing
    BY <1>2, <1>7, DisturbedWire DEF Disturbs
  <2> QED BY <2>1, <1>1, <1>3, <1>4 DEF Undisturbing, Undisturbed
<1>8. CASE Receive /\ wire # <<>> /\ wire' = Tail(wire) /\ faults' = faults
  <2>1. /\ Len(wire') = Len(wire) - 1 /\ Head(wire) = wire[1] /\ Head(wire) # Gap
        /\ \A j \in 1..Len(wire) - 1 : wire'[j] = wire[j + 1]
    BY <1>2, <1>8, EndsAre DEF Receive
  <2>2. ASSUME NEW k \in 1..Len(wire) PROVE wire[k] # Gap
    <3>1. CASE k = 1
      BY <3>1, <2>1
    <3>2. CASE k # 1
      <4>1. k - 1 \in 1..Len(wire) - 1 /\ (k - 1) + 1 = k
        BY <3>2, <1>2
      <4>2. wire'[k - 1] = wire[k] /\ k - 1 \in DOMAIN wire'
        BY <4>1, <2>1, <1>2
      <4> QED BY <4>2, <1>1 DEF Range
    <3> QED BY <3>1, <3>2
  <2>3. Gap \notin Range(wire)
    BY <2>2, <1>2 DEF Range
  <2> QED BY <2>3, <1>1, <1>3, <1>4, <1>8 DEF Undisturbed
<1> QED BY <1>2, <1>3, <1>5, <1>6, <1>7, <1>8, WireSteps

\* What has arrived has arrived for good, while the task runs.
LEMMA ArrivedStays ==
  ASSUME MaxMessages <= IdSpace, Parts, NoneEmpty(sent), NoneEmpty(sent'), [Next]_vars, open',
         NEW m, Arrived(m)
  PROVE  Arrived(m)'
<1>1. Queued \in Seq(Payloads) /\ DOMAIN Queued = 1..Len(Queued) /\ Len(Queued) \in Nat
      /\ Queued' \in Seq(Payloads) /\ DOMAIN Queued' = 1..Len(Queued')
  BY QueuedSteps, LenProperties
<1>2. received \subseteq received'
  BY QueuedSteps
<1>3. CASE m \in received
  BY <1>2, <1>3 DEF Arrived
<1>4. CASE \E k \in DOMAIN Queued : MessageOf(Queued[k]) = m
  <2>1. PICK k \in 1..Len(Queued) : MessageOf(Queued[k]) = m
    BY <1>1, <1>4
  <2>2. \A q : q = Queued[k] => MessageOf(q)' = m
    <3>1. PICK l \in Range(order) : Queued[k] = Payload(l, sent[l])
      BY <1>1 DEF Parts, QueuedWasSent
    <3>2. l \in DOMAIN sent /\ l \in DOMAIN sent' /\ sent'[l] = sent[l]
      BY SendKeeps DEF Parts, Keeps
    <3>3. SenderOf(sent, Queued[k]) = l /\ SenderOf(sent', Queued[k]) = l
      BY <3>1, <3>2, SenderOfIs
    <3> QED BY <3>3, <2>1, ArrivalsAre
  <2>3. ASSUME NEW j \in DOMAIN Queued', Queued'[j] = Queued[k] PROVE Arrived(m)'
    <3>1. \A q : q = Queued'[j] => MessageOf(q)' = m
      BY <2>2, <2>3
    <3> QED BY <3>1 DEF Arrived, MessageOf
  <2>4. CASE Queued' = Queued
    BY <2>3, <2>4, <1>1
  <2>5. CASE Queued' = Append(Queued, Payload(Head(wire).of, sent[Head(wire).of])) /\ Arrives
    <3>1. Payload(Head(wire).of, sent[Head(wire).of]) \in Payloads
      <4>1. Heard(partial, Head(wire))
        BY <2>5 DEF Arrives
      <4> QED BY <4>1, GenuineIs, PayloadIs DEF Heard
    <3>2. k \in DOMAIN Queued' /\ Queued'[k] = Queued[k]
      <4>1. Len(Queued') = Len(Queued) + 1
            /\ \A j \in 1..Len(Queued) + 1 : Queued'[j] =
                 IF j <= Len(Queued) THEN Queued[j] ELSE Payload(Head(wire).of, sent[Head(wire).of])
        BY <3>1, <2>5, <1>1, EndsAre
      <4> QED BY <4>1, <1>1
    <3> QED BY <3>2, <2>3
  <2>6. CASE Queued # <<>> /\ Queued' = Tail(Queued) /\ latest' = MessageOf(Queued[1])
             /\ received' = received \cup {latest'}
    <3>1. CASE k = 1
      BY <3>1, <2>1, <2>6 DEF Arrived
    <3>2. CASE k # 1
      <4>1. k - 1 \in 1..Len(Queued) - 1 /\ (k - 1) + 1 = k
        BY <3>2, <1>1
      <4>2. Len(Queued') = Len(Queued) - 1 /\ \A j \in 1..Len(Queued) - 1 : Queued'[j] = Queued[j + 1]
        BY <2>6, <1>1, EndsAre
      <4>3. k - 1 \in DOMAIN Queued' /\ Queued'[k - 1] = Queued[k]
        BY <4>1, <4>2, <1>1
      <4> QED BY <4>3, <2>3
    <3> QED BY <3>1, <3>2
  <2> QED BY <2>4, <2>5, <2>6, QueuedSteps
<1> QED BY <1>3, <1>4 DEF Arrived

\* What still comes goes on coming, if the wire keeps it and the send with the
\* sink goes on.
LEMMA ComingStays ==
  ASSUME NEW m, NEW i, Coming(m, i),
         lock # NoHandle => lock' = lock /\ unsent'[lock] = unsent[lock],
         \A x \in Range(wire) : Ours(x) /\ x.of = m /\ x.index = i => x \in Range(wire')
  PROVE  Coming(m, i)'
<1>1. CASE \E j \in DOMAIN wire : Ours(wire[j]) /\ wire[j].of = m /\ wire[j].index = i
  <2>1. PICK j \in DOMAIN wire : Ours(wire[j]) /\ wire[j].of = m /\ wire[j].index = i
    BY <1>1
  <2>2. PICK k \in DOMAIN wire' : wire'[k] = wire[j]
    BY <2>1 DEF Range
  <2> QED BY <2>1, <2>2 DEF Coming, Ours
<1>2. CASE lock # NoHandle /\ m = unsent[lock][1].of /\ unsent[lock][1].index <= i
  BY <1>2 DEF Coming
<1> QED BY <1>1, <1>2 DEF Coming

\* A message that has so much in the new table, with the rest still coming, waits.
LEMMA PendingIs ==
  ASSUME Keeps, NEW m \in DOMAIN sent,
         NEW k \in 0..FragmentsFor(sent[m]) - 1, TakenIn(partial', MsgId(m), k),
         \A i \in k..FragmentsFor(sent[m]) - 1 : Coming(m, i)'
  PROVE  Pending(m)'
<1>1. sent'[m] = sent[m] /\ Taken(m, k)'
  BY TakenIs DEF Keeps
<1> QED BY <1>1 DEF Pending

\* A message that is on its way has its reason, has arrived, or waits as before.
LEMMA StillOnItsWay ==
  ASSUME MaxMessages <= IdSpace, 0 \notin Sizes, Orderly, NothingIsLost, [Next]_vars, Undisturbed',
         NEW m \in DOMAIN sent, Underway(m)
  PROVE  Excused(m)' \/ Arrived(m)' \/ Pending(m)
<1>1. Parts /\ NoneEmpty(sent) /\ NoneEmpty(sent') /\ open'
  BY NoneEmptyStays DEF Orderly, Undisturbed
<1>2. Excused(m) \/ Arrived(m) \/ Pending(m)
  BY <1>1, UndisturbedBefore DEF NothingIsLost
<1>3. Arrived(m) => Arrived(m)'
  BY <1>1, ArrivedStays
<1>4. expired \subseteq expired'
  <2>1. CASE Receive \/ Tick
    BY <2>1 DEF Receive, Tick
  <2>2. CASE ~(Receive \/ Tick)
    BY <2>2 DEF Next, vars, taskVars, Sends, BeginSend, LockSink, WriteFragment, WriteFails, Disturbs,
         Reassembles, ReadGap, HandOver, Elapse, Notify, Watches, WatchSeesLoss, WatchLags,
         WatchAborts, Aborted, Recv, RecvBegins, RecvParks, RecvMessage, RecvClosed, RecvWoken,
         RecvDropped
  <2> QED BY <2>1, <2>2
<1>5. Excused(m) => Excused(m)'
  <2>1. sent'[m] = sent[m]
    BY <1>1, SendKeeps DEF Keeps, Parts
  <2> QED BY <2>1, <1>4 DEF Excused
<1> QED BY <1>2, <1>3, <1>5

\* What the send with the sink writes next.
LEMMA WrittenIs ==
  ASSUME SendInv, lock # NoHandle
  PROVE  LET s == unsent[lock]
             x == s[1]
         IN /\ lock \in Handles /\ s # <<>> /\ Head(s) = x
            /\ x \in Items /\ Ours(x) /\ x.index \in Nat
            /\ x.of \in DOMAIN sent /\ x.of \in Range(order) /\ x.of \notin whole
            /\ \A i \in 0..FragmentsFor(sent[x.of]) - 1 :
                  x.index < i => \A h \in Handles : ~(WriteFragment(h) /\ lock' = NoHandle)
<1> DEFINE s == unsent[lock]
           x == s[1]
<1>1. lock \in Handles /\ s # <<>> /\ x.of \in Range(order) /\ x.of \notin whole
  BY LockIsLast DEF SendInv, TurnsAreOnce
<1>2. /\ s \in Seq(Fragments) /\ Len(s) \in Nat /\ Len(s) > 0 /\ Head(s) = x
      /\ x.of \in DOMAIN sent /\ x.of \in Nat /\ sent[x.of] \in Nat
      /\ \A k \in 1..Len(s) : Genuine(s[k]) /\ s[k].index = FragmentsFor(sent[x.of]) - Len(s) + k - 1
  BY <1>1, UnsentIs
<1>3. 1 \in 1..Len(s) /\ FragmentsFor(sent[x.of]) \in Nat
  <2>1. \A n \in Nat : n > 0 => 1 \in 1..n
    OBVIOUS
  <2>2. \A n \in Nat : FragmentsFor(n) \in Nat
    BY FragmentsForIs
  <2> HIDE DEF s, x
  <2> QED BY <1>2, <2>1, <2>2
<1>4. x \in Fragments
  BY <1>2, <1>3, ElementOfSeq
<1>5. x.of # 0
  BY <1>2, LenProperties DEF SendInv, SendTypes
<1>6. Ours(x)
  <2>1. x.kind = "fragment"
    BY <1>4 DEF Fragments
  <2>2. x # Gap /\ x # TooShort
    BY <2>1 DEF Gap, TooShort
  <2> QED BY <2>2, <1>5 DEF Ours, ForeignWrites
<1>7. ASSUME NEW i \in 0..FragmentsFor(sent[x.of]) - 1, x.index < i,
             NEW h \in Handles, WriteFragment(h), lock' = NoHandle
      PROVE  FALSE
  <2>1. lock = h /\ Tail(s) = <<>>
    BY <1>7, ConstantTypes DEF WriteFragment
  <2>2. Len(s) - 1 = 0
    BY <2>1, <1>1, <1>2, EndsAre, EmptySeq
  <2>3. x.index = FragmentsFor(sent[x.of]) - Len(s) + 1 - 1
    BY <1>2, <1>3
  <2>4. \A a, b, c \in Nat : b - 1 = 0 /\ a - b + 1 - 1 < c => c \notin 0..a - 1
    OBVIOUS
  <2>5. i \in Nat
    BY <1>3, <1>7
  <2>6. FragmentsFor(sent[x.of]) - Len(s) + 1 - 1 < i
    BY <2>3, <1>7
  <2> HIDE DEF s, x
  <2> QED BY <2>2, <2>4, <2>5, <2>6, <1>2, <1>3, <1>7
<1>8. x \in Items /\ x.index \in Nat
  BY <1>4 DEF Items, Fragments
<1> QED BY <1>1, <1>2, <1>6, <1>7, <1>8

\* Appending keeps what is there.
LEMMA AppendKeeps ==
  ASSUME NEW S, NEW s \in Seq(S), NEW x \in S
  PROVE  Range(s) \subseteq Range(Append(s, x)) /\ x \in Range(Append(s, x))
<1>1. /\ Append(s, x) \in Seq(S) /\ DOMAIN Append(s, x) = 1..Len(s) + 1
      /\ \A j \in 1..Len(s) + 1 : Append(s, x)[j] = IF j <= Len(s) THEN s[j] ELSE x
      /\ DOMAIN s = 1..Len(s) /\ Len(s) \in Nat
  BY EndsAre, LenProperties
<1>2. \A j \in 1..Len(s) : j \in 1..Len(s) + 1 /\ Append(s, x)[j] = s[j]
  BY <1>1
<1>3. Len(s) + 1 \in 1..Len(s) + 1 /\ Append(s, x)[Len(s) + 1] = x
  BY <1>1
<1> QED BY <1>1, <1>2, <1>3 DEF Range

\* No step of a sender loses anything.
LEMMA SendLosesNothing ==
  ASSUME MaxMessages <= IdSpace, 0 \notin Sizes, Orderly, NothingIsLost, Sends, Undisturbed',
         NEW m \in DOMAIN sent', Underway(m)'
  PROVE  Excused(m)' \/ Arrived(m)' \/ Pending(m)'
<1>1. Parts /\ SendInv /\ Keeps /\ [Next]_vars /\ SendInv'
  BY SendKeeps DEF Orderly, Parts, Next
<1>2. PICK h \in Handles :
         \/ \E len \in Sizes : BeginSend(h, len)
         \/ LockSink(h) \/ WriteFragment(h) \/ WriteFails(h)
  BY DEF Sends
<1>3. partial' = partial
  BY <1>2 DEF BeginSend, LockSink, WriteFragment, WriteFails, taskVars
<1>4. wire \in Seq(Items)
  BY <1>1 DEF Parts
<1>5. ASSUME NEW k \in 0..FragmentsFor(sent[m]) - 1, m \in DOMAIN sent, Taken(m, k),
             \A i \in k..FragmentsFor(sent[m]) - 1 : Coming(m, i)'
      PROVE  Pending(m)'
  BY <1>1, <1>3, <1>5, TakenIs, PendingIs
<1>6. ASSUME m \in DOMAIN sent, Underway(m),
             \A i \in 0..FragmentsFor(sent[m]) - 1 : Coming(m, i) => Coming(m, i)'
      PROVE  Excused(m)' \/ Arrived(m)' \/ Pending(m)'
  <2>1. SUFFICES ASSUME Pending(m) PROVE Pending(m)'
    BY <1>1, <1>6, StillOnItsWay
  <2>2. PICK k \in 0..FragmentsFor(sent[m]) - 1 :
          Taken(m, k) /\ \A i \in k..FragmentsFor(sent[m]) - 1 : Coming(m, i)
    BY <2>1 DEF Pending
  <2>3. \A i \in k..FragmentsFor(sent[m]) - 1 : i \in 0..FragmentsFor(sent[m]) - 1
    BY <2>2
  <2>4. \A i \in k..FragmentsFor(sent[m]) - 1 : Coming(m, i)'
    BY <2>2, <2>3, <1>6
  <2> QED BY <2>2, <2>4, <1>5, <1>6
<1>7. whole \subseteq DOMAIN sent
  BY <1>1 DEF SendInv, TurnsAreOnce
<1>8. CASE \E len \in Sizes : BeginSend(h, len)
  <2>1. /\ wire' = wire /\ lock' = lock /\ whole' = whole /\ unsent[h] = <<>>
        /\ \A g \in Handles : g # h => unsent'[g] = unsent[g]
    BY <1>1, <1>8 DEF BeginSend, SendInv, SendTypes
  <2>2. lock # NoHandle => lock # h /\ unsent'[lock] = unsent[lock] /\ unsent[lock][1].of \in DOMAIN sent
    BY <2>1, <1>1, WrittenIs
  <2>3. Underway(m) /\ m \in DOMAIN sent
    BY <2>1, <2>2, <1>7 DEF Underway
  <2>4. \A i \in 0..FragmentsFor(sent[m]) - 1 : Coming(m, i) => Coming(m, i)'
    BY <2>1, <2>2, ComingStays
  <2> QED BY <2>3, <2>4, <1>6
<1>9. CASE LockSink(h)
  <2>1. wire' = wire /\ lock = NoHandle /\ lock' = h /\ whole' = whole /\ unsent' = unsent
        /\ unsent[h] # <<>> /\ h # NoHandle /\ sent' = sent
    BY <1>9, ConstantTypes DEF LockSink
  <2>2. CASE m \in whole
    <3>1. Underway(m) /\ m \in DOMAIN sent
      BY <2>2, <1>7 DEF Underway
    <3>2. \A i \in 0..FragmentsFor(sent[m]) - 1 : Coming(m, i) => Coming(m, i)'
      BY <2>1, ComingStays
    <3> QED BY <3>1, <3>2, <1>6
  <2>3. CASE m = unsent[h][1].of
    <3>1. m \notin Range(order) /\ m \in DOMAIN sent /\ sent[m] \in Nat /\ m \in Nat
      BY <2>1, <2>3, <1>1, <1>9, LockSinkKeeps, UnsentIs
    <3>2. Len(unsent[h]) = FragmentsFor(sent[m])
      BY <2>1, <2>3, <1>1, ConstantTypes DEF SendInv, SendsAreApart
    <3>3. unsent[h][1].index = 0
      <4>1. /\ Len(unsent[h]) \in Nat /\ 1 \in 1..Len(unsent[h])
            /\ \A k \in 1..Len(unsent[h]) :
                 unsent[h][k].index = FragmentsFor(sent[m]) - Len(unsent[h]) + k - 1
        BY <2>1, <2>3, <1>1, UnsentIs
      <4>2. unsent[h][1].index = FragmentsFor(sent[m]) - Len(unsent[h]) + 1 - 1
        BY <4>1
      <4> QED BY <4>1, <4>2, <3>2
    <3>4. FragmentsFor(sent[m]) \in Nat \ {0}
      BY <3>1, FragmentsForIs
    <3>5. \A i \in 0..FragmentsFor(sent[m]) - 1 : Coming(m, i)'
      BY <2>1, <2>3, <3>3 DEF Coming
    <3>6. Taken(m, 0)
      <4>1. ASSUME NEW p \in Range(partial) PROVE p.id # MsgId(m)
        <5>1. ProperPart(p) /\ p.id \in Nat
          <6>1. PICK j \in 1..Len(partial) : p = partial[j]
            BY <1>1, RangeIs DEF Parts, Sound
          <6>2. ProperPart(p) /\ p \in PartialMessages
            BY <6>1, <1>1, ElementOfSeq DEF Parts, Sound
          <6> QED BY <6>2 DEF PartialMessages
        <5>2. MsgId(m) = m - 1
          <6>1. m \in 1..MaxMessages
            <7>1. sent \in Seq(Nat) /\ Len(sent) <= MaxMessages /\ MaxMessages \in Nat
              BY <1>1, ConstantTypes DEF SendInv, SendTypes, SendsAreApart
            <7>2. m \in 1..Len(sent) /\ Len(sent) \in Nat
              BY <7>1, <3>1, LenProperties
            <7> QED BY <7>1, <7>2
          <6> QED BY <6>1, MsgIdIs
        <5>3. p.id + 1 # m
          BY <5>1, <3>1 DEF ProperPart, Source
        <5> QED BY <5>1, <5>2, <5>3, <3>1
      <4> QED BY <4>1, TakenIs DEF TakenIn
    <3>7. 0 \in 0..FragmentsFor(sent[m]) - 1
      BY <3>4
    <3>8. Pending(m)'
      BY <3>1, <3>5, <3>6, <3>7, <1>5
    <3> QED BY <3>8
  <2> QED BY <2>1, <2>2, <2>3 DEF Underway
<1>10. CASE WriteFragment(h) \/ WriteFails(h)
  <2> DEFINE x == unsent[h][1]
  <2>1. lock = h /\ lock # NoHandle
    BY <1>10, ConstantTypes DEF WriteFragment, WriteFails
  <2>2. /\ Head(unsent[h]) = x /\ x \in Items /\ Ours(x) /\ x.index \in Nat
        /\ x.of \in DOMAIN sent /\ x.of \notin whole
        /\ \A i \in 0..FragmentsFor(sent[x.of]) - 1 :
              x.index < i => ~(WriteFragment(h) /\ lock' = NoHandle)
    BY <2>1, <1>1, WrittenIs
  <2> HIDE DEF x
  <2>3. /\ WriteFragment(h) => wire' = Append(wire, x) /\ (whole' = whole \/ whole' = whole \cup {x.of})
        /\ WriteFails(h) => (wire' = wire \/ wire' = Append(wire, x)) /\ lock' = NoHandle /\ whole' = whole
    BY <2>2 DEF WriteFragment, WriteFails
  <2>4. Range(wire) \subseteq Range(wire') /\ (WriteFragment(h) => x \in Range(wire'))
    <3>1. \A w : w = Append(wire, x) => Range(wire) \subseteq Range(w) /\ x \in Range(w)
      BY <2>2, <1>4, AppendKeeps
    <3>2. wire' = wire \/ wire' = Append(wire, x)
      BY <2>3, <1>10
    <3> QED BY <3>1, <3>2, <2>3
  <2>5. ASSUME NEW i, NEW j \in DOMAIN wire, Ours(wire[j]), wire[j].of = m, wire[j].index = i
        PROVE  Coming(m, i)'
    <3>1. PICK l \in DOMAIN wire' : wire'[l] = wire[j]
      BY <2>4 DEF Range
    <3> QED BY <2>5, <3>1 DEF Coming, Ours
  <2>8. m \in whole' \/ (lock' # NoHandle /\ m = unsent'[lock'][1].of)
    BY DEF Underway
  <2>6. CASE WriteFails(h)
    <3>1. m \in whole /\ m # x.of
      BY <2>2, <2>3, <2>6, <2>8
    <3>2. \A i \in 0..FragmentsFor(sent[m]) - 1 : Coming(m, i) => Coming(m, i)'
      BY <2>1, <2>5, <3>1 DEF Coming, x
    <3> QED BY <3>1, <3>2, <1>6, <1>7 DEF Underway
  <2>7. CASE WriteFragment(h)
    <3>1. lock' # NoHandle => lock' = h /\ unsent'[lock'][1].of = x.of
                              /\ unsent'[lock'][1].index = x.index + 1
      BY <2>7, <1>1, NextToWrite DEF x
    <3>2. Underway(m) /\ m \in DOMAIN sent
      <4>1. m \in whole \/ m = x.of
        BY <2>8, <2>3, <2>7, <3>1
      <4> QED BY <4>1, <2>1, <2>2, <1>7 DEF Underway, x
    <3>3. ASSUME NEW i \in 0..FragmentsFor(sent[m]) - 1, m = x.of, x.index <= i
          PROVE  Coming(m, i)'
      <4>1. CASE x.index = i
        <5>1. PICK l \in DOMAIN wire' : wire'[l] = x
          BY <2>4, <2>7 DEF Range
        <5> QED BY <5>1, <4>1, <3>3, <2>2 DEF Coming, Ours
      <4>2. CASE x.index # i
        <5>1. x.index < i
          BY <4>2, <3>3, <2>2
        <5>2. lock' # NoHandle
          BY <5>1, <3>3, <2>2, <2>7
        <5>3. x.index + 1 <= i
          BY <5>1, <2>2
        <5> QED BY <5>2, <5>3, <3>1, <3>3 DEF Coming
      <4> QED BY <4>1, <4>2
    <3>4. \A i \in 0..FragmentsFor(sent[m]) - 1 : Coming(m, i) => Coming(m, i)'
      BY <2>1, <2>5, <3>3 DEF Coming, x
    <3> QED BY <3>2, <3>4, <1>6
  <2> QED BY <2>6, <2>7, <1>10
<1> QED BY <1>2, <1>8, <1>9, <1>10

\* The message that waits for the queue has arrived.
LEMMA HandedOn ==
  ASSUME inbound' \in Seq(Payloads), sent' = sent, NoneEmpty(sent), NEW m \in DOMAIN sent,
         handing' = << Payload(m, sent[m]) >>
  PROVE  Arrived(m)'
<1> DEFINE p == Payload(m, sent[m])
<1>1. p \in Payloads
  <2>1. m \in Nat /\ sent[m] \in Nat
    BY LenProperties, ElementOfSeq DEF NoneEmpty
  <2> QED BY <2>1, PayloadIs
<1>2. SenderOf(sent, p) = m
  BY SenderOfIs
<1> HIDE DEF p
<1>3. << p >> \in Seq(Payloads) /\ Len(<< p >>) = 1 /\ << p >>[1] = p /\ << p >> # <<>>
  BY <1>1
<1>4. handing' = << p >>
  BY DEF p
<1>5. /\ DOMAIN Queued' = 1..Len(inbound') + 1 /\ Queued'[Len(inbound') + 1] = p
      /\ Len(inbound') \in Nat
  <2>1. \A q \in Seq(Payloads) : /\ DOMAIN (q \o << p >>) = 1..Len(q) + 1
                                 /\ (q \o << p >>)[Len(q) + 1] = p /\ Len(q) \in Nat
    BY <1>3, QueuedIs
  <2> QED BY <2>1, <1>4 DEF Queued
<1>6. \A q : q = p => MessageOf(q)' = m
  BY <1>2, ArrivalsAre
<1>7. PICK k \in DOMAIN Queued' : Queued'[k] = p
  BY <1>5
<1>8. \A q : q = Queued'[k] => MessageOf(q)' = m
  BY <1>6, <1>7
<1> QED BY <1>7, <1>8 DEF Arrived, MessageOf

\* No fragment the reassembler takes in loses anything.
LEMMA ReceiveLosesNothing ==
  ASSUME MaxMessages <= IdSpace, 0 \notin Sizes, Orderly, NothingIsLost, Receive, Undisturbed',
         NEW m \in DOMAIN sent', Underway(m)'
  PROVE  Excused(m)' \/ Arrived(m)' \/ Pending(m)'
<1>1. Parts /\ SendInv /\ Keeps /\ [Next]_vars /\ SendInv' /\ NoneEmpty(sent)
  BY SendKeeps DEF Orderly, Parts, Next, Reassembles
<1>2. /\ sent' = sent /\ lock' = lock /\ unsent' = unsent /\ whole' = whole /\ order' = order
      /\ inbound' = inbound /\ wire' = Tail(wire) /\ wire # <<>>
  BY DEF Receive, sendVars
<1>3. m \in DOMAIN sent /\ Underway(m)
  BY <1>2 DEF Underway
<1>4. SUFFICES ASSUME Pending(m) PROVE Excused(m)' \/ Arrived(m)' \/ Pending(m)'
  BY <1>1, <1>3, StillOnItsWay
<1>5. InOrderOnWire /\ BehindOthers /\ BehindTheLock
  <2>1. Undisturbed
    BY <1>1, UndisturbedBefore
  <2> QED BY <2>1, WireInOrderIs DEF Orderly, Undisturbed
<1>6. PICK f : f = Head(wire)
  OBVIOUS
<1>7. PICK n : n = FragmentsFor(sent[m])
  OBVIOUS
<1>8. /\ m \in Nat \ {0} /\ sent[m] \in Nat /\ sent[m] # 0 /\ n \in Nat \ {0}
      /\ MsgId(m) = m - 1 /\ m \in Range(order)
  <2>1. sent \in Seq(Nat) /\ Len(sent) <= MaxMessages /\ MaxMessages \in Nat
    BY <1>1, ConstantTypes DEF SendInv, SendTypes, SendsAreApart
  <2>2. m \in 1..Len(sent) /\ Len(sent) \in Nat /\ sent[m] \in Nat
    BY <2>1, <1>3, LenProperties, ElementOfSeq
  <2>3. m \in 1..MaxMessages /\ m \in Nat \ {0}
    BY <2>1, <2>2
  <2>4. m \in Range(order)
    BY <1>1, <1>3, LockIsLast DEF Underway, SendInv, TurnsAreOnce
  <2> QED BY <2>2, <2>3, <2>4, <1>1, <1>3, <1>7, FragmentsForIs, MsgIdIs DEF NoneEmpty
<1>9. /\ f = wire[1] /\ 1 \in DOMAIN wire
      /\ DOMAIN wire = 1..Len(wire) /\ DOMAIN wire' = 1..Len(wire) - 1 /\ Len(wire) \in Nat
      /\ \A j \in 1..Len(wire) - 1 : wire'[j] = wire[j + 1]
  <2>1. wire \in Seq(Items)
    BY <1>1 DEF Parts
  <2>2. /\ Head(wire) = wire[1] /\ Tail(wire) \in Seq(Items) /\ Len(Tail(wire)) = Len(wire) - 1
        /\ Len(wire) > 0 /\ \A j \in 1..Len(wire) - 1 : Tail(wire)[j] = wire[j + 1]
    BY <2>1, <1>2, EndsAre
  <2> QED BY <2>1, <2>2, <1>2, <1>6, LenProperties
<1>10. PICK k \in 0..n - 1 : Taken(m, k) /\ \A i \in k..n - 1 : Coming(m, i)
  BY <1>4, <1>7 DEF Pending
<1>11. k \in Nat /\ k <= n - 1 /\ TakenIn(partial, MsgId(m), k)
  BY <1>8, <1>10, TakenIs
<1>12. ASSUME NEW i, Coming(m, i), ~(Ours(f) /\ f.of = m /\ f.index = i)
       PROVE  Coming(m, i)'
  <2>1. CASE \E j \in DOMAIN wire : Ours(wire[j]) /\ wire[j].of = m /\ wire[j].index = i
    <3>1. PICK j \in DOMAIN wire : Ours(wire[j]) /\ wire[j].of = m /\ wire[j].index = i
      BY <2>1
    <3>2. j # 1
      BY <3>1, <1>9, <1>12
    <3>3. j - 1 \in 1..Len(wire) - 1 /\ (j - 1) + 1 = j
      BY <3>1, <3>2, <1>9
    <3>4. PICK l \in DOMAIN wire' : wire'[l] = wire[j]
      BY <3>3, <1>9
    <3> QED BY <3>1, <3>4 DEF Coming, Ours
  <2>2. CASE lock # NoHandle /\ m = unsent[lock][1].of /\ unsent[lock][1].index <= i
    BY <2>2, <1>2 DEF Coming
  <2> QED BY <2>1, <2>2, <1>12 DEF Coming
<1>13. ASSUME NEW l \in k..n - 1, TakenIn(partial', MsgId(m), l),
              \A i \in l..n - 1 : ~(Ours(f) /\ f.of = m /\ f.index = i)
       PROVE  Pending(m)'
  <2>1. l \in 0..n - 1 /\ \A i \in l..n - 1 : i \in k..n - 1
    BY <1>8, <1>11
  <2>2. \A i \in l..n - 1 : Coming(m, i)'
    BY <2>1, <1>10, <1>12, <1>13
  <2> QED BY <2>1, <2>2, <1>1, <1>3, <1>7, <1>13, PendingIs
<1>14. k \in k..n - 1
  BY <1>8, <1>11
<1>15. CASE ~Ours(f)
  <2>1. partial' = partial
    BY <1>1, <1>6, <1>15, ReceiveIs
  <2> QED BY <2>1, <1>11, <1>13, <1>14, <1>15
<1>16. CASE Ours(f)
  <2>1. /\ Heard(partial, f)
        /\ partial' = Accepted(partial, f).table /\ handing' = Accepted(partial, f).done
        /\ expired' = IF Malformed(f) THEN expired ELSE expired \cup TimedOut
    BY <1>1, <1>6, <1>16, ReceiveIs
  <2>2. /\ f.of \in Range(order) /\ f.of \in Nat \ {0} /\ f.id = f.of - 1 /\ f.index \in Nat
    <3>1. f.of \in Nat \ {0} /\ f.id = f.of - 1 /\ FragmentsFor(sent[f.of]) \in Nat \ {0}
          /\ f.index \in 0..FragmentsFor(sent[f.of]) - 1 /\ f.of \in Range(order)
      BY <2>1, GenuineIs DEF Heard
    <3> QED BY <3>1
  <2>3. ASSUME NEW j \in DOMAIN wire, j # 1, Ours(wire[j]) PROVE Before(f, wire[j])
    <3>1. 1 < j
      BY <2>3, <1>9
    <3> QED BY <3>1, <2>3, <1>5, <1>9, <1>16 DEF InOrderOnWire
  <2>4. \A l \in Range(order) : Turn(l) \in Nat /\ (Turn(l) = Turn(f.of) => l = f.of)
    BY <2>2, <1>1, TurnIs
  <2>5. CASE f.of # m
    <3>1. Coming(m, n - 1)
      BY <1>8, <1>10, <1>11
    <3>2. ~(Turn(m) <= Turn(f.of))
      <4>1. CASE \E j \in DOMAIN wire : Ours(wire[j]) /\ wire[j].of = m
        <5>1. PICK j \in DOMAIN wire : Ours(wire[j]) /\ wire[j].of = m
          BY <4>1
        <5>2. Before(f, wire[j])
          BY <5>1, <2>3, <2>5, <1>9
        <5>3. Turn(f.of) < Turn(m)
          BY <5>1, <5>2, <2>5 DEF Before
        <5> QED BY <5>3, <2>2, <2>4, <1>8
      <4>2. CASE lock # NoHandle /\ m = unsent[lock][1].of
        <5>1. Turn(f.of) <= Turn(m)
          BY <4>2, <2>2, <1>1, LockIsLast
        <5> QED BY <5>1, <2>2, <2>4, <2>5, <1>8
      <4> QED BY <3>1, <4>1, <4>2 DEF Coming
    <3>3. ASSUME NEW p \in Range(partial) PROVE p.id # MsgId(m)
      <4>1. PICK j \in DOMAIN partial : p = partial[j]
        BY DEF Range
      <4>2. Turn(Source(p)) <= Turn(f.of)
        BY <4>1, <1>5, <1>9, <1>16 DEF BehindOthers
      <4>3. p.id = MsgId(m) => Source(p) = m
        BY <1>8 DEF Source
      <4> QED BY <4>2, <4>3, <3>2
    <3>4. k = 0
      BY <3>3, <1>11 DEF TakenIn
    <3>5. \A p \in Range(partial') : p.id = f.id \/ p \in Range(partial)
      BY <2>1, AcceptedIsSane DEF Sane
    <3>6. f.id # MsgId(m)
      BY <2>2, <2>5, <1>8
    <3>7. TakenIn(partial', MsgId(m), k)
      BY <3>3, <3>4, <3>5, <3>6 DEF TakenIn
    <3> QED BY <3>7, <2>5, <1>13, <1>14
  <2>6. CASE f.of = m
    <3>1. f.index <= k
      <4> SUFFICES ASSUME ~(f.index <= k) PROVE FALSE
        OBVIOUS
      <4>1. Coming(m, k)
        BY <1>10, <1>14
      <4>2. CASE \E j \in DOMAIN wire : Ours(wire[j]) /\ wire[j].of = m /\ wire[j].index = k
        <5>1. PICK j \in DOMAIN wire : Ours(wire[j]) /\ wire[j].of = m /\ wire[j].index = k
          BY <4>2
        <5>2. j # 1
          BY <5>1, <1>9, <1>11
        <5>3. Before(f, wire[j])
          BY <5>1, <5>2, <2>3
        <5>4. Turn(f.of) = Turn(wire[j].of) /\ Turn(f.of) \in Nat
          BY <5>1, <2>2, <2>4, <2>6
        <5> QED BY <5>1, <5>3, <5>4 DEF Before
      <4>3. CASE lock # NoHandle /\ m = unsent[lock][1].of /\ unsent[lock][1].index <= k
        <5>1. f.index < unsent[lock][1].index
          BY <4>3, <2>6, <1>5, <1>9, <1>16 DEF BehindTheLock
        <5>2. unsent[lock][1].index \in Nat
          BY <4>3, <1>1, WrittenIs
        <5> QED BY <5>1, <5>2, <4>3, <2>2, <1>11
      <4> QED BY <4>1, <4>2, <4>3 DEF Coming
    <3>2. f.id = MsgId(m)
      BY <2>2, <2>6, <1>8
    <3>3. \/ sent[m] > MaxMessageLen
          \/ ~Malformed(f) /\ \E p \in Range(partial) : p.id = f.id /\ p.age >= Timeout
          \/ handing' = << Payload(m, sent[m]) >>
          \/ f.index < k /\ TakenIn(partial', f.id, k)
          \/ f.index = k /\ k + 1 <= n - 1 /\ TakenIn(partial', f.id, k + 1)
      <4>1. TakenIn(partial, f.id, k) /\ k \in 0..FragmentsFor(sent[f.of]) - 1 /\ sent[f.of] # 0
        BY <3>2, <2>6, <1>7, <1>8, <1>11
      <4> QED BY <4>1, <3>1, <2>1, <2>6, <1>7, AcceptedTakes
    <3>4. CASE sent[m] > MaxMessageLen
      BY <3>4, <1>2 DEF Excused
    <3>5. CASE ~Malformed(f) /\ \E p \in Range(partial) : p.id = f.id /\ p.age >= Timeout
      <4>1. MsgId(m) \in TimedOut
        BY <3>2, <3>5 DEF TimedOut
      <4> QED BY <4>1, <3>5, <2>1 DEF Excused
    <3>6. CASE handing' = << Payload(m, sent[m]) >>
      <4>1. inbound' \in Seq(Payloads)
        BY <1>1, <1>2 DEF Parts, QueueTypes
      <4> QED BY <4>1, <3>6, <1>1, <1>2, <1>3, HandedOn
    <3>7. CASE f.index < k /\ TakenIn(partial', f.id, k)
      <4>1. \A i \in k..n - 1 : f.index # i
        BY <3>7, <2>2, <1>11
      <4> QED BY <4>1, <3>2, <3>7, <1>13, <1>14
    <3>8. CASE f.index = k /\ k + 1 <= n - 1 /\ TakenIn(partial', f.id, k + 1)
      <4>1. k + 1 \in k..n - 1 /\ \A i \in k + 1..n - 1 : f.index # i
        BY <3>8, <2>2, <1>8, <1>11
      <4> QED BY <4>1, <3>2, <3>8, <1>13
    <3> QED BY <3>3, <3>4, <3>5, <3>6, <3>7, <3>8
  <2> QED BY <2>5, <2>6
<1> QED BY <1>15, <1>16

\* No step of anybody else loses anything.
LEMMA OthersLoseNothing ==
  ASSUME MaxMessages <= IdSpace, 0 \notin Sizes, Orderly, NothingIsLost, [Next]_vars,
         ~Sends, ~Receive, Undisturbed', NEW m \in DOMAIN sent', Underway(m)'
  PROVE  Excused(m)' \/ Arrived(m)' \/ Pending(m)'
<1>1. Parts /\ SendInv /\ Keeps /\ Undisturbed /\ ~ReadGap /\ Range(wire) \subseteq Range(wire')
  BY SendKeeps, UndisturbedBefore DEF Orderly, Parts
<1>2. sent' = sent /\ lock' = lock /\ unsent' = unsent /\ whole' = whole
  BY DEF Next, vars, sendVars, Disturbs, Reassembles, ReadGap, Receive, HandOver, Tick, Elapse,
     Notify, Watches, WatchSeesLoss, WatchLags, WatchAborts, Recv, RecvBegins, RecvParks,
     RecvMessage, RecvClosed, RecvWoken, RecvDropped
<1>3. m \in DOMAIN sent /\ Underway(m)
  BY <1>2 DEF Underway
<1>4. SUFFICES ASSUME Pending(m) PROVE Excused(m)' \/ Pending(m)'
  BY <1>1, <1>3, StillOnItsWay
<1>5. PICK k \in 0..FragmentsFor(sent[m]) - 1 :
        Taken(m, k) /\ \A i \in k..FragmentsFor(sent[m]) - 1 : Coming(m, i)
  BY <1>4 DEF Pending
<1>6. \A i \in k..FragmentsFor(sent[m]) - 1 : Coming(m, i)'
  BY <1>1, <1>2, <1>5, ComingStays
<1>7. TakenIn(partial, MsgId(m), k)
  BY <1>5, TakenIs
<1>8. TakenIn(partial', MsgId(m), k) => Pending(m)'
  BY <1>1, <1>3, <1>5, <1>6, PendingIs
<1>9. Sound(partial)
  BY <1>1 DEF Parts
<1>10. CASE partial' = partial
  BY <1>7, <1>8, <1>10
<1>11. CASE Tick
  <2>1. partial' = Alive(partial) /\ expired' = expired \cup TimedOut
    BY <1>11 DEF Tick
  <2>2. /\ Range(partial') \subseteq Range(partial)
        /\ \A p \in Range(partial) : p \in Range(partial') \/ p.age >= Timeout
    BY <2>1, <1>9, AliveIs
  <2>3. ASSUME MsgId(m) \notin TimedOut PROVE TakenIn(partial', MsgId(m), k)
    <3>1. \A p \in Range(partial) : p.id = MsgId(m) => p \in Range(partial')
      BY <2>2, <2>3 DEF TimedOut
    <3> QED BY <3>1, <2>2, <1>7 DEF TakenIn
  <2> QED BY <2>1, <2>3, <1>8 DEF Excused
<1>12. CASE Elapse
  <2>1. /\ DOMAIN partial' = DOMAIN partial
        /\ \A j \in DOMAIN partial : partial'[j].id = partial[j].id
              /\ partial'[j].bodies = partial[j].bodies /\ partial'[j].len = partial[j].len
    BY <1>9, <1>12, ElapsedIsSound DEF Elapse
  <2>2. TakenIn(partial', MsgId(m), k)
    <3>1. CASE k = 0
      <4>1. \A p \in Range(partial) : p.id # MsgId(m)
        BY <3>1, <1>7 DEF TakenIn
      <4>2. \A j \in DOMAIN partial' : partial'[j].id # MsgId(m)
        BY <4>1, <2>1 DEF Range
      <4> QED BY <4>2, <3>1 DEF TakenIn, Range
    <3>2. CASE k # 0
      <4>1. PICK j \in DOMAIN partial : /\ partial[j].id = MsgId(m)
                                        /\ DOMAIN partial[j].bodies = 0..k - 1
                                        /\ partial[j].len = k * Budget
        BY <3>2, <1>7 DEF TakenIn, Range
      <4>2. /\ partial'[j] \in Range(partial') /\ partial'[j].id = MsgId(m)
            /\ DOMAIN partial'[j].bodies = 0..k - 1 /\ partial'[j].len = k * Budget
        BY <4>1, <2>1 DEF Range
      <4> QED BY <4>2, <3>2 DEF TakenIn
    <3> QED BY <3>1, <3>2
  <2> QED BY <2>2, <1>8
<1>13. ~(WatchSeesLoss \/ WatchAborts)
  BY DEF Undisturbed, WatchSeesLoss, WatchAborts, Aborted
<1> QED BY <1>1, <1>10, <1>11, <1>12, <1>13, TableSteps

\* What is under way has its reason, has arrived, or waits, whatever happens.
LEMMA NothingIsLostStep ==
  ASSUME MaxMessages <= IdSpace, 0 \notin Sizes, Orderly, NothingIsLost, [Next]_vars
  PROVE  NothingIsLost'
<1>1. ASSUME Undisturbed', NEW m \in DOMAIN sent', Underway(m)'
      PROVE  Excused(m)' \/ Arrived(m)' \/ Pending(m)'
  BY <1>1, SendLosesNothing, ReceiveLosesNothing, OthersLoseNothing
<1> QED BY <1>1 DEF NothingIsLost

\* On a link that neither loses nor reorders, a message that is under way has
\* arrived, has timed out, is too long for the receiver, or waits to go on.
THEOREM StreamInvAlways ==
  MaxMessages <= IdSpace /\ 0 \notin Sizes => (Spec => []StreamInv)
<1> SUFFICES ASSUME MaxMessages <= IdSpace, 0 \notin Sizes PROVE Spec => []StreamInv
  OBVIOUS
<1>1. Init => Orderly /\ NothingIsLost
  <2>1. Init => NothingIsLost
    BY EmptySeq, LenProperties DEF Init, NothingIsLost
  <2> QED BY <2>1, OrderlyAtFirst
<1>2. Orderly /\ NothingIsLost /\ [Next]_vars => (Orderly /\ NothingIsLost)'
  BY OrderlyStep, NothingIsLostStep
<1>3. Orderly /\ NothingIsLost => StreamInv
  BY PartsAre DEF Orderly, StreamInv, OrderInv
<1> QED BY <1>1, <1>2, <1>3, PTL DEF Spec

\* Once everything is taken in, nothing is left to wait for.
LEMMA WaitsNoMore ==
  ASSUME SendInv, wire = <<>>, NEW m \in whole, Pending(m)
  PROVE  FALSE
<1>1. PICK k \in 0..FragmentsFor(sent[m]) - 1 :
        \A i \in k..FragmentsFor(sent[m]) - 1 : Coming(m, i)
  BY DEF Pending
<1>2. m \in DOMAIN sent /\ sent[m] \in Nat
  BY ElementOfSeq, LenProperties DEF SendInv, SendTypes, TurnsAreOnce
<1>3. FragmentsFor(sent[m]) \in Nat
  BY <1>2, FragmentsForIs
<1>4. k \in k..FragmentsFor(sent[m]) - 1
  BY <1>1, <1>3
<1>5. lock # NoHandle /\ m = unsent[lock][1].of
  BY <1>1, <1>4 DEF Coming
<1> QED BY <1>5, WrittenIs

\* No counted fault means that no fault of a kind that counts has struck.
LEMMA NoFaults ==
  ASSUME faults \in [FaultKinds -> Nat], faults["lost"] + faults["swapped"] = 0
  PROVE  faults["lost"] = 0 /\ faults["swapped"] = 0
BY DEF FaultKinds

\* Once everything in flight is taken in, a message that was written whole has
\* arrived, unless the radio lost or reordered a fragment, it timed out, it is
\* longer than the receiver allows, or the application was told of a gap: the
\* reassembler's limits, foreign writes, repetitions and full queues lose
\* nothing (NoSilentLoss).
THEOREM StreamLosesNothingSilently ==
  MaxMessages <= IdSpace /\ 0 \notin Sizes => (Spec => []NoSilentLoss)
<1>1. StreamInv => NoSilentLoss
  <2> SUFFICES ASSUME StreamInv, open, wire = <<>>, handing = <<>>, ~flagged, ~told,
                      faults["lost"] + faults["swapped"] = 0, NEW m \in whole
               PROVE  \/ m \in received \/ \E k \in DOMAIN inbound : MessageOf(inbound[k]) = m
                      \/ MsgId(m) \in expired
                      \/ sent[m] > MaxMessageLen
    BY DEF NoSilentLoss
  <2>1. Parts /\ SendInv
    BY PartsAre DEF StreamInv, OrderInv, Parts
  <2>2. Undisturbed
    BY <2>1, NoFaults, EmptySeq DEF Undisturbed, Parts, Range
  <2>3. m \in DOMAIN sent /\ Underway(m)
    BY <2>1 DEF SendInv, TurnsAreOnce, Underway
  <2>4. Excused(m) \/ Arrived(m)
    BY <2>1, <2>2, <2>3, WaitsNoMore DEF StreamInv, NothingIsLost
  <2>5. Queued = inbound
    BY <2>1, QueuedIs DEF Parts, QueueTypes, Queued
  <2> QED BY <2>4, <2>5 DEF Excused, Arrived
<1> QED BY <1>1, StreamInvAlways, PTL

-----------------------------------------------------------------------------
(* What recv promises *)

\* What the application has, and that the link has reordered, changes with
\* recv and with a swap alone.
LEMMA ReceiverStays ==
  ASSUME Parts, [Next]_vars, ~RecvMessage, ~RecvClosed, ~Disturbs
  PROVE  /\ received' = received /\ latest' = latest
         /\ (reader' = "ended") = (reader = "ended")
         /\ faults'["swapped"] = faults["swapped"]
<1>1. CASE Sends
  <2>1. PICK h \in Handles :
          \/ (\E len \in Sizes : BeginSend(h, len)) \/ LockSink(h) \/ WriteFragment(h)
          \/ WriteFails(h)
    BY <1>1 DEF Sends
  <2>2. received' = received /\ latest' = latest /\ reader' = reader
    BY <2>1 DEF BeginSend, LockSink, WriteFragment, WriteFails, readVars
  <2>3. faults' = faults \/ Strikes("failed")
    BY <2>1 DEF BeginSend, LockSink, WriteFragment, WriteFails
  <2>4. faults'["swapped"] = faults["swapped"]
    <3>1. "failed" \in FaultKinds /\ "swapped" \in FaultKinds
      BY DEF FaultKinds
    <3>2. faults \in [FaultKinds -> Nat]
      BY DEF Parts
    <3> QED BY <2>3, <3>1, <3>2, StrikeIs
  <2> QED BY <2>2, <2>4
<1>2. CASE Reassembles \/ Elapse \/ (\E who \in {"reassembly", "watcher"} : Notify(who))
  BY <1>2 DEF Reassembles, ReadGap, Receive, HandOver, Tick, Elapse, Notify, readVars
<1>3. CASE Watches
  BY <1>3 DEF Watches, WatchSeesLoss, WatchLags, WatchAborts, readVars
<1>4. CASE RecvBegins \/ RecvParks \/ RecvWoken \/ RecvDropped
  BY <1>4 DEF RecvBegins, RecvParks, RecvWoken, RecvDropped
<1>5. CASE UNCHANGED vars
  BY <1>5 DEF vars, readVars
<1> QED BY <1>1, <1>2, <1>3, <1>4, <1>5 DEF Next, Recv

\* A message recv returns had its turn, and the one before it no later.
LEMMA ReturnedInTurn ==
  ASSUME MaxMessages <= IdSpace, Orderly, RecvMessage
  PROVE  /\ latest' \in Range(order)
         /\ faults["swapped"] > 0 \/ latest = 0 \/ Turn(latest) <= Turn(latest')
         /\ received' = received \cup {latest'}
<1>1. /\ inbound # <<>> /\ latest' = MessageOf(Head(inbound))
      /\ received' = received \cup {latest'}
  BY DEF RecvMessage
<1>2. /\ inbound \in Seq(Payloads) /\ handing \in Seq(Payloads) /\ Len(handing) <= 1
      /\ faults["swapped"] \in Nat
  BY DEF Orderly, Parts, QueueTypes, FaultKinds
<1>3. Head(inbound) = inbound[1] /\ Len(inbound) \in Nat /\ Len(inbound) > 0
  BY <1>1, <1>2, EndsAre, LenProperties
<1>4. /\ Queued \in Seq(Payloads) /\ Len(Queued) \in Nat /\ 1 \in 1..Len(Queued)
      /\ Queued[1] = inbound[1]
  <2>1. /\ inbound \o handing \in Seq(Payloads) /\ Len(inbound \o handing) = Len(inbound) + Len(handing)
        /\ Len(handing) \in Nat /\ \A k \in 1..Len(inbound) : (inbound \o handing)[k] = inbound[k]
    BY <1>2, QueuedIs
  <2> QED BY <2>1, <1>3 DEF Queued
<1> DEFINE b == IF latest = 0 THEN 0 ELSE 1
<1>5. /\ DOMAIN Arrivals = 1..b + Len(Queued)
      /\ latest # 0 => Arrivals[1] = latest
      /\ Arrivals[b + 1] = latest'
  BY <1>1, <1>3, <1>4, ArrivalsAre, ListOfIs
<1>6. b + 1 \in DOMAIN Arrivals
  BY <1>4, <1>5
<1>7. latest' \in Range(order)
  BY <1>5, <1>6 DEF Orderly, ArrivalsHadTheirTurn, Range
<1>8. ASSUME ~(faults["swapped"] > 0), latest # 0 PROVE Turn(latest) <= Turn(latest')
  <2>1. faults["swapped"] = 0
    BY <1>2, <1>8
  <2>2. b = 1 /\ 1 \in DOMAIN Arrivals /\ 2 \in DOMAIN Arrivals
    BY <1>4, <1>5, <1>8
  <2>3. Turn(Arrivals[1]) <= Turn(Arrivals[2])
    BY <2>1, <2>2 DEF Orderly, InOrder
  <2> QED BY <2>2, <2>3, <1>5, <1>8
<1> QED BY <1>1, <1>7, <1>8

\* Every step of the channel is one of the service, or none that it sees.
LEMMA DatagramServiceStep ==
  ASSUME MaxMessages <= IdSpace, Orderly, [Next]_vars
  PROVE  [Received!Next]_(Received!vars)
<1>1. Parts /\ SendInv /\ faults \in [FaultKinds -> Nat] /\ faults' \in [FaultKinds -> Nat]
  BY WireKeeps DEF Orderly, Parts
<1>2. "swapped" \in FaultKinds /\ faults["swapped"] \in Nat /\ faults'["swapped"] \in Nat
  BY <1>1 DEF FaultKinds
<1>3. \A m \in Range(order) : m \in 1..MaxMessages
  <2>1. /\ sent \in Seq(Nat) /\ Len(sent) <= MaxMessages /\ MaxMessages \in Nat
        /\ Range(order) \subseteq DOMAIN sent
    BY <1>1, ConstantTypes DEF SendInv, SendTypes, SendsAreApart, TurnsAreOnce
  <2>2. DOMAIN sent = 1..Len(sent) /\ Len(sent) \in Nat
    BY <2>1, LenProperties
  <2> QED BY <2>1, <2>2
<1>4. CASE \E h \in Handles : LockSink(h)
  <2>1. PICK h \in Handles : LockSink(h)
    BY <1>4
  <2>2. PICK m : m = unsent[h][1].of
    OBVIOUS
  <2>3. order' = Append(order, m) /\ m \notin Range(order) /\ unsent[h] # <<>>
    BY <2>1, <2>2, <1>1, LockSinkKeeps DEF LockSink
  <2>4. m \in 1..MaxMessages
    <3>1. m \in DOMAIN sent
      BY <2>2, <2>3, <1>1, UnsentIs
    <3>2. /\ sent \in Seq(Nat) /\ Len(sent) <= MaxMessages /\ MaxMessages \in Nat
      BY <1>1, ConstantTypes DEF SendInv, SendTypes, SendsAreApart
    <3>3. m \in 1..Len(sent) /\ Len(sent) \in Nat
      BY <3>1, <3>2, LenProperties
    <3> QED BY <3>2, <3>3
  <2>5. UNCHANGED <<received, latest, reader, faults>>
    BY <2>1 DEF LockSink, readVars
  <2>6. Received!Takes(m)
    BY <2>3, <2>5 DEF Received!Takes, Range, Received!Range
  <2> QED BY <2>4, <2>6 DEF Received!Next
<1>5. CASE ~ \E h \in Handles : LockSink(h)
  <2>1. order' = order
    BY <1>1, <1>5, TurnStays
  <2>2. CASE RecvMessage
    <3>1. PICK m : m = latest'
      OBVIOUS
    <3>2. /\ m \in Range(order) /\ received' = received \cup {m} /\ latest' = m
          /\ faults["swapped"] > 0 \/ latest = 0 \/ Turn(latest) <= Turn(m)
      BY <2>2, <3>1, ReturnedInTurn
    <3>3. reader = "parked" /\ reader' = "away" /\ faults' = faults
      BY <2>2 DEF RecvMessage
    <3>4. faults["swapped"] > 0 \/ latest = 0 \/ Received!Turn(latest) <= Received!Turn(m)
      BY <3>2 DEF Turn, Received!Turn, Min, Received!Min
    <3>5. Received!Returns(m)
      BY <2>1, <3>2, <3>3, <3>4 DEF Received!Returns, Range, Received!Range
    <3> QED BY <3>2, <3>5, <1>3 DEF Received!Next
  <2>3. CASE RecvClosed
    <3>1. Received!Ends
      BY <2>1, <2>3 DEF RecvClosed, Received!Ends
    <3> QED BY <3>1 DEF Received!Next
  <2>4. CASE Disturbs
    <3>1. received' = received /\ latest' = latest /\ reader' = reader
      BY <2>4 DEF Disturbs, readVars
    <3>2. PICK kind \in FaultKinds : Strikes(kind)
      BY <2>4 DEF Disturbs, Lost, Doubled, Swapped, Overrun, Foreign, FaultKinds
    <3>3. faults'["swapped"] # 0 \/ faults'["swapped"] = faults["swapped"]
      BY <3>2, <1>1, <1>2, StrikeIs
    <3>4. (faults'["swapped"] > 0) = TRUE \/ (faults'["swapped"] > 0) = (faults["swapped"] > 0)
      BY <3>3, <1>2
    <3>5. CASE (faults'["swapped"] > 0) = TRUE
      <4>1. Received!Scrambles
        BY <2>1, <3>1, <3>5 DEF Received!Scrambles
      <4> QED BY <4>1 DEF Received!Next
    <3>6. CASE (faults'["swapped"] > 0) = (faults["swapped"] > 0)
      BY <2>1, <3>1, <3>6 DEF Received!vars
    <3> QED BY <3>4, <3>5, <3>6
  <2>5. CASE ~RecvMessage /\ ~RecvClosed /\ ~Disturbs
    BY <2>1, <2>5, <1>1, ReceiverStays DEF Received!vars
  <2> QED BY <2>2, <2>3, <2>4, <2>5
<1> QED BY <1>4, <1>5

\* The channel implements what recv promises (DatagramService): only messages
\* that had their turn come out, in the order of their turns unless the link
\* reorders, and nothing after None.
THEOREM StreamImplementsService ==
  ASSUME MaxMessages <= IdSpace, 0 \notin Sizes
  PROVE  Spec => DatagramServiceSpec
<1>1. Init => Received!Init
  <2>1. Init => ~(faults["swapped"] > 0)
    BY DEF Init, FaultKinds
  <2> QED BY <2>1 DEF Init, Received!Init
<1>2. Init => Orderly
  BY OrderlyAtFirst
<1>3. Orderly /\ [Next]_vars => Orderly'
  BY OrderlyStep
<1>4. Orderly /\ [Next]_vars => [Received!Next]_(Received!vars)
  BY DatagramServiceStep
<1>5. Spec => Received!Spec
  BY <1>1, <1>2, <1>3, <1>4, PTL DEF Spec, Received!Spec
<1> QED BY <1>5 DEF DatagramServiceSpec
=============================================================================
