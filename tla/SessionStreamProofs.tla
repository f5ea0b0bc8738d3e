------------------------- MODULE SessionStreamProofs -------------------------
(***************************************************************************)
(* Proofs about SessionStream: a Session given up is closed, one opened is *)
(* answered, one ended is told, and its traffic is in order, for any       *)
(* number of Sessions and any capacity of the channels.                    *)
(***************************************************************************)
EXTENDS SessionStream, SequenceTheorems, TLAPS

-----------------------------------------------------------------------------
(* Queues: what appending to one and taking from one keeps.                *)

\* What is in a queue.
LEMMA RangeFacts ==
  ASSUME NEW S, NEW q \in Seq(S)
  PROVE  /\ Range(q) \subseteq S
         /\ \A m : m \in Range(q) <=> \E i \in 1..Len(q) : q[i] = m
         /\ DOMAIN q = 1..Len(q) /\ Len(q) \in Nat
         /\ Len(q) = 0 <=> q = <<>>
<1>1. DOMAIN q = 1..Len(q) /\ Len(q) \in Nat
  BY LenProperties, Zenon
<1>2. Range(q) \subseteq S
  BY RangeOfSeq, Zenon
<1>3. Range(q) = {q[i] : i \in 1..Len(q)}
  BY RangeEquality, Zenon
<1> QED
  BY <1>1, <1>2, <1>3, EmptySeq, Zenon

\* A message is put at the end.
LEMMA AppendRange ==
  ASSUME NEW S, NEW q \in Seq(S), NEW m \in S
  PROVE  Append(q, m) \in Seq(S) /\ Range(Append(q, m)) = Range(q) \cup {m}
<1> DEFINE r == Append(q, m)
<1>1. /\ r \in Seq(S) /\ Len(r) = Len(q) + 1 /\ r[Len(q) + 1] = m
      /\ \A i \in 1..Len(q) : r[i] = q[i]
  BY AppendProperties
<1>2. Range(q) = {q[i] : i \in 1..Len(q)} /\ Range(r) = {r[i] : i \in 1..Len(r)} /\ Len(q) \in Nat
  BY <1>1, RangeEquality, LenProperties, Zenon
<1> HIDE DEF r
<1>3. \A i \in 1..Len(r) : i = Len(q) + 1 \/ i \in 1..Len(q)
  BY <1>1, <1>2
<1>4. Len(q) + 1 \in 1..Len(r) /\ \A i \in 1..Len(q) : i \in 1..Len(r)
  BY <1>1, <1>2
<1> QED
  BY <1>1, <1>2, <1>3, <1>4, Zenon DEF r

\* The message in front is taken.
LEMMA TailRange ==
  ASSUME NEW S, NEW q \in Seq(S), q # <<>>
  PROVE  /\ Tail(q) \in Seq(S) /\ Head(q) \in S
         /\ Range(q) = {Head(q)} \cup Range(Tail(q))
<1> DEFINE r == Tail(q)
<1>1. /\ r \in Seq(S) /\ Len(r) = Len(q) - 1 /\ Head(q) \in S
      /\ \A i \in 1..Len(r) : r[i] = q[i + 1]
  BY HeadTailProperties, Zenon
<1>2. /\ Range(q) = {q[i] : i \in 1..Len(q)} /\ Range(r) = {r[i] : i \in 1..Len(r)}
      /\ Len(q) \in Nat \ {0} /\ Head(q) = q[1]
  <2>1. Range(q) = {q[i] : i \in 1..Len(q)} /\ Range(r) = {r[i] : i \in 1..Len(r)}
    BY <1>1, RangeEquality, Zenon
  <2>2. Len(q) \in Nat \ {0}
    BY EmptySeq, Zenon
  <2>3. Head(q) = q[1]
    OBVIOUS
  <2> QED
    BY <2>1, <2>2, <2>3, Zenon
<1> HIDE DEF r
<1>3. \A i \in 1..Len(q) : i = 1 \/ (i - 1 \in 1..Len(r) /\ r[i - 1] = q[i])
  BY <1>1, <1>2
<1>4. 1 \in 1..Len(q) /\ \A i \in 1..Len(r) : i + 1 \in 1..Len(q)
  BY <1>1, <1>2
<1>5. Range(q) \subseteq {Head(q)} \cup Range(r)
  BY <1>2, <1>3
<1>6. {Head(q)} \cup Range(r) \subseteq Range(q)
  BY <1>1, <1>2, <1>4, Zenon
<1> QED
  BY <1>1, <1>5, <1>6, Zenon DEF r

\* Taking and putting keep an order that the new message keeps.
LEMMA AvoidsFacts ==
  ASSUME NEW S, NEW q \in Seq(S), NEW A, NEW B, Avoids(q, A, B)
  PROVE  /\ \A m \in S : m \notin B \/ Range(q) \cap A = {} => Avoids(Append(q, m), A, B)
         /\ q # <<>> => /\ Avoids(Tail(q), A, B)
                        /\ Head(q) \in A => Range(Tail(q)) \cap B = {}
<1>0. Len(q) \in Nat /\ DOMAIN q = 1..Len(q)
  BY LenProperties, Zenon
<1>1. ASSUME NEW m \in S, m \notin B \/ Range(q) \cap A = {} PROVE Avoids(Append(q, m), A, B)
  <2> DEFINE r == Append(q, m)
  <2>1. /\ r \in Seq(S) /\ Len(r) = Len(q) + 1 /\ r[Len(q) + 1] = m
        /\ \A i \in 1..Len(q) : r[i] = q[i]
    BY AppendProperties
  <2>2. DOMAIN r = 1..Len(r)
    BY <2>1, LenProperties, Zenon
  <2> HIDE DEF r
  <2> SUFFICES ASSUME NEW i \in 1..Len(r), NEW j \in 1..Len(r), i < j, r[i] \in A PROVE r[j] \notin B
    BY <2>2, Zenon DEF Avoids, r
  <2>3. i \in 1..Len(q) /\ q[i] \in A
    BY <1>0, <2>1
  <2>4. CASE j = Len(q) + 1
    <3>1. q[i] \in Range(q)
      BY <2>3, RangeFacts, Zenon
    <3> QED
      BY <1>1, <2>1, <2>3, <2>4, <3>1, Zenon
  <2>5. CASE j # Len(q) + 1
    <3>1. j \in 1..Len(q)
      BY <1>0, <2>1, <2>5
    <3> QED
      BY <1>0, <2>1, <2>3, <3>1, Zenon DEF Avoids
  <2> QED
    BY <2>4, <2>5, Zenon
<1>2. ASSUME q # <<>>
      PROVE  Avoids(Tail(q), A, B) /\ (Head(q) \in A => Range(Tail(q)) \cap B = {})
  <2> DEFINE r == Tail(q)
  <2>1. r \in Seq(S) /\ Len(r) = Len(q) - 1 /\ \A i \in 1..Len(r) : r[i] = q[i + 1]
    BY <1>2, HeadTailProperties, Zenon
  <2>2. DOMAIN r = 1..Len(r) /\ Len(r) \in Nat /\ Head(q) = q[1] /\ 1 \in 1..Len(q)
    BY <1>0, <1>2, <2>1, LenProperties
  <2> HIDE DEF r
  <2>3. \A i \in 1..Len(r) : i + 1 \in 1..Len(q)
    BY <1>0, <2>1
  <2>4. ASSUME NEW i \in 1..Len(r), NEW j \in 1..Len(r), i < j, r[i] \in A PROVE r[j] \notin B
    <3>1. i + 1 < j + 1
      BY <2>2, <2>4
    <3>2. i + 1 \in 1..Len(q) /\ j + 1 \in 1..Len(q) /\ q[i + 1] = r[i] /\ q[j + 1] = r[j]
      BY <2>1, <2>3, Zenon
    <3> QED
      BY <1>0, <2>4, <3>1, <3>2, Zenon DEF Avoids
  <2>5. ASSUME Head(q) \in A, NEW m \in Range(r) PROVE m \notin B
    <3>1. PICK i \in 1..Len(r) : r[i] = m
      BY <2>1, RangeFacts
    <3>2. i + 1 \in 1..Len(q) /\ 1 < i + 1 /\ q[i + 1] = m
      BY <2>1, <2>2, <2>3, <3>1
    <3> QED
      BY <1>0, <2>2, <2>5, <3>2, Zenon DEF Avoids
  <2> QED
    BY <2>2, <2>4, <2>5, Zenon DEF Avoids, r
<1> QED
  BY <1>1, <1>2, Zenon

\* The same for the messages that must be followed.
LEMMA FollowedFacts ==
  ASSUME NEW S, NEW q \in Seq(S), NEW a, NEW b
  PROVE  /\ \A m \in S : m = b /\ a # b => Followed(Append(q, m), a, b)
         /\ Followed(q, a, b) => /\ \A m \in S : m # a => Followed(Append(q, m), a, b)
                                 /\ q # <<>> => /\ Followed(Tail(q), a, b)
                                                /\ Head(q) = a => b \in Range(Tail(q))
<1>0. Len(q) \in Nat /\ DOMAIN q = 1..Len(q)
  BY LenProperties, Zenon
<1>1. ASSUME NEW m \in S, (m = b /\ a # b) \/ (Followed(q, a, b) /\ m # a)
      PROVE  Followed(Append(q, m), a, b)
  <2> DEFINE r == Append(q, m)
  <2>1. /\ r \in Seq(S) /\ Len(r) = Len(q) + 1 /\ r[Len(q) + 1] = m
        /\ \A i \in 1..Len(q) : r[i] = q[i]
    BY AppendProperties
  <2>2. DOMAIN r = 1..Len(r)
    BY <2>1, LenProperties, Zenon
  <2> HIDE DEF r
  <2> SUFFICES ASSUME NEW i \in 1..Len(r), r[i] = a PROVE \E j \in 1..Len(r) : i < j /\ r[j] = b
    BY <2>2, Zenon DEF Followed, r
  <2>3. i # Len(q) + 1
    BY <1>1, <2>1, Zenon
  <2>4. i \in 1..Len(q) /\ q[i] = a /\ i < Len(q) + 1 /\ Len(q) + 1 \in 1..Len(r)
    BY <1>0, <2>1, <2>3
  <2>5. CASE m = b
    BY <2>1, <2>4, <2>5, Zenon
  <2>6. CASE Followed(q, a, b)
    <3>1. PICK j \in 1..Len(q) : i < j /\ q[j] = b
      BY <1>0, <2>4, <2>6, Zenon DEF Followed
    <3>2. j \in 1..Len(r) /\ r[j] = b
      BY <1>0, <2>1, <3>1
    <3> QED
      BY <3>1, <3>2, Zenon
  <2> QED
    BY <1>1, <2>5, <2>6, Zenon
<1>2. ASSUME Followed(q, a, b), q # <<>>
      PROVE  Followed(Tail(q), a, b) /\ (Head(q) = a => b \in Range(Tail(q)))
  <2> DEFINE r == Tail(q)
  <2>1. r \in Seq(S) /\ Len(r) = Len(q) - 1 /\ \A i \in 1..Len(r) : r[i] = q[i + 1]
    BY <1>2, HeadTailProperties, Zenon
  <2>2. DOMAIN r = 1..Len(r) /\ Len(r) \in Nat /\ Head(q) = q[1] /\ 1 \in 1..Len(q)
    BY <1>0, <1>2, <2>1, LenProperties
  <2> HIDE DEF r
  <2>3. ASSUME NEW i \in 1..Len(r), r[i] = a PROVE \E j \in 1..Len(r) : i < j /\ r[j] = b
    <3>1. i + 1 \in 1..Len(q) /\ q[i + 1] = a
      BY <1>0, <2>1, <2>3
    <3>2. PICK k \in 1..Len(q) : i + 1 < k /\ q[k] = b
      BY <1>0, <1>2, <3>1, Zenon DEF Followed
    <3>3. k - 1 \in 1..Len(r) /\ i < k - 1 /\ (k - 1) + 1 = k
      BY <1>0, <2>1, <2>2, <3>2
    <3>4. r[k - 1] = b
      BY <2>1, <3>2, <3>3, Zenon
    <3> QED
      BY <3>3, <3>4, Zenon
  <2>4. ASSUME Head(q) = a PROVE b \in Range(r)
    <3>1. PICK k \in 1..Len(q) : 1 < k /\ q[k] = b
      BY <1>0, <1>2, <2>2, <2>4, Zenon DEF Followed
    <3>2. k - 1 \in 1..Len(r) /\ (k - 1) + 1 = k
      BY <1>0, <2>1, <2>2, <3>1
    <3>3. r[k - 1] = b
      BY <2>1, <3>1, <3>2, Zenon
    <3> QED
      BY <2>1, <3>2, <3>3, RangeFacts, Zenon
  <2> QED
    BY <2>2, <2>3, <2>4, Zenon DEF Followed, r
<1> QED
  BY <1>1, <1>2, Zenon

\* The same for rising numbers.
LEMMA RisingFacts ==
  ASSUME NEW S, NEW q \in Seq(S), NEW K, Rising(q, K)
  PROVE  /\ \A m \in S : (m \in K => \A x \in Range(q) : x \in K => x.n < m.n)
                           => Rising(Append(q, m), K)
         /\ q # <<>> => /\ Rising(Tail(q), K)
                        /\ Head(q) \in K => \A x \in Range(Tail(q)) : x \in K => Head(q).n < x.n
<1>0. Len(q) \in Nat /\ DOMAIN q = 1..Len(q)
  BY LenProperties, Zenon
<1>1. ASSUME NEW m \in S, m \in K => \A x \in Range(q) : x \in K => x.n < m.n
      PROVE  Rising(Append(q, m), K)
  <2> DEFINE r == Append(q, m)
  <2>1. /\ r \in Seq(S) /\ Len(r) = Len(q) + 1 /\ r[Len(q) + 1] = m
        /\ \A i \in 1..Len(q) : r[i] = q[i]
    BY AppendProperties
  <2>2. DOMAIN r = 1..Len(r)
    BY <2>1, LenProperties, Zenon
  <2> HIDE DEF r
  <2> SUFFICES ASSUME NEW i \in 1..Len(r), NEW j \in 1..Len(r), i < j, r[i] \in K, r[j] \in K
               PROVE  r[i].n < r[j].n
    BY <2>2, Zenon DEF Rising, r
  <2>3. i \in 1..Len(q) /\ q[i] = r[i]
    BY <1>0, <2>1
  <2>4. CASE j = Len(q) + 1
    <3>1. q[i] \in Range(q)
      BY <2>3, RangeFacts, Zenon
    <3>2. r[j] = m
      BY <2>1, <2>4, Zenon
    <3> QED
      BY <1>1, <2>3, <3>1, <3>2, Zenon
  <2>5. CASE j # Len(q) + 1
    <3>1. j \in 1..Len(q) /\ q[j] = r[j]
      BY <1>0, <2>1, <2>5
    <3> QED
      BY <1>0, <2>3, <3>1, Zenon DEF Rising
  <2> QED
    BY <2>4, <2>5, Zenon
<1>2. ASSUME q # <<>>
      PROVE  /\ Rising(Tail(q), K)
             /\ Head(q) \in K => \A x \in Range(Tail(q)) : x \in K => Head(q).n < x.n
  <2> DEFINE r == Tail(q)
  <2>1. r \in Seq(S) /\ Len(r) = Len(q) - 1 /\ \A i \in 1..Len(r) : r[i] = q[i + 1]
    BY <1>2, HeadTailProperties, Zenon
  <2>2. DOMAIN r = 1..Len(r) /\ Len(r) \in Nat /\ Head(q) = q[1] /\ 1 \in 1..Len(q)
    BY <1>0, <1>2, <2>1, LenProperties
  <2> HIDE DEF r
  <2>3. \A i \in 1..Len(r) : i + 1 \in 1..Len(q)
    BY <1>0, <2>1
  <2>4. ASSUME NEW i \in 1..Len(r), NEW j \in 1..Len(r), i < j, r[i] \in K, r[j] \in K
        PROVE  r[i].n < r[j].n
    <3>1. i + 1 < j + 1
      BY <2>2, <2>4
    <3>2. i + 1 \in 1..Len(q) /\ j + 1 \in 1..Len(q) /\ q[i + 1] = r[i] /\ q[j + 1] = r[j]
      BY <2>1, <2>3, Zenon
    <3> QED
      BY <1>0, <2>4, <3>1, <3>2, Zenon DEF Rising
  <2>5. ASSUME Head(q) \in K, NEW m \in Range(r), m \in K PROVE Head(q).n < m.n
    <3>1. PICK i \in 1..Len(r) : r[i] = m
      BY <2>1, RangeFacts
    <3>2. i + 1 \in 1..Len(q) /\ 1 < i + 1 /\ q[i + 1] = m
      BY <2>1, <2>2, <2>3, <3>1
    <3> QED
      BY <1>0, <2>2, <2>5, <3>2, Zenon DEF Rising
  <2> QED
    BY <2>2, <2>4, <2>5, Zenon DEF Rising, r
<1> QED
  BY <1>1, <1>2, Zenon

\* In a queue without the first kind nothing is out of order.
LEMMA AvoidsNothing ==
  ASSUME NEW S, NEW q \in Seq(S), NEW A, NEW B, Range(q) \cap A = {}
  PROVE  Avoids(q, A, B)
  BY RangeFacts DEF Avoids

\* Taking any message, or putting one that does not count, keeps the order of those that do.
LEMMA OrderKept ==
  ASSUME NEW S, NEW q \in Seq(S), NEW r, NEW K, Rising(q, K),
         \/ r = q
         \/ \E m \in S : m \notin K /\ r = Append(q, m)
         \/ q # <<>> /\ r = Tail(q)
  PROVE  Rising(r, K) /\ \A m \in Range(r) : m \in K => m \in Range(q)
<1>1. CASE r = q
  BY <1>1, Zenon
<1>2. ASSUME NEW m \in S, m \notin K, r = Append(q, m)
      PROVE  Rising(r, K) /\ \A x \in Range(r) : x \in K => x \in Range(q)
  <2>1. Range(r) = Range(q) \cup {m}
    BY <1>2, AppendRange
  <2>2. Rising(Append(q, m), K)
    BY <1>2, RisingFacts, Zenon
  <2> QED
    BY <1>2, <2>1, <2>2, Zenon
<1>3. CASE q # <<>> /\ r = Tail(q)
  <2>1. Range(q) = {Head(q)} \cup Range(Tail(q))
    BY <1>3, TailRange, Zenon
  <2>2. Rising(Tail(q), K)
    BY <1>3, RisingFacts, Zenon
  <2> QED
    BY <1>3, <2>1, <2>2, Zenon
<1> QED
  BY <1>1, <1>2, <1>3, Zenon

\* An empty queue.
LEMMA EmptyQueue ==
  /\ Range(<<>>) = {} /\ DOMAIN <<>> = {}
  /\ \A K : Rising(<<>>, K)
  /\ \A S : <<>> \in Seq(S)
<1>1. <<>> \in Seq({}) /\ \A S : <<>> \in Seq(S)
  OBVIOUS
<1>3. DOMAIN <<>> = {}
  OBVIOUS
<1>2. Range(<<>>) = {}
  BY <1>3, Zenon DEF Range
<1> QED
  BY <1>1, <1>2, <1>3, Zenon DEF Rising

\* A queue changed, if at all, by a message that is not of Session t.
Same(q, r, t, S) ==
  \/ r = q
  \/ \E m \in S : m.session # t /\ r = Append(q, m)
  \/ q # <<>> /\ Head(q).session # t /\ r = Tail(q)

\* Such a change is not seen by Session t.
LEMMA SameFacts ==
  ASSUME NEW S, NEW q \in Seq(S), NEW r, NEW t, Same(q, r, t, S)
  PROVE  /\ r \in Seq(S)
         /\ \A x : x.session = t => (x \in Range(r) <=> x \in Range(q))
         /\ \A A, B : (\A x \in B : x.session = t) /\ Avoids(q, A, B) => Avoids(r, A, B)
         /\ \A a, b : a.session = t /\ Followed(q, a, b) => Followed(r, a, b)
         /\ \A K : (\A x \in K : x.session = t) /\ Rising(q, K) => Rising(r, K)
<1>1. CASE r = q
  BY <1>1, Zenon
<1>2. ASSUME NEW m \in S, m.session # t, r = Append(q, m)
      PROVE  /\ r \in Seq(S)
             /\ \A x : x.session = t => (x \in Range(r) <=> x \in Range(q))
             /\ \A A, B : (\A x \in B : x.session = t) /\ Avoids(q, A, B) => Avoids(r, A, B)
             /\ \A a, b : a.session = t /\ Followed(q, a, b) => Followed(r, a, b)
             /\ \A K : (\A x \in K : x.session = t) /\ Rising(q, K) => Rising(r, K)
  <2>1. r \in Seq(S) /\ Range(r) = Range(q) \cup {m}
    BY <1>2, AppendRange
  <2>2. ASSUME NEW A, NEW B, \A x \in B : x.session = t, Avoids(q, A, B) PROVE Avoids(r, A, B)
    <3>1. m \notin B
      BY <1>2, <2>2, Zenon
    <3> QED
      BY <1>2, <2>2, <3>1, AvoidsFacts, Zenon
  <2>3. ASSUME NEW a, NEW b, a.session = t, Followed(q, a, b) PROVE Followed(r, a, b)
    <3>1. m # a
      BY <1>2, <2>3, Zenon
    <3> QED
      BY <1>2, <2>3, <3>1, FollowedFacts, Zenon
  <2>4. ASSUME NEW K, \A x \in K : x.session = t, Rising(q, K) PROVE Rising(r, K)
    <3>1. m \notin K
      BY <1>2, <2>4, Zenon
    <3> QED
      BY <1>2, <2>4, <3>1, RisingFacts, Zenon
  <2> QED
    BY <1>2, <2>1, <2>2, <2>3, <2>4, Zenon
<1>3. CASE q # <<>> /\ Head(q).session # t /\ r = Tail(q)
  <2>1. r \in Seq(S) /\ Range(q) = {Head(q)} \cup Range(r)
    BY <1>3, TailRange, Zenon
  <2>2. ASSUME NEW A, NEW B, Avoids(q, A, B) PROVE Avoids(r, A, B)
    BY <1>3, <2>2, AvoidsFacts, Zenon
  <2>3. ASSUME NEW a, NEW b, Followed(q, a, b) PROVE Followed(r, a, b)
    BY <1>3, <2>3, FollowedFacts, Zenon
  <2>4. ASSUME NEW K, Rising(q, K) PROVE Rising(r, K)
    BY <1>3, <2>4, RisingFacts, Zenon
  <2> QED
    BY <1>3, <2>1, <2>2, <2>3, <2>4, Zenon
<1> QED
  BY <1>1, <1>2, <1>3, Zenon DEF Same

-----------------------------------------------------------------------------
(* Envelopes, and the two queues that make the way down.                   *)

\* The Envelopes of a Session are of that Session, and told apart by their kind.
LEMMA EnvelopeFacts ==
  ASSUME NEW s \in Sessions
  PROVE  /\ Open(s) \in UpEnvelopes /\ Close(s) \in UpEnvelopes /\ Open(s) # Close(s)
         /\ Open(s).session = s /\ Close(s).session = s
         /\ Open(s) \notin ActionsOf(s) /\ Close(s) \notin ActionsOf(s)
         /\ Error(s) \in DownEnvelopes /\ Error(s).session = s
         /\ Error(s) \notin EventsOf(s) /\ Error(s) \notin Acks(s) /\ Error(s).kind = "SessionError"
         /\ Acks(s) \subseteq DownEnvelopes /\ \A m \in Acks(s) : m.session = s /\ m \notin EventsOf(s)
         /\ Envelope("Opened", s) # Envelope("Refused", s)
         /\ Envelope("Opened", s).kind = "Opened" /\ Envelope("Refused", s).kind = "Refused"
         /\ \A m \in EventsOf(s) : m.session = s /\ m.n \in Nat /\ m.kind = "Event"
         /\ \A m \in ActionsOf(s) : m.session = s /\ m.n \in Nat /\ m.kind = "Action"
  BY DEF Open, Close, Error, Acks, EventsOf, ActionsOf, UpEnvelopes, DownEnvelopes, Envelope

\* Of these, the numbers alone, the error alone and the answers alone.
LEMMA NumberFacts ==
  ASSUME NEW s \in Sessions
  PROVE  (\A m \in EventsOf(s) : m.n \in Nat) /\ (\A m \in ActionsOf(s) : m.n \in Nat)
  BY EnvelopeFacts, Zenon

LEMMA ErrorFacts ==
  ASSUME NEW s \in Sessions
  PROVE  /\ Error(s) \in DownEnvelopes /\ Error(s).session = s /\ Error(s).kind = "SessionError"
         /\ Error(s) \notin EventsOf(s) /\ Error(s) \notin Acks(s)
  BY EnvelopeFacts, Zenon

LEMMA AckFacts ==
  ASSUME NEW s \in Sessions, NEW m \in Acks(s)
  PROVE  /\ m \in DownEnvelopes /\ m.session = s /\ m \notin EventsOf(s)
         /\ m.kind # "Event"
  <1>1. m = Envelope("Opened", s) \/ m = Envelope("Refused", s)
    BY Zenon DEF Acks
  <1> QED
    BY <1>1, EnvelopeFacts

\* The next number is above every number a queue carries (send_action, send_to_session).
LEMMA NextNumber ==
  ASSUME NEW k \in Nat, NEW Q, NEW K, \A x \in K : x.n \in Nat,
         \A x \in Q : x \in K => x.n <= k
  PROVE  \A x \in Q : x \in K => x.n < k + 1 /\ x.n <= k + 1
<1> SUFFICES ASSUME NEW x \in Q, x \in K PROVE x.n < k + 1 /\ x.n <= k + 1
  OBVIOUS
<1>1. x.n \in Nat /\ x.n <= k
  OBVIOUS
<1> QED
  BY <1>1

\* A message is what its kind says.
LEMMA KindFacts ==
  /\ \A m \in DownEnvelopes :
       /\ m.session \in Sessions
       /\ m.kind = "Event" <=> m \in EventsOf(m.session)
       /\ m.kind = "SessionError" <=> m = Error(m.session)
       /\ m.kind = "Opened" <=> m = Envelope("Opened", m.session)
       /\ m.kind = "Refused" <=> m = Envelope("Refused", m.session)
  /\ \A m \in UpEnvelopes :
       /\ m.session \in Sessions
       /\ m.kind = "Action" <=> m \in ActionsOf(m.session)
  BY DEF Error, EventsOf, ActionsOf, UpEnvelopes, DownEnvelopes, Envelope

\* What is on its way to the caller is a queue, of which `wire' is the front.
LEMMA DownFacts ==
  ASSUME QueueTypes
  PROVE  /\ Down \in Seq(DownEnvelopes) /\ Range(Down) = Range(wire) \cup Range(out)
         /\ wire # <<>> => /\ Down # <<>> /\ Head(Down) = Head(wire)
                           /\ Tail(wire) \o out = Tail(Down)
         /\ \A m \in DownEnvelopes : wire \o Append(out, m) = Append(Down, m)
         /\ out # <<>> => Append(wire, Head(out)) \o Tail(out) = Down
<1>t. wire \in Seq(DownEnvelopes) /\ out \in Seq(DownEnvelopes)
  BY Zenon DEF QueueTypes
<1>1. Down \in Seq(DownEnvelopes) /\ Range(Down) = Range(wire) \cup Range(out)
  BY <1>t, ConcatProperties, RangeConcatenation DEF Down
<1>2. ASSUME wire # <<>>
      PROVE  Down # <<>> /\ Head(Down) = Head(wire) /\ Tail(wire) \o out = Tail(Down)
  <2>1. wire = <<Head(wire)>> \o Tail(wire) /\ Tail(wire) \in Seq(DownEnvelopes)
        /\ Head(wire) \in DownEnvelopes
    BY <1>t, <1>2
  <2>2. Down = <<Head(wire)>> \o (Tail(wire) \o out)
    BY <1>t, <2>1 DEF Down
  <2> DEFINE h == Head(wire)
             r == Tail(wire) \o out
  <2>3. h \in DownEnvelopes /\ r \in Seq(DownEnvelopes) /\ Down = <<h>> \o r
    BY <1>t, <2>1, <2>2
  <2> HIDE DEF h, r
  <2>4. Down # <<>> /\ Head(Down) = h /\ Tail(Down) = r
    BY <2>3
  <2> QED
    BY <2>4, Zenon DEF h, r
<1>3. ASSUME NEW m \in DownEnvelopes PROVE wire \o Append(out, m) = Append(Down, m)
  <2>1. Append(out, m) = out \o <<m>> /\ Append(Down, m) = Down \o <<m>> /\ <<m>> \in Seq(DownEnvelopes)
    BY <1>t, <1>1, AppendIsConcat
  <2> QED
    BY <1>t, <2>1, ConcatAssociative DEF Down
<1>4. ASSUME out # <<>> PROVE Append(wire, Head(out)) \o Tail(out) = Down
  <2>1. out = <<Head(out)>> \o Tail(out) /\ Tail(out) \in Seq(DownEnvelopes)
        /\ Head(out) \in DownEnvelopes
    BY <1>t, <1>4
  <2>2. Append(wire, Head(out)) = wire \o <<Head(out)>> /\ <<Head(out)>> \in Seq(DownEnvelopes)
    BY <1>t, <2>1, AppendIsConcat
  <2>3. (wire \o <<Head(out)>>) \o Tail(out) = wire \o (<<Head(out)>> \o Tail(out))
    BY <1>t, <2>1, <2>2, ConcatAssociative
  <2> QED
    BY <2>1, <2>2, <2>3, Zenon DEF Down
<1> QED
  BY <1>1, <1>2, <1>3, <1>4, Zenon

-----------------------------------------------------------------------------
(* A step that is none of Session t's business.                            *)

Frame(t) ==
  /\ connected' => connected
  /\ Same(up, up', t, UpEnvelopes) /\ Same(Down, Down', t, DownEnvelopes)
  /\ t \in overflowed => t \in overflowed'
  /\ phase'[t] = phase[t] /\ inbox'[t] = inbox[t]
  /\ t \in told => t \in told'
  /\ t \in unclosed => t \in unclosed'
  /\ t \in registered' <=> t \in registered
  /\ serving' = t <=> serving = t
  /\ actionsSent'[t] = actionsSent[t] /\ actionsGot'[t] = actionsGot[t]
  /\ eventsSent'[t] = eventsSent[t] /\ eventsGot'[t] = eventsGot[t]

\* Such a step keeps what holds of the Session.
LEMMA FrameKeeps ==
  ASSUME TypeOK, NEW t \in Sessions, SessionInv(t), Frame(t)
  PROVE  SessionInv(t)'
<1>t. up \in Seq(UpEnvelopes) /\ Down \in Seq(DownEnvelopes)
  BY DownFacts, Zenon DEF TypeOK, QueueTypes
<1>e. /\ Open(t).session = t /\ Close(t).session = t /\ Error(t).session = t
      /\ \A m \in Acks(t) : m.session = t
      /\ Envelope("Opened", t) \in Acks(t) /\ Envelope("Refused", t) \in Acks(t)
      /\ \A m \in EventsOf(t) : m.session = t
      /\ \A m \in ActionsOf(t) : m.session = t
  BY EnvelopeFacts DEF Acks
<1>u. /\ \A x : x.session = t => (x \in Range(up') <=> x \in Range(up))
      /\ Avoids(up, {Open(t)}, {Open(t), Close(t)}) => Avoids(up', {Open(t)}, {Open(t), Close(t)})
      /\ Followed(up, Open(t), Close(t)) => Followed(up', Open(t), Close(t))
      /\ Rising(up, ActionsOf(t)) => Rising(up', ActionsOf(t))
  <2>1. Same(up, up', t, UpEnvelopes)
    BY Zenon DEF Frame
  <2>2. \A x \in {Open(t), Close(t)} : x.session = t
    BY <1>e, Zenon
  <2> QED
    BY <1>t, <1>e, <2>1, <2>2, SameFacts, Zenon
<1>d. /\ \A x : x.session = t => (x \in Range(Down') <=> x \in Range(Down))
      /\ Avoids(Down, Acks(t), Acks(t)) => Avoids(Down', Acks(t), Acks(t))
      /\ Rising(Down, EventsOf(t)) => Rising(Down', EventsOf(t))
  <2>1. Same(Down, Down', t, DownEnvelopes)
    BY Zenon DEF Frame
  <2> QED
    BY <1>t, <1>e, <2>1, SameFacts, Zenon
<1>f. /\ connected' => connected
      /\ t \in overflowed => t \in overflowed'
      /\ phase'[t] = phase[t] /\ inbox'[t] = inbox[t]
      /\ t \in told => t \in told'
      /\ t \in unclosed => t \in unclosed'
      /\ t \in registered' <=> t \in registered
      /\ serving' = t <=> serving = t
      /\ actionsSent'[t] = actionsSent[t] /\ actionsGot'[t] = actionsGot[t]
      /\ eventsSent'[t] = eventsSent[t] /\ eventsGot'[t] = eventsGot[t]
  BY Zenon DEF Frame
<1>i. CloseInv(t) /\ AnswerInv(t) /\ EndInv(t) /\ EventInv(t) /\ ActionInv(t)
  BY Zenon DEF SessionInv
<1>r. /\ Open(t) \in Range(up') <=> Open(t) \in Range(up)
      /\ Close(t) \in Range(up') <=> Close(t) \in Range(up)
      /\ Range(Down') \cap Acks(t) = {} <=> Range(Down) \cap Acks(t) = {}
      /\ Envelope("Refused", t) \in Range(Down') <=> Envelope("Refused", t) \in Range(Down)
      /\ Envelope("Opened", t) \in Range(Down') <=> Envelope("Opened", t) \in Range(Down)
      /\ Error(t) \in Range(Down') <=> Error(t) \in Range(Down)
  BY <1>e, <1>u, <1>d, Zenon
<1>1. CloseInv(t)'
  BY <1>f, <1>i, <1>r, <1>u, Zenon DEF CloseInv
<1>2. AnswerInv(t)'
  <2>1. Range(up') \cap {Open(t), Close(t)} = {} <=> Range(up) \cap {Open(t), Close(t)} = {}
    BY <1>r, Zenon
  <2> QED
    BY <1>f, <1>i, <1>r, <1>u, <1>d, <2>1, Zenon DEF AnswerInv
<1>3. EndInv(t)'
  BY <1>f, <1>i, <1>r, Zenon DEF EndInv
<1>4. EventInv(t)'
  BY <1>e, <1>f, <1>i, <1>d, Zenon DEF EventInv
<1>5. ActionInv(t)'
  BY <1>e, <1>f, <1>i, <1>u, Zenon DEF ActionInv
<1> QED
  BY <1>1, <1>2, <1>3, <1>4, <1>5, Zenon DEF SessionInv

\* PutOut appends to what is on its way, or notes what did not fit.
LEMMA PutOutFacts ==
  ASSUME QueueTypes, NEW m \in DownEnvelopes, PutOut(m), UNCHANGED wire
  PROVE  /\ out' \in Seq(DownEnvelopes) /\ Len(out') <= OutCapacity
         /\ \/ Down' = Append(Down, m) /\ overflowed' = overflowed
            \/ /\ Down' = Down
               /\ overflowed' = IF m.kind = "Event" THEN overflowed ELSE overflowed \cup {m.session}
<1>0. out \in Seq(DownEnvelopes) /\ OutCapacity \in Nat /\ Len(out) \in Nat /\ Len(out) <= OutCapacity
  BY StreamAssumption DEF QueueTypes
<1>1. CASE Len(out) < OutCapacity
  <2>1. out' = Append(out, m) /\ overflowed' = overflowed
    BY <1>1, Zenon DEF PutOut
  <2>2. out' \in Seq(DownEnvelopes) /\ Len(out') = Len(out) + 1
    BY <1>0, <2>1, AppendProperties, Zenon
  <2>3. Down' = Append(Down, m)
    BY <2>1, DownFacts, Zenon DEF Down
  <2> QED
    BY <1>0, <1>1, <2>1, <2>2, <2>3
<1>2. CASE ~(Len(out) < OutCapacity)
  BY <1>0, <1>2, Zenon DEF PutOut, Overflow, Down
<1> QED
  BY <1>1, <1>2, Zenon

\* The receive loop takes the front of what is on its way.
LEMMA ArrivesFacts ==
  ASSUME QueueTypes, NEW m, Arrives(m), UNCHANGED out
  PROVE  /\ m \in DownEnvelopes /\ wire' \in Seq(DownEnvelopes)
         /\ Down # <<>> /\ m = Head(Down) /\ Down' = Tail(Down)
         /\ Range(Down) = {m} \cup Range(Down')
<1>1. /\ wire # <<>> /\ m = Head(wire) /\ wire' = Tail(wire) /\ wire \in Seq(DownEnvelopes)
  BY Zenon DEF Arrives, QueueTypes
<1>2. m \in DownEnvelopes /\ wire' \in Seq(DownEnvelopes)
  BY <1>1, TailRange, Zenon
<1>3. Down # <<>> /\ m = Head(Down) /\ Down' = Tail(Down) /\ Down \in Seq(DownEnvelopes)
  BY <1>1, DownFacts, Zenon DEF Down
<1>4. Range(Down) = {m} \cup Range(Down')
  BY <1>3, TailRange, Zenon
<1> QED
  BY <1>2, <1>3, <1>4, Zenon

\* The inbound task takes the front of the Client's channel.
LEMMA InboundFacts ==
  ASSUME QueueTypes, NEW m, Inbound(m)
  PROVE  /\ m \in UpEnvelopes /\ up # <<>> /\ m = Head(up) /\ up' = Tail(up)
         /\ up' \in Seq(UpEnvelopes) /\ Len(up') <= UpCapacity
         /\ Range(up) = {m} \cup Range(up')
         /\ reading /\ serving = None
<1>1. /\ up # <<>> /\ m = Head(up) /\ up' = Tail(up) /\ up \in Seq(UpEnvelopes)
      /\ reading /\ serving = None /\ Len(up) <= UpCapacity
  BY Zenon DEF Inbound, QueueTypes
<1>2. m \in UpEnvelopes /\ up' \in Seq(UpEnvelopes) /\ Range(up) = {m} \cup Range(up')
  BY <1>1, TailRange, Zenon
<1>3. Len(up') = Len(up) - 1 /\ Len(up) \in Nat /\ UpCapacity \in Nat
  BY <1>1, HeadTailProperties, LenProperties, StreamAssumption, Zenon
<1> QED
  BY <1>1, <1>2, <1>3

\* The Client's try_send appends to its channel, or does nothing.
LEMMA PutUpFacts ==
  ASSUME QueueTypes, NEW m \in UpEnvelopes, PutUp(m)
  PROVE  /\ up' \in Seq(UpEnvelopes) /\ Len(up') <= UpCapacity
         /\ CanSend => up' = Append(up, m) /\ Range(up') = Range(up) \cup {m}
         /\ ~CanSend => up' = up
<1>0. up \in Seq(UpEnvelopes) /\ UpCapacity \in Nat /\ Len(up) \in Nat /\ Len(up) <= UpCapacity
  BY StreamAssumption DEF QueueTypes
<1>1. CASE CanSend
  <2>1. up' = Append(up, m) /\ Len(up) < UpCapacity
    BY <1>1, Zenon DEF PutUp, CanSend
  <2>2. Len(up') = Len(up) + 1
    BY <1>0, <2>1, AppendProperties, Zenon
  <2> QED
    BY <1>0, <1>1, <2>1, <2>2, AppendRange
<1>2. CASE ~CanSend
  BY <1>0, <1>2, Zenon DEF PutUp
<1> QED
  BY <1>1, <1>2, Zenon

-----------------------------------------------------------------------------
(* What most steps do to the numbered messages of a Session.               *)

\* Taking any message, or putting one that is no Action, keeps the Actions in order.
LEMMA ActionsKept ==
  ASSUME QueueTypes, NEW s \in Sessions, ActionInv(s),
         actionsSent'[s] = actionsSent[s], actionsGot'[s] = actionsGot[s],
         \/ up' = up
         \/ \E m \in UpEnvelopes : m \notin ActionsOf(s) /\ up' = Append(up, m)
         \/ up # <<>> /\ up' = Tail(up)
  PROVE  ActionInv(s)'
<1>0. up \in Seq(UpEnvelopes) /\ Rising(up, ActionsOf(s))
  BY Zenon DEF QueueTypes, ActionInv
<1>1. Rising(up', ActionsOf(s)) /\ \A m \in Range(up') : m \in ActionsOf(s) => m \in Range(up)
  BY <1>0, OrderKept, Zenon
<1> QED
  BY <1>1, Zenon DEF ActionInv

\* Taking any message, or putting one that is no Event, keeps the Events in
\* order, also when the receiver is emptied.
LEMMA EventsKept ==
  ASSUME QueueTypes, NEW s \in Sessions, EventInv(s),
         eventsSent'[s] = eventsSent[s], eventsGot'[s] = eventsGot[s],
         inbox'[s] = inbox[s] \/ inbox'[s] = <<>>,
         \/ Down' = Down
         \/ \E m \in DownEnvelopes : m \notin EventsOf(s) /\ Down' = Append(Down, m)
         \/ Down # <<>> /\ Down' = Tail(Down)
  PROVE  EventInv(s)'
<1>0. /\ Down \in Seq(DownEnvelopes) /\ Rising(Down, EventsOf(s))
      /\ inbox[s] \in Seq(DownEnvelopes) /\ Rising(inbox[s], EventsOf(s))
  BY DownFacts, Zenon DEF QueueTypes, EventInv
<1>1. Rising(Down', EventsOf(s)) /\ \A m \in Range(Down') : m \in EventsOf(s) => m \in Range(Down)
  BY <1>0, OrderKept, Zenon
<1>3. Range(inbox'[s]) \subseteq Range(inbox[s]) /\ Rising(inbox'[s], EventsOf(s))
  <2>1. CASE inbox'[s] = <<>>
    BY <2>1, EmptyQueue, Zenon
  <2>2. CASE inbox'[s] = inbox[s]
    BY <1>0, <2>2, Zenon
  <2> QED
    BY <2>1, <2>2, Zenon
<1> QED
  BY <1>1, <1>3, Zenon DEF EventInv

-----------------------------------------------------------------------------
(* The steps of the Client.                                                *)

\* An open is sent.
LEMMA SendOpenStep ==
  ASSUME TypeOK, NEW s \in Sessions, SessionInv(s), SendOpen(s)
  PROVE  TypeOK' /\ SessionInv(s)' /\ \A t \in Sessions \ {s} : Frame(t)
<1>0. /\ phase[s] \in {"none", "refused"} /\ CanSend /\ PutUp(Open(s))
      /\ phase' = [phase EXCEPT ![s] = "opening"]
      /\ opens' = [opens EXCEPT ![s] = opens[s] + 1]
      /\ unclosed' = unclosed \ {s}
      /\ UNCHANGED <<connected, out, overflowed, wire, noticed, inbox, told, actionsSent, eventsGot,
                     reading, serving, registered, terminating, ends, actionsGot, eventsSent>>
  BY Zenon DEF SendOpen, server, Open
<1>t. QueueTypes
  BY Zenon DEF TypeOK
<1>u. /\ up \in Seq(UpEnvelopes) /\ up' = Append(up, Open(s)) /\ Range(up') = Range(up) \cup {Open(s)}
      /\ up' \in Seq(UpEnvelopes) /\ Len(up') <= UpCapacity
  BY <1>0, <1>t, EnvelopeFacts, PutUpFacts, Zenon DEF QueueTypes
<1>d. Down' = Down /\ Down \in Seq(DownEnvelopes)
  BY <1>0, <1>t, DownFacts, Zenon DEF Down
<1>p. phase'[s] = "opening" /\ \A t \in Sessions \ {s} : phase'[t] = phase[t]
  BY <1>0, Zenon DEF TypeOK
<1>1. TypeOK'
  <2>1. QueueTypes'
    BY <1>0, <1>t, <1>u, Zenon DEF QueueTypes
  <2>2. phase' \in [Sessions -> Phases]
    BY <1>0, Zenon DEF TypeOK, Phases
  <2>3. opens' \in [Sessions -> Nat]
    BY <1>0 DEF TypeOK
  <2> QED
    BY <1>0, <2>1, <2>2, <2>3 DEF TypeOK
<1>i. AnswerInv(s) /\ EventInv(s) /\ ActionInv(s)
  BY Zenon DEF SessionInv
<1>2. CloseInv(s)'
  BY <1>p, Zenon DEF CloseInv
<1>a. ASSUME connected, s \notin overflowed
      PROVE  s \notin registered /\ serving # s /\ Open(s) \notin Range(up) /\ Range(Down) \cap Acks(s) = {}
  BY <1>0, <1>i, <1>a, Zenon DEF AnswerInv
<1>3. AnswerInv(s)'
  <2> SUFFICES ASSUME connected, s \notin overflowed
               PROVE  /\ Avoids(up', {Open(s)}, {Open(s), Close(s)}) /\ Avoids(Down, Acks(s), Acks(s))
                      /\ Open(s) \in Range(up') /\ s \notin registered /\ serving # s
                      /\ Range(Down) \cap Acks(s) = {}
    BY <1>0, <1>d, <1>p, Zenon DEF AnswerInv
  <2>1. Avoids(up, {Open(s)}, {Open(s), Close(s)}) /\ Range(up) \cap {Open(s)} = {}
    BY <1>a, <1>u, AvoidsNothing, Zenon
  <2>2. Avoids(up', {Open(s)}, {Open(s), Close(s)})
    BY <1>u, <2>1, AvoidsFacts, EnvelopeFacts
  <2>3. Avoids(Down, Acks(s), Acks(s))
    BY <1>a, <1>d, AvoidsNothing, Zenon
  <2> QED
    BY <1>a, <1>u, <2>2, <2>3, Zenon
<1>4. EndInv(s)'
  BY <1>0, <1>a, <1>d, <1>p, Zenon DEF EndInv, Acks
<1>5. EventInv(s)'
  BY <1>0, <1>d, <1>i, Zenon DEF EventInv
<1>6. ActionInv(s)'
  BY <1>0, <1>t, <1>i, <1>u, EnvelopeFacts, ActionsKept, Zenon
<1>7. ASSUME NEW t \in Sessions \ {s} PROVE Frame(t)
  <2>1. Same(up, up', t, UpEnvelopes) /\ Same(Down, Down', t, DownEnvelopes)
    BY <1>u, <1>d, EnvelopeFacts, Zenon DEF Same
  <2> QED
    BY <1>0, <1>p, <2>1, Zenon DEF Frame
<1> QED
  BY <1>1, <1>2, <1>3, <1>4, <1>5, <1>6, <1>7, Zenon DEF SessionInv

\* A Session is given up: its SessionClose is behind any SessionOpen of it, or did not fit.
LEMMA GiveUpFacts ==
  ASSUME TypeOK, NEW s \in Sessions, NEW p \in {"refused", "failed", "dropped"}, GiveUp(s, p)
  PROVE  /\ up' \in Seq(UpEnvelopes) /\ Len(up') <= UpCapacity
         /\ inbox' \in [Sessions -> Seq(DownEnvelopes)]
         /\ \A t \in Sessions : Len(inbox'[t]) <= InboxCapacity
         /\ phase' \in [Sessions -> Phases] /\ unclosed' \subseteq Sessions
         /\ CloseInv(s)' /\ phase'[s] = p
         /\ inbox'[s] = inbox[s] \/ inbox'[s] = <<>>
         /\ up' = up \/ \E m \in UpEnvelopes : m \notin ActionsOf(s) /\ up' = Append(up, m)
         /\ Open(s) \notin Range(up) => Open(s) \notin Range(up')
         /\ \A t \in Sessions \ {s} : /\ phase'[t] = phase[t] /\ inbox'[t] = inbox[t]
                                      /\ t \in unclosed => t \in unclosed'
                                      /\ Same(up, up', t, UpEnvelopes)
<1>0. /\ phase' = [phase EXCEPT ![s] = p] /\ PutUp(Close(s))
      /\ unclosed' = IF CanSend THEN unclosed ELSE unclosed \cup {s}
      /\ inbox' = [inbox EXCEPT ![s] = IF p = "refused" THEN inbox[s] ELSE <<>>]
  BY Zenon DEF GiveUp, Close
<1>t. QueueTypes /\ phase \in [Sessions -> Phases] /\ unclosed \subseteq Sessions
  BY Zenon DEF TypeOK
<1>q. /\ up \in Seq(UpEnvelopes) /\ inbox \in [Sessions -> Seq(DownEnvelopes)]
      /\ \A t \in Sessions : Len(inbox[t]) <= InboxCapacity
  BY <1>t, Zenon DEF QueueTypes
<1>u. /\ up' \in Seq(UpEnvelopes) /\ Len(up') <= UpCapacity
      /\ CanSend => up' = Append(up, Close(s)) /\ Range(up') = Range(up) \cup {Close(s)}
      /\ ~CanSend => up' = up
  BY <1>0, <1>t, EnvelopeFacts, PutUpFacts, Zenon
<1>1. inbox' \in [Sessions -> Seq(DownEnvelopes)] /\ (inbox'[s] = inbox[s] \/ inbox'[s] = <<>>)
  BY <1>0, <1>q, EmptyQueue, Zenon
<1>2. phase' \in [Sessions -> Phases] /\ unclosed' \subseteq Sessions /\ phase'[s] = p
  BY <1>0, <1>t, Zenon DEF Phases
<1>3. \A t \in Sessions \ {s} : /\ phase'[t] = phase[t] /\ inbox'[t] = inbox[t]
                                /\ t \in unclosed => t \in unclosed'
  BY <1>0, <1>q, <1>t, Zenon
<1>4. \A t \in Sessions : Len(inbox'[t]) <= InboxCapacity
  <2>1. Len(<<>>) <= InboxCapacity
    BY StreamAssumption
  <2> QED
    BY <1>1, <1>3, <1>q, <2>1, Zenon
<1>5. CloseInv(s)'
  <2> SUFFICES ASSUME s \notin unclosed' PROVE Close(s) \in Range(up') /\ Followed(up', Open(s), Close(s))
    BY Zenon DEF CloseInv
  <2>1. CanSend
    BY <1>0, Zenon
  <2>2. Open(s) # Close(s) /\ Close(s) \in UpEnvelopes
    BY EnvelopeFacts, Zenon
  <2>3. Followed(Append(up, Close(s)), Open(s), Close(s))
    BY <1>q, <2>2, FollowedFacts, Zenon
  <2> QED
    BY <1>u, <2>1, <2>3, Zenon
<1>6. /\ up' = up \/ \E m \in UpEnvelopes : m \notin ActionsOf(s) /\ up' = Append(up, m)
      /\ Open(s) \notin Range(up) => Open(s) \notin Range(up')
  BY <1>u, EnvelopeFacts, Zenon
<1>7. \A t \in Sessions \ {s} : Same(up, up', t, UpEnvelopes)
  BY <1>u, EnvelopeFacts, Zenon DEF Same
<1> QED
  BY <1>u, <1>1, <1>2, <1>3, <1>4, <1>5, <1>6, <1>7, Zenon

\* A Session is given up by the deadline of its open() or by dropping it.
LEMMA GiveUpStep ==
  ASSUME TypeOK, NEW s \in Sessions, SessionInv(s), OpenTimesOut(s) \/ DropSession(s)
  PROVE  TypeOK' /\ SessionInv(s)' /\ \A t \in Sessions \ {s} : Frame(t)
<1>0. /\ \E p \in {"failed", "dropped"} : GiveUp(s, p)
      /\ UNCHANGED <<connected, out, overflowed, wire, noticed, opens, told, actionsSent, eventsGot,
                     reading, serving, registered, terminating, ends, actionsGot, eventsSent>>
  BY Zenon DEF OpenTimesOut, DropSession, server
<1>1. PICK p \in {"failed", "dropped"} : GiveUp(s, p)
  BY <1>0, Zenon
<1>g. /\ up' \in Seq(UpEnvelopes) /\ Len(up') <= UpCapacity
      /\ inbox' \in [Sessions -> Seq(DownEnvelopes)]
      /\ \A t \in Sessions : Len(inbox'[t]) <= InboxCapacity
      /\ phase' \in [Sessions -> Phases] /\ unclosed' \subseteq Sessions
      /\ CloseInv(s)' /\ phase'[s] = p
      /\ inbox'[s] = inbox[s] \/ inbox'[s] = <<>>
      /\ up' = up \/ \E m \in UpEnvelopes : m \notin ActionsOf(s) /\ up' = Append(up, m)
      /\ \A t \in Sessions \ {s} : /\ phase'[t] = phase[t] /\ inbox'[t] = inbox[t]
                                   /\ t \in unclosed => t \in unclosed'
                                   /\ Same(up, up', t, UpEnvelopes)
  BY <1>1, GiveUpFacts, Zenon
<1>d. Down' = Down /\ QueueTypes
  BY <1>0, Zenon DEF Down, TypeOK
<1>i. EventInv(s) /\ ActionInv(s)
  BY Zenon DEF SessionInv
<1>2. TypeOK'
  <2>1. QueueTypes'
    BY <1>0, <1>g, <1>d, Zenon DEF QueueTypes
  <2> QED
    BY <1>0, <1>g, <2>1, Zenon DEF TypeOK
<1>3. AnswerInv(s)' /\ EndInv(s)'
  BY <1>g, Zenon DEF AnswerInv, EndInv
<1>4. EventInv(s)'
  BY <1>0, <1>g, <1>d, <1>i, EventsKept, Zenon
<1>5. ActionInv(s)'
  BY <1>0, <1>g, <1>d, <1>i, ActionsKept, Zenon
<1>6. ASSUME NEW t \in Sessions \ {s} PROVE Frame(t)
  <2>1. Same(up, up', t, UpEnvelopes) /\ Same(Down, Down', t, DownEnvelopes)
    BY <1>g, <1>d, Zenon DEF Same
  <2> QED
    BY <1>0, <1>g, <2>1, Zenon DEF Frame
<1> QED
  BY <1>g, <1>2, <1>3, <1>4, <1>5, <1>6, Zenon DEF SessionInv

\* An Action is sent.
LEMMA SendActionStep ==
  ASSUME TypeOK, NEW s \in Sessions, SessionInv(s), SendAction(s)
  PROVE  TypeOK' /\ SessionInv(s)' /\ \A t \in Sessions \ {s} : Frame(t)
<1> DEFINE n == actionsSent[s] + 1
           m == Numbered("Action", s, n)
<1>0. /\ phase[s] = "open" /\ CanSend /\ PutUp(m)
      /\ actionsSent' = [actionsSent EXCEPT ![s] = n]
      /\ UNCHANGED <<connected, out, overflowed, wire, noticed, phase, opens, inbox, told, unclosed,
                     eventsGot, reading, serving, registered, terminating, ends, actionsGot,
                     eventsSent>>
  BY Zenon DEF SendAction, server
<1>t. /\ QueueTypes /\ actionsSent \in [Sessions -> Nat] /\ actionsSent[s] \in Nat
      /\ actionsGot[s] \in Nat
  BY Zenon DEF TypeOK
<1>m. /\ m \in UpEnvelopes /\ m \in ActionsOf(s) /\ m.n = n /\ m.session = s
      /\ m # Open(s) /\ m # Close(s)
  BY <1>t DEF Numbered, UpEnvelopes, ActionsOf, Open, Close, Envelope
<1>n. actionsSent'[s] = n /\ actionsSent[s] < n /\ n \in Nat
      /\ \A t \in Sessions \ {s} : actionsSent'[t] = actionsSent[t]
  <2>1. n \in Nat /\ actionsSent[s] < n
    BY <1>t
  <2> HIDE DEF n
  <2> QED
    BY <1>0, <1>t, <2>1, Zenon
<1> HIDE DEF m, n
<1>u. /\ up \in Seq(UpEnvelopes) /\ up' = Append(up, m) /\ Range(up') = Range(up) \cup {m}
      /\ up' \in Seq(UpEnvelopes) /\ Len(up') <= UpCapacity
  BY <1>0, <1>t, <1>m, PutUpFacts, Zenon DEF QueueTypes
<1>d. Down' = Down
  BY <1>0, Zenon DEF Down
<1>i. CloseInv(s) /\ AnswerInv(s) /\ EndInv(s) /\ EventInv(s) /\ ActionInv(s)
  BY Zenon DEF SessionInv
<1>1. TypeOK'
  <2>1. QueueTypes'
    BY <1>0, <1>t, <1>u, Zenon DEF QueueTypes
  <2>2. actionsSent' \in [Sessions -> Nat]
    BY <1>0, <1>t, <1>n, Zenon
  <2> QED
    BY <1>0, <2>1, <2>2, Zenon DEF TypeOK
<1>2. CloseInv(s)'
  BY <1>0, Zenon DEF CloseInv
<1>3. AnswerInv(s)'
  BY <1>0, <1>d, <1>i, <1>u, <1>m, Zenon DEF AnswerInv
<1>4. EndInv(s)'
  BY <1>0, <1>d, <1>i, Zenon DEF EndInv
<1>5. EventInv(s)'
  BY <1>0, <1>d, <1>i, Zenon DEF EventInv
<1>6. ActionInv(s)'
  <2>0. /\ Rising(up, ActionsOf(s)) /\ actionsGot[s] <= actionsSent[s]
        /\ \A x \in Range(up) : x \in ActionsOf(s) => actionsGot[s] < x.n /\ x.n <= actionsSent[s]
    BY <1>i, Zenon DEF ActionInv
  <2>1. \A x \in Range(up) : x \in ActionsOf(s) => x.n < n /\ x.n <= n
    <3>1. \A x \in ActionsOf(s) : x.n \in Nat
      BY NumberFacts, Zenon
    <3>2. \A x \in Range(up) : x \in ActionsOf(s) => x.n <= actionsSent[s]
      BY <2>0, Zenon
    <3> QED
      BY <1>t, <3>1, <3>2, NextNumber, Zenon DEF n
  <2>2. Rising(up', ActionsOf(s))
    BY <1>m, <1>u, <2>0, <2>1, RisingFacts
  <2>3. actionsGot[s] < n /\ actionsGot[s] <= n
    BY <1>t, <1>n, <2>0
  <2>4. actionsGot'[s] = actionsGot[s]
    BY <1>0, Zenon
  <2>5. \A x \in Range(up') : x \in ActionsOf(s) => actionsGot[s] < x.n /\ x.n <= n
    <3>1. \A x \in Range(up) : x \in ActionsOf(s) => actionsGot[s] < x.n /\ x.n <= n
      BY <2>0, <2>1, Zenon
    <3>2. actionsGot[s] < m.n /\ m.n <= n
      BY <1>m, <1>n, <2>3
    <3> QED
      BY <1>u, <3>1, <3>2, Zenon
  <2> QED
    BY <1>n, <2>2, <2>3, <2>4, <2>5, Zenon DEF ActionInv
<1>7. ASSUME NEW t \in Sessions \ {s} PROVE Frame(t)
  <2>1. Same(up, up', t, UpEnvelopes) /\ Same(Down, Down', t, DownEnvelopes)
    BY <1>u, <1>d, <1>m, Zenon DEF Same
  <2> QED
    BY <1>0, <1>n, <2>1, Zenon DEF Frame
<1> QED
  BY <1>1, <1>2, <1>3, <1>4, <1>5, <1>6, <1>7 DEF SessionInv

\* An Event or an error arrives: the receiver takes it, or it is nobody's, or it does not fit.
LEMMA ReceiveForSessionStep ==
  ASSUME TypeOK, NEW s \in Sessions, SessionInv(s), ReceiveForSession(s)
  PROVE  TypeOK' /\ SessionInv(s)' /\ \A t \in Sessions \ {s} : Frame(t)
<1>1. PICK m \in Range(wire) :
        /\ m.kind \in {"Event", "SessionError"} /\ m.session = s
        /\ Arrives(m)
        /\ CASE ~Bound(s) -> UNCHANGED <<inbox, overflowed>>
             [] Bound(s) /\ Len(inbox[s]) < InboxCapacity ->
                  inbox' = [inbox EXCEPT ![s] = Append(@, m)] /\ UNCHANGED overflowed
             [] OTHER -> Overflow(m) /\ UNCHANGED inbox
        /\ UNCHANGED <<connected, up, out, noticed, phase, opens, told, unclosed, actionsSent,
                       eventsGot, server>>
  BY Zenon DEF ReceiveForSession
<1>0. UNCHANGED <<connected, up, out, noticed, phase, opens, told, unclosed, actionsSent, eventsGot,
                  reading, serving, registered, terminating, ends, actionsGot, eventsSent>>
  BY <1>1, Zenon DEF server
<1>t. QueueTypes
  BY Zenon DEF TypeOK
<1>q. /\ inbox \in [Sessions -> Seq(DownEnvelopes)] /\ inbox[s] \in Seq(DownEnvelopes)
      /\ \A t \in Sessions : Len(inbox[t]) <= InboxCapacity
      /\ InboxCapacity \in Nat
  BY <1>t, StreamAssumption, Zenon DEF QueueTypes
<1>w. /\ m \in DownEnvelopes /\ wire' \in Seq(DownEnvelopes) /\ Down \in Seq(DownEnvelopes)
      /\ Down # <<>> /\ m = Head(Down) /\ Down' = Tail(Down)
      /\ Range(Down) = {m} \cup Range(Down')
  BY <1>0, <1>1, <1>t, ArrivesFacts, DownFacts, Zenon
<1>m. /\ m \notin Acks(s)
      /\ m.kind = "SessionError" <=> m = Error(s)
      /\ m.kind # "SessionError" => m.kind = "Event"
  BY <1>1, <1>w, EnvelopeFacts, KindFacts, Zenon DEF Acks
<1>b. \/ phase[s] \notin {"opening", "open"} /\ inbox' = inbox /\ overflowed' = overflowed
      \/ /\ inbox' = [inbox EXCEPT ![s] = Append(inbox[s], m)] /\ overflowed' = overflowed
         /\ Len(inbox[s]) < InboxCapacity
      \/ /\ inbox' = inbox
         /\ overflowed' = IF m.kind = "Event" THEN overflowed ELSE overflowed \cup {s}
  <2>1. ~noticed
    BY <1>1, Zenon DEF Arrives
  <2>2. CASE ~Bound(s)
    BY <1>1, <2>1, <2>2, Zenon DEF Bound
  <2>3. CASE Bound(s) /\ Len(inbox[s]) < InboxCapacity
    BY <1>1, <2>3, Zenon
  <2>4. CASE Bound(s) /\ ~(Len(inbox[s]) < InboxCapacity)
    BY <1>1, <2>4, Zenon DEF Overflow
  <2> QED
    BY <2>2, <2>3, <2>4, Zenon
<1>c. /\ inbox' \in [Sessions -> Seq(DownEnvelopes)]
      /\ \A t \in Sessions : Len(inbox'[t]) <= InboxCapacity
      /\ \A t \in Sessions \ {s} : inbox'[t] = inbox[t]
      /\ overflowed \subseteq overflowed' /\ overflowed' \subseteq Sessions
  <2>1. overflowed \subseteq overflowed' /\ overflowed' \subseteq Sessions
    BY <1>b, Zenon DEF TypeOK
  <2>2. CASE inbox' = inbox
    BY <1>q, <2>1, <2>2, Zenon
  <2>3. CASE inbox' = [inbox EXCEPT ![s] = Append(inbox[s], m)] /\ Len(inbox[s]) < InboxCapacity
    <3>1. /\ Append(inbox[s], m) \in Seq(DownEnvelopes)
          /\ Len(Append(inbox[s], m)) = Len(inbox[s]) + 1 /\ Len(inbox[s]) \in Nat
      BY <1>q, <1>w, AppendProperties, LenProperties
    <3>2. Len(Append(inbox[s], m)) <= InboxCapacity
      BY <1>q, <2>3, <3>1
    <3> QED
      BY <1>q, <2>1, <2>3, <3>1, <3>2, Zenon
  <2> QED
    BY <1>b, <2>2, <2>3, Zenon
<1>i. CloseInv(s) /\ AnswerInv(s) /\ EndInv(s) /\ EventInv(s) /\ ActionInv(s)
  BY Zenon DEF SessionInv
<1>2. TypeOK'
  <2>1. QueueTypes'
    BY <1>0, <1>t, <1>w, <1>c, Zenon DEF QueueTypes
  <2> QED
    BY <1>0, <1>c, <2>1, Zenon DEF TypeOK
<1>3. CloseInv(s)'
  BY <1>0, <1>i, Zenon DEF CloseInv
<1>a. \A x \in Acks(s) : x \in Range(Down') <=> x \in Range(Down)
  BY <1>w, <1>m, Zenon
<1>4. AnswerInv(s)'
  <2>1. Range(Down') \cap Acks(s) = Range(Down) \cap Acks(s)
    BY <1>a, Zenon
  <2>2. Avoids(Down, Acks(s), Acks(s)) => Avoids(Down', Acks(s), Acks(s))
    BY <1>w, AvoidsFacts, Zenon
  <2>3. Envelope("Refused", s) \in Range(Down') <=> Envelope("Refused", s) \in Range(Down)
    BY <1>a, Zenon DEF Acks
  <2> QED
    BY <1>0, <1>i, <1>c, <2>1, <2>2, <2>3, Zenon DEF AnswerInv
<1>5. EndInv(s)'
  <2> SUFFICES ASSUME connected, s \notin overflowed', s \notin registered,
                      \/ phase[s] = "open"
                      \/ phase[s] = "opening" /\ (serving = s \/ Envelope("Opened", s) \in Range(Down))
               PROVE  s \in told \/ Error(s) \in Range(Down') \/ Error(s) \in Range(inbox'[s])
    BY <1>0, <1>a, Zenon DEF EndInv, Acks
  <2>1. s \in told \/ Error(s) \in Range(Down) \/ Error(s) \in Range(inbox[s])
    BY <1>i, <1>c, Zenon DEF EndInv
  <2>2. CASE inbox' = [inbox EXCEPT ![s] = Append(inbox[s], m)]
    <3>1. Range(inbox'[s]) = Range(inbox[s]) \cup {m}
      BY <1>q, <1>w, <2>2, AppendRange
    <3> QED
      BY <1>w, <2>1, <3>1, Zenon
  <2>3. CASE inbox' = inbox /\ overflowed' = IF m.kind = "Event" THEN overflowed ELSE overflowed \cup {s}
    <3>1. m.kind = "Event"
      BY <2>3, Zenon
    <3>2. m # Error(s)
      BY <1>m, <3>1, Zenon
    <3> QED
      BY <1>w, <2>1, <2>3, <3>2, Zenon
  <2> QED
    BY <1>b, <2>2, <2>3, Zenon
<1>6. EventInv(s)'
  <2>1. CASE inbox' = inbox
    BY <1>0, <1>t, <1>i, <1>w, <2>1, EventsKept, Zenon
  <2>2. CASE inbox' = [inbox EXCEPT ![s] = Append(inbox[s], m)]
    <3>0. inbox'[s] = Append(inbox[s], m)
      BY <1>q, <2>2, Zenon
    <3>1. Range(inbox'[s]) = Range(inbox[s]) \cup {m}
      BY <1>q, <1>w, <3>0, AppendRange
    <3>2. /\ eventsGot[s] <= eventsSent[s]
          /\ \A x \in Range(inbox[s]) : x.session = s
          /\ \A x \in Range(inbox[s]) \cup Range(Down) :
               x \in EventsOf(s) => eventsGot[s] < x.n /\ x.n <= eventsSent[s]
          /\ Rising(inbox[s], EventsOf(s)) /\ Rising(Down, EventsOf(s))
          /\ \A x \in Range(inbox[s]), d \in Range(Down) :
               x \in EventsOf(s) /\ d \in EventsOf(s) => x.n < d.n
      BY <1>i, Zenon DEF EventInv
    <3>3. Rising(Append(inbox[s], m), EventsOf(s))
      <4>1. m \in EventsOf(s) => \A x \in Range(inbox[s]) : x \in EventsOf(s) => x.n < m.n
        BY <1>w, <3>2, Zenon
      <4> QED
        BY <1>q, <1>w, <3>2, <4>1, RisingFacts
    <3>4. Rising(Down', EventsOf(s)) /\ (m \in EventsOf(s) => \A d \in Range(Down') : d \in EventsOf(s) => m.n < d.n)
      BY <1>w, <3>2, RisingFacts, Zenon
    <3>5. \A x \in Range(inbox'[s]), d \in Range(Down') :
            x \in EventsOf(s) /\ d \in EventsOf(s) => x.n < d.n
      BY <1>w, <3>1, <3>2, <3>4, Zenon
    <3>6. \A x \in Range(inbox'[s]) \cup Range(Down') :
            x \in EventsOf(s) => eventsGot[s] < x.n /\ x.n <= eventsSent[s]
      BY <1>w, <3>1, <3>2, Zenon
    <3>7. \A x \in Range(inbox'[s]) : x.session = s
      BY <1>1, <3>1, <3>2, Zenon
    <3> QED
      BY <1>0, <3>0, <3>2, <3>3, <3>4, <3>5, <3>6, <3>7, Zenon DEF EventInv
  <2> QED
    BY <1>b, <2>1, <2>2, Zenon
<1>7. ActionInv(s)'
  BY <1>0, <1>i, Zenon DEF ActionInv
<1>8. ASSUME NEW t \in Sessions \ {s} PROVE Frame(t)
  <2>1. Same(up, up', t, UpEnvelopes) /\ Same(Down, Down', t, DownEnvelopes)
    BY <1>0, <1>1, <1>w, Zenon DEF Same
  <2> QED
    BY <1>0, <1>c, <2>1, Zenon DEF Frame
<1> QED
  BY <1>2, <1>3, <1>4, <1>5, <1>6, <1>7, <1>8, Zenon DEF SessionInv

\* The caller takes what is in its receiver.
LEMMA RecvStep ==
  ASSUME TypeOK, NEW s \in Sessions, SessionInv(s), Recv(s)
  PROVE  TypeOK' /\ SessionInv(s)' /\ \A t \in Sessions \ {s} : Frame(t)
<1> DEFINE m == Head(inbox[s])
<1>0. /\ phase[s] = "open" /\ inbox[s] # <<>>
      /\ inbox' = [inbox EXCEPT ![s] = Tail(inbox[s])]
      /\ IF m.kind = "Event"
         THEN eventsGot' = [eventsGot EXCEPT ![s] = m.n] /\ told' = told
         ELSE told' = told \cup {s} /\ eventsGot' = eventsGot
      /\ UNCHANGED <<connected, up, out, wire, overflowed, noticed, phase, opens, unclosed, actionsSent,
                     reading, serving, registered, terminating, ends, actionsGot, eventsSent>>
  BY Zenon DEF Recv, server, queues
<1>t. QueueTypes /\ eventsGot \in [Sessions -> Nat] /\ told \subseteq Sessions
  BY Zenon DEF TypeOK
<1>q. /\ inbox \in [Sessions -> Seq(DownEnvelopes)] /\ inbox[s] \in Seq(DownEnvelopes)
      /\ \A t \in Sessions : Len(inbox[t]) <= InboxCapacity
      /\ InboxCapacity \in Nat
  BY <1>t, StreamAssumption, Zenon DEF QueueTypes
<1>d. Down' = Down
  BY <1>0, Zenon DEF Down
<1>i. CloseInv(s) /\ AnswerInv(s) /\ EndInv(s) /\ EventInv(s) /\ ActionInv(s)
  BY DEF SessionInv
<1>e. /\ eventsGot[s] <= eventsSent[s]
      /\ \A x \in Range(inbox[s]) : x.session = s
      /\ \A x \in Range(inbox[s]) \cup Range(Down) :
           x \in EventsOf(s) => eventsGot[s] < x.n /\ x.n <= eventsSent[s]
      /\ Rising(inbox[s], EventsOf(s)) /\ Rising(Down, EventsOf(s))
      /\ \A x \in Range(inbox[s]), d \in Range(Down) :
           x \in EventsOf(s) /\ d \in EventsOf(s) => x.n < d.n
  BY <1>i, Zenon DEF EventInv
<1>r. /\ inbox'[s] = Tail(inbox[s]) /\ \A t \in Sessions \ {s} : inbox'[t] = inbox[t]
      /\ Tail(inbox[s]) \in Seq(DownEnvelopes) /\ m \in DownEnvelopes
      /\ Range(inbox[s]) = {m} \cup Range(inbox'[s])
  BY <1>0, <1>q, TailRange, Zenon
<1>m. m.session = s /\ (m.kind = "Event" <=> m \in EventsOf(s)) /\ (m.kind = "Event" => m # Error(s))
  BY <1>r, <1>e, KindFacts, EnvelopeFacts, Zenon
<1>h. m \in EventsOf(s) => \A x \in Range(inbox'[s]) : x \in EventsOf(s) => m.n < x.n
  BY <1>0, <1>q, <1>r, <1>e, RisingFacts
<1>f. Rising(inbox'[s], EventsOf(s))
  BY <1>0, <1>q, <1>r, <1>e, RisingFacts, Zenon
<1> HIDE DEF m
<1>g. /\ eventsGot' \in [Sessions -> Nat] /\ told' \subseteq Sessions /\ told \subseteq told'
      /\ \A t \in Sessions \ {s} : eventsGot'[t] = eventsGot[t]
      /\ eventsGot'[s] = IF m.kind = "Event" THEN m.n ELSE eventsGot[s]
  <2>1. m.kind = "Event" => m.n \in Nat
    BY <1>m, EnvelopeFacts, Zenon
  <2>2. CASE m.kind = "Event"
    BY <1>0, <1>t, <2>1, <2>2, Zenon
  <2>3. CASE m.kind # "Event"
    BY <1>0, <1>t, <2>3, Zenon
  <2> QED
    BY <2>2, <2>3, Zenon
<1>1. TypeOK'
  <2>1. inbox' \in [Sessions -> Seq(DownEnvelopes)]
    BY <1>0, <1>q, <1>r, Zenon
  <2>2. \A t \in Sessions : Len(inbox'[t]) <= InboxCapacity
    <3>1. Len(Tail(inbox[s])) = Len(inbox[s]) - 1 /\ Len(inbox[s]) \in Nat
      BY <1>0, <1>q, HeadTailProperties, LenProperties, Zenon
    <3>2. Len(inbox'[s]) <= InboxCapacity
      BY <1>q, <1>r, <3>1
    <3> QED
      BY <1>q, <1>r, <3>2, Zenon
  <2>3. QueueTypes'
    BY <1>0, <1>t, <2>1, <2>2, Zenon DEF QueueTypes
  <2> QED
    BY <1>0, <1>g, <2>3, Zenon DEF TypeOK
<1>2. CloseInv(s)'
  BY <1>0, Zenon DEF CloseInv
<1>3. AnswerInv(s)'
  BY <1>0, <1>d, <1>i, Zenon DEF AnswerInv
<1>4. EndInv(s)'
  <2>1. connected /\ s \notin overflowed /\ s \notin registered
          => s \in told \/ Error(s) \in Range(Down) \/ Error(s) \in Range(inbox[s])
    BY <1>0, <1>i, Zenon DEF EndInv
  <2>2. s \in told' \/ (Error(s) \in Range(inbox[s]) => Error(s) \in Range(inbox'[s]))
    BY <1>0, <1>m, <1>r, Zenon
  <2> QED
    BY <1>0, <1>d, <1>g, <2>1, <2>2, Zenon DEF EndInv
<1>5. EventInv(s)'
  <2>1. eventsGot'[s] <= eventsSent[s]
    BY <1>e, <1>g, <1>m, <1>r, Zenon
  <2>2. \A x \in Range(inbox'[s]) \cup Range(Down) :
          x \in EventsOf(s) => eventsGot'[s] < x.n /\ x.n <= eventsSent[s]
    BY <1>e, <1>g, <1>h, <1>m, <1>r, Zenon
  <2>3. \A x \in Range(inbox'[s]), d \in Range(Down) :
          x \in EventsOf(s) /\ d \in EventsOf(s) => x.n < d.n
    BY <1>e, <1>r, Zenon
  <2>4. \A x \in Range(inbox'[s]) : x.session = s
    BY <1>e, <1>r, Zenon
  <2> QED
    BY <1>0, <1>d, <1>e, <1>f, <2>1, <2>2, <2>3, <2>4, Zenon DEF EventInv
<1>6. ActionInv(s)'
  BY <1>0, <1>i, Zenon DEF ActionInv
<1>7. ASSUME NEW t \in Sessions \ {s} PROVE Frame(t)
  <2>1. Same(up, up', t, UpEnvelopes) /\ Same(Down, Down', t, DownEnvelopes)
    BY <1>0, <1>d, Zenon DEF Same
  <2> QED
    BY <1>0, <1>g, <1>r, <2>1, Zenon DEF Frame
<1> QED
  BY <1>1, <1>2, <1>3, <1>4, <1>5, <1>6, <1>7 DEF SessionInv

\* The answer to an open arrives: it is the only one on its way, so the caller's
\* Session is opened or given up for good.
LEMMA ReceiveAckStep ==
  ASSUME TypeOK, NEW s \in Sessions, SessionInv(s), ReceiveAck(s)
  PROVE  TypeOK' /\ SessionInv(s)' /\ \A t \in Sessions \ {s} : Frame(t)
<1>1. PICK m \in Range(wire) :
        /\ m.kind \in {"Opened", "Refused"} /\ m.session = s
        /\ Arrives(m)
        /\ CASE phase[s] # "opening" -> UNCHANGED <<up, phase, unclosed, inbox>>
             [] phase[s] = "opening" /\ m.kind = "Opened" ->
                  phase' = [phase EXCEPT ![s] = "open"] /\ UNCHANGED <<up, unclosed, inbox>>
             [] OTHER -> \E p \in {"refused", "failed"} : GiveUp(s, p)
        /\ UNCHANGED <<connected, out, overflowed, noticed, opens, told, actionsSent, eventsGot, server>>
  BY Zenon DEF ReceiveAck
<1>0. UNCHANGED <<connected, out, overflowed, noticed, opens, told, actionsSent, eventsGot,
                  reading, serving, registered, terminating, ends, actionsGot, eventsSent>>
  BY <1>1, Zenon DEF server
<1>t. QueueTypes /\ phase \in [Sessions -> Phases]
  BY Zenon DEF TypeOK
<1>w. /\ m \in DownEnvelopes /\ wire' \in Seq(DownEnvelopes) /\ Down \in Seq(DownEnvelopes)
      /\ Down # <<>> /\ m = Head(Down) /\ Down' = Tail(Down)
      /\ Range(Down) = {m} \cup Range(Down')
  BY <1>0, <1>1, <1>t, ArrivesFacts, DownFacts, Zenon
<1>m. /\ m \in Acks(s) /\ m # Error(s)
      /\ m.kind = "Opened" <=> m = Envelope("Opened", s)
      /\ m.kind = "Refused" <=> m = Envelope("Refused", s)
  BY <1>1, <1>w, EnvelopeFacts, KindFacts, Zenon DEF Acks
<1>i. CloseInv(s) /\ AnswerInv(s) /\ EndInv(s) /\ EventInv(s) /\ ActionInv(s)
  BY DEF SessionInv
<1>k. Error(s) \in Range(Down') <=> Error(s) \in Range(Down)
  BY <1>w, <1>m, Zenon
<1>a. ASSUME connected, s \notin overflowed, phase[s] = "opening"
      PROVE  /\ Range(up) \cap {Open(s), Close(s)} = {} /\ serving # s
             /\ Range(Down') \cap Acks(s) = {}
             /\ m.kind = "Refused" => s \notin registered
  <2>1. Range(Down) \cap Acks(s) # {}
    BY <1>m, <1>w, Zenon
  <2>2. /\ Avoids(Down, Acks(s), Acks(s))
        /\ Range(up) \cap {Open(s), Close(s)} = {} /\ serving # s
        /\ Envelope("Refused", s) \in Range(Down) => s \notin registered
    BY <1>a, <1>i, <2>1, Zenon DEF AnswerInv
  <2>3. Range(Tail(Down)) \cap Acks(s) = {}
    BY <1>m, <1>w, <2>2, AvoidsFacts, Zenon
  <2> QED
    BY <1>m, <1>w, <2>2, <2>3, Zenon
<1>x. \A t \in Sessions \ {s} : Same(Down, Down', t, DownEnvelopes)
  BY <1>1, <1>w, Zenon DEF Same
<1>2. CASE phase[s] # "opening"
  <2>0. UNCHANGED <<up, phase, unclosed, inbox>>
    BY <1>1, <1>2, Zenon
  <2>1. TypeOK'
    <3>1. QueueTypes'
      BY <1>0, <1>t, <1>w, <2>0, Zenon DEF QueueTypes
    <3> QED
      BY <1>0, <2>0, <3>1, Zenon DEF TypeOK
  <2>2. CloseInv(s)'
    BY <1>0, <1>i, <2>0, Zenon DEF CloseInv
  <2>3. AnswerInv(s)'
    <3>1. Range(Down) \cap Acks(s) = {} => Range(Down') \cap Acks(s) = {}
      BY <1>w, Zenon
    <3> QED
      BY <1>0, <1>2, <1>i, <2>0, <3>1, Zenon DEF AnswerInv
  <2>4. EndInv(s)'
    BY <1>0, <1>2, <1>i, <1>k, <2>0, Zenon DEF EndInv
  <2>5. EventInv(s)'
    BY <1>0, <1>t, <1>i, <1>w, <2>0, EventsKept, Zenon
  <2>6. ActionInv(s)'
    BY <1>0, <1>i, <2>0, Zenon DEF ActionInv
  <2>7. ASSUME NEW t \in Sessions \ {s} PROVE Frame(t)
    BY <1>0, <1>x, <2>0, Zenon DEF Frame, Same
  <2> QED
    BY <2>1, <2>2, <2>3, <2>4, <2>5, <2>6, <2>7 DEF SessionInv
<1>3. CASE phase[s] = "opening" /\ m.kind = "Opened"
  <2>0. phase' = [phase EXCEPT ![s] = "open"] /\ UNCHANGED <<up, unclosed, inbox>>
    BY <1>1, <1>3, Zenon
  <2>p. phase'[s] = "open" /\ phase' \in [Sessions -> Phases]
        /\ \A t \in Sessions \ {s} : phase'[t] = phase[t]
    BY <1>t, <2>0, Zenon DEF Phases
  <2>1. TypeOK'
    <3>1. QueueTypes'
      BY <1>0, <1>t, <1>w, <2>0, Zenon DEF QueueTypes
    <3> QED
      BY <1>0, <2>0, <2>p, <3>1, Zenon DEF TypeOK
  <2>2. CloseInv(s)'
    BY <2>p, Zenon DEF CloseInv
  <2>3. AnswerInv(s)'
    BY <1>0, <1>3, <1>a, <2>0, <2>p, Zenon DEF AnswerInv
  <2>4. EndInv(s)'
    <3>1. Envelope("Opened", s) \in Range(Down)
      BY <1>3, <1>m, <1>w, Zenon
    <3>2. connected /\ s \notin overflowed /\ s \notin registered
            => s \in told \/ Error(s) \in Range(Down) \/ Error(s) \in Range(inbox[s])
      BY <1>3, <1>i, <3>1, Zenon DEF EndInv
    <3> QED
      BY <1>0, <1>k, <2>0, <3>2, Zenon DEF EndInv
  <2>5. EventInv(s)'
    BY <1>0, <1>t, <1>i, <1>w, <2>0, EventsKept, Zenon
  <2>6. ActionInv(s)'
    BY <1>0, <1>i, <2>0, Zenon DEF ActionInv
  <2>7. ASSUME NEW t \in Sessions \ {s} PROVE Frame(t)
    <3>1. Same(up, up', t, UpEnvelopes)
      BY <2>0, Zenon DEF Same
    <3> QED
      BY <1>0, <1>x, <2>0, <2>p, <3>1, Zenon DEF Frame
  <2> QED
    BY <2>1, <2>2, <2>3, <2>4, <2>5, <2>6, <2>7 DEF SessionInv
<1>4. CASE phase[s] = "opening" /\ m.kind # "Opened"
  <2>1. PICK p \in {"refused", "failed"} : GiveUp(s, p)
    BY <1>1, <1>4, Zenon
  <2>g. /\ up' \in Seq(UpEnvelopes) /\ Len(up') <= UpCapacity
        /\ inbox' \in [Sessions -> Seq(DownEnvelopes)]
        /\ \A t \in Sessions : Len(inbox'[t]) <= InboxCapacity
        /\ phase' \in [Sessions -> Phases] /\ unclosed' \subseteq Sessions
        /\ CloseInv(s)' /\ phase'[s] = p
        /\ inbox'[s] = inbox[s] \/ inbox'[s] = <<>>
        /\ up' = up \/ \E x \in UpEnvelopes : x \notin ActionsOf(s) /\ up' = Append(up, x)
        /\ Open(s) \notin Range(up) => Open(s) \notin Range(up')
        /\ \A t \in Sessions \ {s} : /\ phase'[t] = phase[t] /\ inbox'[t] = inbox[t]
                                     /\ t \in unclosed => t \in unclosed'
                                     /\ Same(up, up', t, UpEnvelopes)
    BY <2>1, GiveUpFacts, Zenon
  <2>2. TypeOK'
    <3>1. QueueTypes'
      BY <1>0, <1>t, <1>w, <2>g, Zenon DEF QueueTypes
    <3> QED
      BY <1>0, <2>g, <3>1, Zenon DEF TypeOK
  <2>3. AnswerInv(s)'
    <3>1. ASSUME connected, s \notin overflowed
          PROVE  /\ s \notin registered /\ serving # s /\ Open(s) \notin Range(up')
                 /\ Range(Down') \cap Acks(s) = {}
      BY <1>1, <1>4, <1>a, <2>g, <3>1, Zenon
    <3> QED
      BY <1>0, <2>g, <3>1, Zenon DEF AnswerInv
  <2>4. EndInv(s)'
    BY <2>g, Zenon DEF EndInv
  <2>5. EventInv(s)'
    BY <1>0, <1>t, <1>i, <1>w, <2>g, EventsKept, Zenon
  <2>6. ActionInv(s)'
    BY <1>0, <1>t, <1>i, <2>g, ActionsKept, Zenon
  <2>7. ASSUME NEW t \in Sessions \ {s} PROVE Frame(t)
    BY <1>0, <1>x, <2>g, Zenon DEF Frame
  <2> QED
    BY <2>g, <2>2, <2>3, <2>4, <2>5, <2>6, <2>7, Zenon DEF SessionInv
<1> QED
  BY <1>2, <1>3, <1>4, Zenon

-----------------------------------------------------------------------------
(* The steps of the Server.                                                *)

\* What is put on the way that is no answer leaves the answers as they are.
LEMMA AnswersKept ==
  ASSUME QueueTypes, NEW s \in Sessions,
         Down' = Down \/ \E m \in DownEnvelopes : m \notin Acks(s) /\ Down' = Append(Down, m)
  PROVE  /\ Range(Down) \subseteq Range(Down')
         /\ Range(Down') \cap Acks(s) = Range(Down) \cap Acks(s)
         /\ Envelope("Refused", s) \in Range(Down') <=> Envelope("Refused", s) \in Range(Down)
         /\ Envelope("Opened", s) \in Range(Down') <=> Envelope("Opened", s) \in Range(Down)
         /\ Avoids(Down, Acks(s), Acks(s)) => Avoids(Down', Acks(s), Acks(s))
<1>1. CASE Down' = Down
  BY <1>1, Zenon
<1>2. ASSUME NEW m \in DownEnvelopes, m \notin Acks(s), Down' = Append(Down, m)
      PROVE  /\ Range(Down) \subseteq Range(Down')
             /\ Range(Down') \cap Acks(s) = Range(Down) \cap Acks(s)
             /\ Envelope("Refused", s) \in Range(Down') <=> Envelope("Refused", s) \in Range(Down)
             /\ Envelope("Opened", s) \in Range(Down') <=> Envelope("Opened", s) \in Range(Down)
             /\ Avoids(Down, Acks(s), Acks(s)) => Avoids(Down', Acks(s), Acks(s))
  <2>0. Down \in Seq(DownEnvelopes)
    BY DownFacts, Zenon
  <2>1. Range(Down') = Range(Down) \cup {m}
    BY <1>2, <2>0, AppendRange
  <2>2. Avoids(Down, Acks(s), Acks(s)) => Avoids(Append(Down, m), Acks(s), Acks(s))
    BY <1>2, <2>0, AvoidsFacts, Zenon
  <2>3. m # Envelope("Refused", s) /\ m # Envelope("Opened", s)
    BY <1>2, Zenon DEF Acks
  <2> QED
    BY <1>2, <2>1, <2>2, <2>3, Zenon
<1> QED
  BY <1>1, <1>2, Zenon

\* The answer to the open being waited for is put on the way when there is none, or did not fit.
LEMMA AnswerPut ==
  ASSUME QueueTypes, NEW s \in Sessions, NEW m \in Acks(s), PutOut(m), UNCHANGED wire
  PROVE  /\ out' \in Seq(DownEnvelopes) /\ Len(out') <= OutCapacity
         /\ overflowed' = overflowed \/ overflowed' = overflowed \cup {s}
         /\ Down' = Down \/ Down' = Append(Down, m)
         /\ Range(Down) \subseteq Range(Down') /\ Range(Down') \subseteq Range(Down) \cup {m}
         /\ Range(Down) \cap Acks(s) = {} /\ s \notin overflowed'
              => m \in Range(Down') /\ Avoids(Down', Acks(s), Acks(s))
<1>m. m \in DownEnvelopes /\ m.kind # "Event" /\ m.session = s
  BY AckFacts, Zenon
<1>0. Down \in Seq(DownEnvelopes)
  BY DownFacts, Zenon
<1>1. /\ out' \in Seq(DownEnvelopes) /\ Len(out') <= OutCapacity
      /\ \/ Down' = Append(Down, m) /\ overflowed' = overflowed
         \/ Down' = Down /\ overflowed' = overflowed \cup {s}
  BY <1>m, PutOutFacts, Zenon
<1>2. Range(Append(Down, m)) = Range(Down) \cup {m}
  BY <1>0, <1>m, AppendRange
<1>3. ASSUME Range(Down) \cap Acks(s) = {}, s \notin overflowed'
      PROVE  m \in Range(Down') /\ Avoids(Down', Acks(s), Acks(s))
  <2>1. Down' = Append(Down, m)
    BY <1>1, <1>3, Zenon
  <2>2. Avoids(Down, Acks(s), Acks(s))
    BY <1>0, <1>3, AvoidsNothing, Zenon
  <2>3. Avoids(Append(Down, m), Acks(s), Acks(s))
    BY <1>0, <1>m, <1>3, <2>2, AvoidsFacts, Zenon
  <2> QED
    BY <1>2, <2>1, <2>3, Zenon
<1> QED
  BY <1>1, <1>2, <1>3, Zenon

\* The inbound task takes a SessionOpen: it was the only one, and no SessionClose follows
\* it unless its caller has given up.
LEMMA ServeOpenStep ==
  ASSUME TypeOK, NEW s \in Sessions, SessionInv(s), ServeOpen(s)
  PROVE  TypeOK' /\ SessionInv(s)' /\ \A t \in Sessions \ {s} : Frame(t)
<1>0. /\ Inbound(Open(s))
      /\ UNCHANGED <<connected, wire, noticed, phase, opens, inbox, told, unclosed, actionsSent, eventsGot,
                     reading, terminating, ends, actionsGot, eventsSent>>
  BY Zenon DEF ServeOpen, Open, caller
<1>b. \/ /\ s \notin registered /\ registered' = registered \cup {s} /\ serving' = s
         /\ out' = out /\ overflowed' = overflowed
      \/ PutOut(Envelope("Refused", s)) /\ registered' = registered /\ serving' = serving
  BY Zenon DEF ServeOpen
<1>t. QueueTypes /\ registered \subseteq Sessions /\ overflowed \subseteq Sessions
  BY Zenon DEF TypeOK
<1>u. /\ up \in Seq(UpEnvelopes) /\ up # <<>> /\ Open(s) = Head(up) /\ up' = Tail(up)
      /\ up' \in Seq(UpEnvelopes) /\ Len(up') <= UpCapacity
      /\ Range(up) = {Open(s)} \cup Range(up')
      /\ serving = None /\ serving # s
  BY <1>0, <1>t, InboundFacts, StreamAssumption, Zenon DEF QueueTypes
<1>i. CloseInv(s) /\ AnswerInv(s) /\ EndInv(s) /\ EventInv(s) /\ ActionInv(s)
  BY DEF SessionInv
<1>e. /\ Envelope("Refused", s) \in Acks(s) /\ Envelope("Refused", s) \in DownEnvelopes
      /\ Envelope("Refused", s).session = s /\ Envelope("Refused", s) \notin EventsOf(s)
      /\ Envelope("Opened", s) # Envelope("Refused", s) /\ Open(s).session = s
  BY EnvelopeFacts, Zenon DEF Acks
<1>p. PutOut(Envelope("Refused", s)) =>
        /\ out' \in Seq(DownEnvelopes) /\ Len(out') <= OutCapacity
        /\ overflowed' = overflowed \/ overflowed' = overflowed \cup {s}
        /\ Down' = Down \/ Down' = Append(Down, Envelope("Refused", s))
        /\ Range(Down) \subseteq Range(Down')
        /\ Range(Down') \subseteq Range(Down) \cup {Envelope("Refused", s)}
        /\ Range(Down) \cap Acks(s) = {} /\ s \notin overflowed'
             => Envelope("Refused", s) \in Range(Down') /\ Avoids(Down', Acks(s), Acks(s))
  BY <1>0, <1>e, <1>t, AnswerPut, Zenon
<1>d. /\ out' \in Seq(DownEnvelopes) /\ Len(out') <= OutCapacity
      /\ overflowed \subseteq overflowed' /\ overflowed' \subseteq Sessions
      /\ Down' = Down \/ Down' = Append(Down, Envelope("Refused", s))
      /\ registered' \subseteq Sessions /\ serving' \in Sessions \cup {None}
  <2>1. CASE out' = out /\ overflowed' = overflowed
    <3>1. Down' = Down
      BY <1>0, <2>1, Zenon DEF Down
    <3> QED
      BY <1>b, <1>t, <1>u, <2>1, <3>1, Zenon DEF QueueTypes
  <2>2. CASE PutOut(Envelope("Refused", s))
    BY <1>b, <1>p, <1>t, <1>u, <2>2, Zenon
  <2> QED
    BY <1>b, <2>1, <2>2
<1>1. TypeOK'
  <2>1. QueueTypes'
    BY <1>0, <1>d, <1>t, <1>u, Zenon DEF QueueTypes
  <2> QED
    BY <1>0, <1>d, <2>1, Zenon DEF TypeOK
<1>2. CloseInv(s)'
  <2> SUFFICES ASSUME Followed(up, Open(s), Close(s))
               PROVE  Close(s) \in Range(up') /\ Followed(up', Open(s), Close(s))
    BY <1>0, <1>i, Zenon DEF CloseInv
  <2> QED
    BY <1>u, FollowedFacts, Zenon
<1>3. AnswerInv(s)'
  <2> SUFFICES ASSUME connected, s \notin overflowed'
               PROVE  AnswerInv(s)'
    BY <1>0, Zenon DEF AnswerInv
  <2>1. Open(s) \in Range(up) /\ s \notin overflowed
    BY <1>d, <1>u, Zenon
  <2>2. phase[s] \notin {"none", "refused", "open"}
    BY <1>i, <2>1, Zenon DEF AnswerInv
  <2>3. ASSUME phase[s] = "opening"
        PROVE  /\ Avoids(up, {Open(s)}, {Open(s), Close(s)})
               /\ s \notin registered /\ Range(Down) \cap Acks(s) = {}
    BY <1>i, <2>1, <2>3, Zenon DEF AnswerInv
  <2>4. ASSUME phase[s] = "opening"
        PROVE  Range(up') \cap {Open(s), Close(s)} = {} /\ Avoids(up', {Open(s)}, {Open(s), Close(s)})
    BY <1>u, <2>3, <2>4, AvoidsFacts, Zenon
  <2>5. CASE registered' = registered \cup {s} /\ serving' = s /\ out' = out
    <3>1. Down' = Down /\ Down \in Seq(DownEnvelopes)
      BY <1>0, <1>t, <2>5, DownFacts, Zenon DEF Down
    <3>2. phase[s] = "opening" => Avoids(Down, Acks(s), Acks(s))
      BY <2>3, <3>1, AvoidsNothing, Zenon
    <3> QED
      BY <1>0, <2>2, <2>3, <2>4, <2>5, <3>1, <3>2, Zenon DEF AnswerInv
  <2>6. CASE PutOut(Envelope("Refused", s)) /\ registered' = registered /\ serving' = serving
    <3>1. phase[s] = "opening" => /\ Envelope("Refused", s) \in Range(Down')
                                  /\ Avoids(Down', Acks(s), Acks(s))
                                  /\ Range(Down') \cap Acks(s) # {}
      BY <1>e, <1>p, <2>3, <2>6, Zenon
    <3> QED
      BY <1>0, <1>u, <2>2, <2>3, <2>4, <2>6, <3>1, Zenon DEF AnswerInv
  <2> QED
    BY <1>b, <2>5, <2>6, Zenon
<1>4. EndInv(s)'
  <2>1. CASE registered' = registered \cup {s}
    BY <2>1, Zenon DEF EndInv
  <2>2. CASE PutOut(Envelope("Refused", s)) /\ registered' = registered /\ serving' = serving
    <3>1. /\ Envelope("Opened", s) \in Range(Down') => Envelope("Opened", s) \in Range(Down)
          /\ Error(s) \in Range(Down) => Error(s) \in Range(Down')
      BY <1>e, <1>p, <2>2, Zenon
    <3> QED
      BY <1>0, <1>d, <1>i, <2>2, <3>1, Zenon DEF EndInv
  <2> QED
    BY <1>b, <2>1, <2>2, Zenon
<1>5. EventInv(s)'
  BY <1>0, <1>d, <1>e, <1>i, <1>t, EventsKept, Zenon
<1>6. ActionInv(s)'
  BY <1>0, <1>i, <1>t, <1>u, ActionsKept, Zenon
<1>7. ASSUME NEW t \in Sessions \ {s} PROVE Frame(t)
  <2>1. Same(up, up', t, UpEnvelopes) /\ Same(Down, Down', t, DownEnvelopes)
    BY <1>d, <1>e, <1>u, Zenon DEF Same
  <2>2. (t \in registered' <=> t \in registered) /\ (serving' = t <=> serving = t)
    BY <1>b, <1>u, StreamAssumption, Zenon
  <2> QED
    BY <1>0, <1>d, <2>1, <2>2, Zenon DEF Frame
<1> QED
  BY <1>1, <1>2, <1>3, <1>4, <1>5, <1>6, <1>7 DEF SessionInv

\* The open is answered, once.
LEMMA OpenServedStep ==
  ASSUME TypeOK, NEW s \in Sessions, SessionInv(s), OpenServed(s)
  PROVE  TypeOK' /\ SessionInv(s)' /\ \A t \in Sessions \ {s} : Frame(t)
<1>0. /\ serving = s /\ serving' = None
      /\ UNCHANGED <<connected, up, wire, noticed, phase, opens, inbox, told, unclosed, actionsSent,
                     eventsGot, reading, terminating, ends, actionsGot, eventsSent>>
  BY Zenon DEF OpenServed, caller
<1>1. PICK m \in Acks(s) :
        /\ PutOut(m)
        /\ \/ m = Envelope("Opened", s) /\ registered' = registered
           \/ m = Envelope("Refused", s) /\ registered' = registered \ {s}
  BY Zenon DEF OpenServed, Acks
<1>t. QueueTypes /\ registered \subseteq Sessions /\ overflowed \subseteq Sessions /\ None # s
  BY StreamAssumption, Zenon DEF TypeOK
<1>e. /\ m \in DownEnvelopes /\ m.session = s /\ m \notin EventsOf(s)
      /\ Envelope("Opened", s) # Envelope("Refused", s)
      /\ Envelope("Opened", s) \in Acks(s) /\ Envelope("Refused", s) \in Acks(s)
  <2>1. m \in DownEnvelopes /\ m.session = s /\ m \notin EventsOf(s)
    BY AckFacts, Zenon
  <2>2. Envelope("Opened", s) # Envelope("Refused", s)
    BY EnvelopeFacts, Zenon
  <2> QED
    BY <2>1, <2>2, Zenon DEF Acks
<1>p. /\ out' \in Seq(DownEnvelopes) /\ Len(out') <= OutCapacity
      /\ overflowed' = overflowed \/ overflowed' = overflowed \cup {s}
      /\ Down' = Down \/ Down' = Append(Down, m)
      /\ Range(Down) \subseteq Range(Down') /\ Range(Down') \subseteq Range(Down) \cup {m}
      /\ Range(Down) \cap Acks(s) = {} /\ s \notin overflowed'
           => m \in Range(Down') /\ Avoids(Down', Acks(s), Acks(s))
  BY <1>0, <1>1, <1>t, AnswerPut, Zenon
<1>i. CloseInv(s) /\ AnswerInv(s) /\ EndInv(s) /\ EventInv(s) /\ ActionInv(s)
  BY Zenon DEF SessionInv
<1>2. TypeOK'
  <2>1. QueueTypes'
    BY <1>0, <1>p, <1>t, Zenon DEF QueueTypes
  <2>2. overflowed' \subseteq Sessions /\ registered' \subseteq Sessions
    BY <1>1, <1>p, <1>t, Zenon
  <2> QED
    BY <1>0, <2>1, <2>2, Zenon DEF TypeOK
<1>3. CloseInv(s)'
  BY <1>0, <1>1, <1>i, Zenon DEF CloseInv
<1>a. ASSUME connected, s \notin overflowed'
      PROVE  /\ phase[s] \notin {"none", "refused", "open"}
             /\ phase[s] = "opening" =>
                  /\ Avoids(up, {Open(s)}, {Open(s), Close(s)})
                  /\ Range(up) \cap {Open(s), Close(s)} = {}
                  /\ Range(Down) \cap Acks(s) = {}
                  /\ m \in Range(Down') /\ Avoids(Down', Acks(s), Acks(s))
  <2>1. s \notin overflowed
    BY <1>a, <1>p, Zenon
  <2> QED
    BY <1>0, <1>a, <1>i, <1>p, <2>1, Zenon DEF AnswerInv
<1>4. AnswerInv(s)'
  <2> SUFFICES ASSUME connected, s \notin overflowed'
               PROVE  AnswerInv(s)'
    BY <1>0, Zenon DEF AnswerInv
  <2>1. phase[s] = "opening" => (Envelope("Refused", s) \in Range(Down') => s \notin registered')
    BY <1>1, <1>a, <1>e, <1>p, Zenon
  <2>2. phase[s] = "opening" => Range(Down') \cap Acks(s) # {}
    BY <1>a, Zenon
  <2> QED
    BY <1>0, <1>a, <1>t, <2>1, <2>2, Zenon DEF AnswerInv
<1>5. EndInv(s)'
  <2> SUFFICES ASSUME connected, s \notin overflowed', s \notin registered', phase[s] = "opening",
                      Envelope("Opened", s) \in Range(Down')
               PROVE  Error(s) \in Range(Down') \/ s \in told \/ Error(s) \in Range(inbox[s])
    BY <1>0, <1>a, <1>t, Zenon DEF EndInv
  <2>1. m = Envelope("Opened", s) /\ s \notin registered /\ s \notin overflowed
    BY <1>1, <1>a, <1>e, <1>p, Zenon
  <2> QED
    BY <1>0, <1>i, <1>p, <2>1, Zenon DEF EndInv
<1>6. EventInv(s)'
  BY <1>0, <1>p, <1>e, <1>i, <1>t, EventsKept, Zenon
<1>7. ActionInv(s)'
  BY <1>0, <1>i, Zenon DEF ActionInv
<1>8. ASSUME NEW t \in Sessions \ {s} PROVE Frame(t)
  <2>1. Same(up, up', t, UpEnvelopes) /\ Same(Down, Down', t, DownEnvelopes)
    BY <1>0, <1>e, <1>p DEF Same
  <2>2. (t \in registered' <=> t \in registered) /\ (serving' = t <=> serving = t)
    BY <1>0, <1>1, StreamAssumption, Zenon
  <2> QED
    BY <1>0, <1>p, <2>1, <2>2, Zenon DEF Frame
<1> QED
  BY <1>2, <1>3, <1>4, <1>5, <1>6, <1>7, <1>8, Zenon DEF SessionInv

\* An Action reaches the mailbox, behind all that reached it before, or is answered with an error.
LEMMA ServeActionStep ==
  ASSUME TypeOK, NEW s \in Sessions, SessionInv(s), ServeAction(s)
  PROVE  TypeOK' /\ SessionInv(s)' /\ \A t \in Sessions \ {s} : Frame(t)
<1>1. PICK m \in Range(up) :
        /\ m.kind = "Action" /\ m.session = s
        /\ Inbound(m)
        /\ \/ /\ s \in registered
              /\ actionsGot' = [actionsGot EXCEPT ![s] = m.n]
              /\ UNCHANGED <<out, overflowed>>
           \/ PutOut(Envelope("SessionError", s)) /\ UNCHANGED actionsGot
        /\ UNCHANGED <<connected, wire, caller, reading, serving, registered, terminating, ends,
                       eventsSent>>
  BY Zenon DEF ServeAction
<1>0. UNCHANGED <<connected, wire, noticed, phase, opens, inbox, told, unclosed, actionsSent, eventsGot,
                  reading, serving, registered, terminating, ends, eventsSent>>
  BY <1>1, Zenon DEF caller
<1>t. /\ QueueTypes /\ overflowed \subseteq Sessions
      /\ actionsGot \in [Sessions -> Nat] /\ actionsSent[s] \in Nat
  BY Zenon DEF TypeOK
<1>u. /\ up \in Seq(UpEnvelopes) /\ m \in UpEnvelopes /\ up # <<>> /\ m = Head(up) /\ up' = Tail(up)
      /\ up' \in Seq(UpEnvelopes) /\ Len(up') <= UpCapacity
      /\ Range(up) = {m} \cup Range(up')
  BY <1>1, <1>t, InboundFacts, Zenon DEF QueueTypes
<1>m. m \in ActionsOf(s) /\ m.n \in Nat /\ m # Open(s) /\ m # Close(s)
  <2>1. m \in ActionsOf(s)
    BY <1>1, <1>u, KindFacts, Zenon
  <2>2. m.n \in Nat
    BY <2>1, NumberFacts, Zenon
  <2> QED
    BY <2>1, <2>2, EnvelopeFacts
<1>e. /\ Error(s) \in DownEnvelopes /\ Error(s).session = s /\ Error(s).kind = "SessionError"
      /\ Error(s) \notin EventsOf(s) /\ Error(s) \notin Acks(s)
  BY ErrorFacts, Zenon
<1>d. /\ out' \in Seq(DownEnvelopes) /\ Len(out') <= OutCapacity
      /\ overflowed' = overflowed \/ overflowed' = overflowed \cup {s}
      /\ Down' = Down \/ Down' = Append(Down, Error(s))
      /\ actionsGot' = actionsGot \/ actionsGot' = [actionsGot EXCEPT ![s] = m.n]
  <2>1. CASE out' = out /\ overflowed' = overflowed /\ actionsGot' = [actionsGot EXCEPT ![s] = m.n]
    <3>1. Down' = Down
      BY <1>0, <2>1, Zenon DEF Down
    <3> QED
      BY <1>t, <2>1, <3>1, Zenon DEF QueueTypes
  <2>2. CASE PutOut(Error(s)) /\ actionsGot' = actionsGot
    BY <1>0, <1>e, <1>t, <2>2, PutOutFacts, Zenon
  <2> QED
    BY <1>1, <2>1, <2>2, Zenon DEF Error
<1>g. /\ actionsGot' \in [Sessions -> Nat] /\ actionsGot'[s] \in {actionsGot[s], m.n}
      /\ \A t \in Sessions \ {s} : actionsGot'[t] = actionsGot[t]
  BY <1>d, <1>m, <1>t, Zenon
<1>i. CloseInv(s) /\ AnswerInv(s) /\ EndInv(s) /\ EventInv(s) /\ ActionInv(s)
  BY DEF SessionInv
<1>k. /\ Range(Down) \subseteq Range(Down')
      /\ Range(Down') \cap Acks(s) = Range(Down) \cap Acks(s)
      /\ Envelope("Refused", s) \in Range(Down') <=> Envelope("Refused", s) \in Range(Down)
      /\ Envelope("Opened", s) \in Range(Down') <=> Envelope("Opened", s) \in Range(Down)
      /\ Avoids(Down, Acks(s), Acks(s)) => Avoids(Down', Acks(s), Acks(s))
  BY <1>d, <1>e, <1>t, AnswersKept, Zenon
<1>r. /\ Open(s) \in Range(up') <=> Open(s) \in Range(up)
      /\ Close(s) \in Range(up') <=> Close(s) \in Range(up)
  BY <1>m, <1>u, Zenon
<1>2. TypeOK'
  <2>1. QueueTypes'
    BY <1>0, <1>d, <1>t, <1>u, Zenon DEF QueueTypes
  <2>2. overflowed' \subseteq Sessions
    BY <1>d, <1>t, Zenon
  <2> QED
    BY <1>0, <1>g, <2>1, <2>2, Zenon DEF TypeOK
<1>3. CloseInv(s)'
  <2>1. Followed(up, Open(s), Close(s)) => Followed(up', Open(s), Close(s))
    BY <1>u, FollowedFacts, Zenon
  <2> QED
    BY <1>0, <1>i, <1>r, <2>1, Zenon DEF CloseInv
<1>4. AnswerInv(s)'
  <2>1. Avoids(up, {Open(s)}, {Open(s), Close(s)}) => Avoids(up', {Open(s)}, {Open(s), Close(s)})
    BY <1>u, AvoidsFacts
  <2>2. Range(up') \cap {Open(s), Close(s)} = Range(up) \cap {Open(s), Close(s)}
    BY <1>r, Zenon
  <2> QED
    BY <1>0, <1>d, <1>i, <1>k, <1>r, <2>1, <2>2, Zenon DEF AnswerInv
<1>5. EndInv(s)'
  BY <1>0, <1>d, <1>i, <1>k, Zenon DEF EndInv
<1>6. EventInv(s)'
  BY <1>0, <1>d, <1>e, <1>i, <1>t, EventsKept, Zenon
<1>7. ActionInv(s)'
  <2>0. /\ Rising(up, ActionsOf(s)) /\ actionsGot[s] <= actionsSent[s]
        /\ \A x \in Range(up) : x \in ActionsOf(s) => actionsGot[s] < x.n /\ x.n <= actionsSent[s]
    BY <1>i, Zenon DEF ActionInv
  <2>1. Rising(up', ActionsOf(s)) /\ \A x \in Range(up') : x \in ActionsOf(s) => m.n < x.n
    BY <1>m, <1>u, <2>0, RisingFacts, Zenon
  <2>2. \A x \in Range(up') : x \in ActionsOf(s) => actionsGot'[s] < x.n /\ x.n <= actionsSent[s]
    BY <1>g, <1>u, <2>0, <2>1, Zenon
  <2>3. actionsGot'[s] <= actionsSent[s]
    BY <1>g, <1>m, <1>u, <2>0, Zenon
  <2> QED
    BY <1>0, <2>1, <2>2, <2>3, Zenon DEF ActionInv
<1>8. ASSUME NEW t \in Sessions \ {s} PROVE Frame(t)
  <2>1. Same(up, up', t, UpEnvelopes) /\ Same(Down, Down', t, DownEnvelopes)
    BY <1>1, <1>d, <1>e, <1>u, Zenon DEF Same
  <2> QED
    BY <1>0, <1>d, <1>g, <2>1, Zenon DEF Frame
<1> QED
  BY <1>2, <1>3, <1>4, <1>5, <1>6, <1>7, <1>8 DEF SessionInv

\* A SessionClose is taken: no caller has the Session open, and the open a caller waits
\* for, if any, is still on its way.
LEMMA ServeCloseStep ==
  ASSUME TypeOK, NEW s \in Sessions, SessionInv(s), ServeClose(s)
  PROVE  TypeOK' /\ SessionInv(s)' /\ \A t \in Sessions \ {s} : Frame(t)
<1>0. /\ Inbound(Close(s)) /\ registered' = registered \ {s}
      /\ UNCHANGED <<connected, out, overflowed, wire, noticed, phase, opens, inbox, told, unclosed,
                     actionsSent, eventsGot, reading, serving, terminating, ends, actionsGot, eventsSent>>
  BY Zenon DEF ServeClose, Close, caller
<1>t. QueueTypes /\ registered \subseteq Sessions
  BY Zenon DEF TypeOK
<1>u. /\ up \in Seq(UpEnvelopes) /\ up # <<>> /\ Close(s) = Head(up) /\ up' = Tail(up)
      /\ up' \in Seq(UpEnvelopes) /\ Len(up') <= UpCapacity
      /\ Range(up) = {Close(s)} \cup Range(up')
      /\ serving = None /\ serving # s
  BY <1>0, <1>t, InboundFacts, StreamAssumption, Zenon DEF QueueTypes
<1>d. Down' = Down
  BY <1>0, Zenon DEF Down
<1>e. Open(s) # Close(s) /\ Close(s).session = s
  BY EnvelopeFacts, Zenon
<1>i. CloseInv(s) /\ AnswerInv(s) /\ EndInv(s) /\ EventInv(s) /\ ActionInv(s)
  BY DEF SessionInv
<1>a. ASSUME connected, s \notin overflowed
      PROVE  /\ phase[s] # "open"
             /\ phase[s] = "opening" => /\ Avoids(up, {Open(s)}, {Open(s), Close(s)})
                                        /\ Avoids(Down, Acks(s), Acks(s))
                                        /\ Open(s) \in Range(up) /\ Range(Down) \cap Acks(s) = {}
  BY <1>a, <1>i, <1>u, Zenon DEF AnswerInv
<1>1. TypeOK'
  <2>1. QueueTypes'
    BY <1>0, <1>t, <1>u, Zenon DEF QueueTypes
  <2> QED
    BY <1>0, <1>t, <2>1, Zenon DEF TypeOK
<1>2. CloseInv(s)'
  <2>1. Followed(up, Open(s), Close(s)) => Followed(up', Open(s), Close(s))
    BY <1>u, FollowedFacts, Zenon
  <2> QED
    BY <1>0, <1>i, <2>1, Zenon DEF CloseInv
<1>3. AnswerInv(s)'
  <2>1. Avoids(up, {Open(s)}, {Open(s), Close(s)}) => Avoids(up', {Open(s)}, {Open(s), Close(s)})
    BY <1>u, AvoidsFacts, Zenon
  <2>2. Open(s) \in Range(up') <=> Open(s) \in Range(up)
    BY <1>e, <1>u, Zenon
  <2>3. ASSUME connected, s \notin overflowed, phase[s] \in {"none", "refused"}
        PROVE  Open(s) \notin Range(up) /\ Range(Down) \cap Acks(s) = {}
    BY <1>i, <2>3, Zenon DEF AnswerInv
  <2> QED
    BY <1>0, <1>a, <1>d, <1>u, <2>1, <2>2, <2>3, Zenon DEF AnswerInv
<1>4. EndInv(s)'
  BY <1>0, <1>a, <1>d, <1>u, Zenon DEF EndInv, Acks
<1>5. EventInv(s)'
  BY <1>0, <1>d, <1>i, Zenon DEF EventInv
<1>6. ActionInv(s)'
  BY <1>0, <1>i, <1>t, <1>u, ActionsKept, Zenon
<1>7. ASSUME NEW t \in Sessions \ {s} PROVE Frame(t)
  <2>1. Same(up, up', t, UpEnvelopes) /\ Same(Down, Down', t, DownEnvelopes)
    BY <1>d, <1>e, <1>u, Zenon DEF Same
  <2> QED
    BY <1>0, <2>1, Zenon DEF Frame
<1> QED
  BY <1>1, <1>2, <1>3, <1>4, <1>5, <1>6, <1>7 DEF SessionInv

\* The Actor sends an Event, which goes behind those on their way or is lost.
LEMMA ActorSendsStep ==
  ASSUME TypeOK, NEW s \in Sessions, SessionInv(s), ActorSends(s)
  PROVE  TypeOK' /\ SessionInv(s)' /\ \A t \in Sessions \ {s} : Frame(t)
<1> DEFINE n == eventsSent[s] + 1
           m == Numbered("Event", s, n)
<1>0. /\ s \in registered /\ PutOut(m)
      /\ eventsSent' = [eventsSent EXCEPT ![s] = n]
      /\ UNCHANGED <<connected, up, wire, noticed, phase, opens, inbox, told, unclosed, actionsSent,
                     eventsGot, reading, serving, registered, terminating, ends, actionsGot>>
  BY Zenon DEF ActorSends, caller
<1>t. /\ QueueTypes /\ eventsSent \in [Sessions -> Nat] /\ eventsSent[s] \in Nat
      /\ eventsGot[s] \in Nat
  BY Zenon DEF TypeOK
<1>m. /\ m \in DownEnvelopes /\ m \in EventsOf(s) /\ m.n = n /\ m.session = s
      /\ m.kind = "Event" /\ m \notin Acks(s)
  BY <1>t DEF Numbered, DownEnvelopes, EventsOf, Acks, Envelope
<1>n. /\ eventsSent'[s] = n /\ eventsSent[s] < n /\ n \in Nat
      /\ \A t \in Sessions \ {s} : eventsSent'[t] = eventsSent[t]
  BY <1>0, <1>t
<1> HIDE DEF m, n
<1>d. /\ out' \in Seq(DownEnvelopes) /\ Len(out') <= OutCapacity /\ overflowed' = overflowed
      /\ Down' = Down \/ Down' = Append(Down, m)
      /\ Down \in Seq(DownEnvelopes) /\ Range(Append(Down, m)) = Range(Down) \cup {m}
  BY <1>0, <1>m, <1>t, PutOutFacts, DownFacts, AppendRange
<1>i. CloseInv(s) /\ AnswerInv(s) /\ EndInv(s) /\ EventInv(s) /\ ActionInv(s)
  BY DEF SessionInv
<1>k. /\ Range(Down') \cap Acks(s) = Range(Down) \cap Acks(s)
      /\ Envelope("Refused", s) \in Range(Down') <=> Envelope("Refused", s) \in Range(Down)
      /\ Avoids(Down, Acks(s), Acks(s)) => Avoids(Down', Acks(s), Acks(s))
  BY <1>d, <1>m, <1>t, AnswersKept, Zenon
<1>1. TypeOK'
  <2>1. QueueTypes'
    BY <1>0, <1>d, <1>t, Zenon DEF QueueTypes
  <2>2. eventsSent' \in [Sessions -> Nat]
    BY <1>0, <1>t, <1>n, Zenon
  <2> QED
    BY <1>0, <1>d, <2>1, <2>2, Zenon DEF TypeOK
<1>2. CloseInv(s)'
  BY <1>0, <1>i, Zenon DEF CloseInv
<1>3. AnswerInv(s)'
  BY <1>0, <1>d, <1>i, <1>k, Zenon DEF AnswerInv
<1>4. EndInv(s)'
  BY <1>0, Zenon DEF EndInv
<1>5. EventInv(s)'
  <2>0. /\ eventsGot[s] <= eventsSent[s]
        /\ \A x \in Range(inbox[s]) : x.session = s
        /\ \A x \in Range(inbox[s]) \cup Range(Down) :
             x \in EventsOf(s) => eventsGot[s] < x.n /\ x.n <= eventsSent[s]
        /\ Rising(inbox[s], EventsOf(s)) /\ Rising(Down, EventsOf(s))
        /\ \A x \in Range(inbox[s]), d \in Range(Down) :
             x \in EventsOf(s) /\ d \in EventsOf(s) => x.n < d.n
    BY <1>i, Zenon DEF EventInv
  <2>1. /\ eventsGot[s] < n /\ eventsGot[s] <= n
        /\ \A x \in Range(inbox[s]) \cup Range(Down) : x \in EventsOf(s) => x.n < n /\ x.n <= n
    <3>1. eventsGot[s] < n /\ eventsGot[s] <= n
      BY <1>t, <1>n, <2>0
    <3>2. \A x \in EventsOf(s) : x.n \in Nat
      BY NumberFacts, Zenon
    <3>3. \A x \in Range(inbox[s]) \cup Range(Down) : x \in EventsOf(s) => x.n <= eventsSent[s]
      BY <2>0, Zenon
    <3>4. \A x \in Range(inbox[s]) \cup Range(Down) : x \in EventsOf(s) => x.n < n /\ x.n <= n
      BY <1>t, <3>2, <3>3, NextNumber, Zenon DEF n
    <3> QED
      BY <3>1, <3>4, Zenon
  <2>2. Rising(Append(Down, m), EventsOf(s))
    BY <1>d, <1>m, <2>0, <2>1, RisingFacts
  <2>3. Rising(Down', EventsOf(s)) /\ Range(Down') \subseteq Range(Down) \cup {m}
    BY <1>d, <2>0, <2>2, Zenon
  <2>4. \A x \in Range(inbox[s]) \cup Range(Down') :
          x \in EventsOf(s) => eventsGot[s] < x.n /\ x.n <= n
    <3>1. \A x \in Range(inbox[s]) \cup Range(Down) :
            x \in EventsOf(s) => eventsGot[s] < x.n /\ x.n <= n
      BY <2>0, <2>1, Zenon
    <3>2. eventsGot[s] < m.n /\ m.n <= n
      BY <1>m, <1>n, <2>1
    <3> QED
      BY <2>3, <3>1, <3>2, Zenon
  <2>5. \A x \in Range(inbox[s]), d \in Range(Down') :
          x \in EventsOf(s) /\ d \in EventsOf(s) => x.n < d.n
    BY <1>m, <2>0, <2>1, <2>3, Zenon
  <2> QED
    BY <1>0, <1>n, <2>0, <2>1, <2>3, <2>4, <2>5, Zenon DEF EventInv
<1>6. ActionInv(s)'
  BY <1>0, <1>i, Zenon DEF ActionInv
<1>7. ASSUME NEW t \in Sessions \ {s} PROVE Frame(t)
  <2>1. Same(up, up', t, UpEnvelopes) /\ Same(Down, Down', t, DownEnvelopes)
    BY <1>0, <1>d, <1>m, Zenon DEF Same
  <2> QED
    BY <1>0, <1>d, <1>n, <2>1, Zenon DEF Frame
<1> QED
  BY <1>1, <1>2, <1>3, <1>4, <1>5, <1>6, <1>7 DEF SessionInv

\* A Session is terminated: its error is on the way before it is gone, or did not fit.
LEMMA TerminateStep ==
  ASSUME TypeOK, NEW s \in Sessions, SessionInv(s), Terminate(s)
  PROVE  TypeOK' /\ SessionInv(s)' /\ \A t \in Sessions \ {s} : Frame(t)
<1>0. /\ terminating' = terminating \ {s} /\ registered' = registered \ {s}
      /\ IF s \in registered THEN PutOut(Error(s)) ELSE out' = out /\ overflowed' = overflowed
      /\ UNCHANGED <<connected, up, wire, noticed, phase, opens, inbox, told, unclosed, actionsSent,
                     eventsGot, reading, serving, ends, actionsGot, eventsSent>>
  BY Zenon DEF Terminate, Error, caller
<1>t. /\ QueueTypes /\ registered \subseteq Sessions /\ overflowed \subseteq Sessions
      /\ terminating \subseteq Sessions
  BY Zenon DEF TypeOK
<1>e. /\ Error(s) \in DownEnvelopes /\ Error(s).session = s /\ Error(s).kind = "SessionError"
      /\ Error(s) \notin EventsOf(s) /\ Error(s) \notin Acks(s)
  BY EnvelopeFacts, Zenon
<1>d. /\ out' \in Seq(DownEnvelopes) /\ Len(out') <= OutCapacity
      /\ overflowed' = overflowed \/ overflowed' = overflowed \cup {s}
      /\ Down' = Down \/ Down' = Append(Down, Error(s))
      /\ s \in registered => s \in overflowed' \/ Down' = Append(Down, Error(s))
  <2>1. CASE s \in registered
    BY <1>0, <1>e, <1>t, <2>1, PutOutFacts, Zenon
  <2>2. CASE s \notin registered
    <3>1. Down' = Down
      BY <1>0, <2>2, Zenon DEF Down
    <3> QED
      BY <1>0, <1>t, <2>2, <3>1, Zenon DEF QueueTypes
  <2> QED
    BY <2>1, <2>2, Zenon
<1>i. CloseInv(s) /\ AnswerInv(s) /\ EndInv(s) /\ EventInv(s) /\ ActionInv(s)
  BY DEF SessionInv
<1>k. /\ Range(Down) \subseteq Range(Down')
      /\ Range(Down') \cap Acks(s) = Range(Down) \cap Acks(s)
      /\ Envelope("Refused", s) \in Range(Down') <=> Envelope("Refused", s) \in Range(Down)
      /\ Envelope("Opened", s) \in Range(Down') <=> Envelope("Opened", s) \in Range(Down)
      /\ Avoids(Down, Acks(s), Acks(s)) => Avoids(Down', Acks(s), Acks(s))
  BY <1>d, <1>e, <1>t, AnswersKept, Zenon
<1>1. TypeOK'
  <2>1. QueueTypes'
    BY <1>0, <1>d, <1>t, Zenon DEF QueueTypes
  <2>2. overflowed' \subseteq Sessions /\ registered' \subseteq Sessions /\ terminating' \subseteq Sessions
    BY <1>0, <1>d, <1>t, Zenon
  <2> QED
    BY <1>0, <2>1, <2>2, Zenon DEF TypeOK
<1>2. CloseInv(s)'
  BY <1>0, <1>i, Zenon DEF CloseInv
<1>3. AnswerInv(s)'
  BY <1>0, <1>d, <1>i, <1>k, Zenon DEF AnswerInv
<1>4. EndInv(s)'
  <2>1. CASE s \in registered
    <3>1. Down \in Seq(DownEnvelopes)
      BY <1>t, DownFacts, Zenon
    <3>2. Error(s) \in Range(Append(Down, Error(s)))
      BY <1>e, <3>1, AppendRange
    <3>3. s \in overflowed' \/ Error(s) \in Range(Down')
      BY <1>d, <2>1, <3>2, Zenon
    <3> QED
      BY <3>3, Zenon DEF EndInv
  <2>2. CASE s \notin registered
    BY <1>0, <1>d, <1>i, <1>k, <2>2, Zenon DEF EndInv
  <2> QED
    BY <2>1, <2>2, Zenon
<1>5. EventInv(s)'
  BY <1>0, <1>d, <1>e, <1>i, <1>t, EventsKept, Zenon
<1>6. ActionInv(s)'
  BY <1>0, <1>i, Zenon DEF ActionInv
<1>7. ASSUME NEW t \in Sessions \ {s} PROVE Frame(t)
  <2>1. Same(up, up', t, UpEnvelopes) /\ Same(Down, Down', t, DownEnvelopes)
    BY <1>0, <1>d, <1>e, Zenon DEF Same
  <2> QED
    BY <1>0, <1>d, <2>1, Zenon DEF Frame
<1> QED
  BY <1>1, <1>2, <1>3, <1>4, <1>5, <1>6, <1>7 DEF SessionInv

-----------------------------------------------------------------------------
(* The steps that concern all Sessions.                                    *)

\* The transport moves what is on its way, the Actor ends, the connection is lost: no Session sees it.
LEMMA QuietStep ==
  ASSUME TypeOK, Flush \/ ActorEnds \/ ConnectionLost
  PROVE  TypeOK' /\ \A t \in Sessions : Frame(t)
<1>0. UNCHANGED <<up, overflowed, noticed, phase, opens, inbox, told, unclosed, actionsSent, eventsGot,
                  reading, serving, registered, actionsGot, eventsSent>>
  BY Zenon DEF Flush, ActorEnds, ConnectionLost, queues, caller, server
<1>c. connected' = connected \/ connected' = FALSE
  BY Zenon DEF Flush, ActorEnds, ConnectionLost
<1>1. /\ connected' => connected
      /\ terminating' = terminating \/ terminating' = registered
  BY <1>c DEF Flush, ActorEnds, ConnectionLost, server
<1>t. QueueTypes
  BY Zenon DEF TypeOK
<1>2. /\ out' \in Seq(DownEnvelopes) /\ Len(out') <= OutCapacity
      /\ wire' \in Seq(DownEnvelopes) /\ Down' = Down
  <2>1. CASE Flush
    <3>0. out # <<>> /\ out' = Tail(out) /\ wire' = Append(wire, Head(out))
      BY <2>1, Zenon DEF Flush
    <3>1. /\ out \in Seq(DownEnvelopes) /\ wire \in Seq(DownEnvelopes) /\ Len(out) <= OutCapacity
          /\ OutCapacity \in Nat
      BY <1>t, StreamAssumption, Zenon DEF QueueTypes
    <3>2. Tail(out) \in Seq(DownEnvelopes) /\ Len(Tail(out)) = Len(out) - 1 /\ Len(out) \in Nat
      BY <3>0, <3>1, HeadTailProperties, LenProperties, Zenon
    <3>3. Append(wire, Head(out)) \in Seq(DownEnvelopes)
      BY <3>0, <3>1, TailRange, AppendRange, Zenon
    <3>4. Down' = Down
      BY <1>t, <3>0, DownFacts, Zenon DEF Down
    <3>5. Len(Tail(out)) <= OutCapacity
      BY <3>1, <3>2
    <3> QED
      BY <3>0, <3>2, <3>3, <3>4, <3>5, Zenon
  <2>2. CASE ActorEnds \/ ConnectionLost
    <3>1. out' = out /\ wire' = wire
      BY <2>2, Zenon DEF ActorEnds, ConnectionLost, queues
    <3> QED
      BY <1>t, <3>1, Zenon DEF QueueTypes, Down
  <2> QED
    BY <2>1, <2>2, Zenon
<1>3. TypeOK'
  <2>1. QueueTypes'
    BY <1>0, <1>2, <1>t, Zenon DEF QueueTypes
  <2>2. terminating' \subseteq Sessions
    BY <1>1, Zenon DEF TypeOK
  <2>3. connected' \in BOOLEAN
    BY <1>c, Zenon DEF TypeOK
  <2> QED
    BY <1>0, <2>1, <2>2, <2>3, Zenon DEF TypeOK
<1>4. \A t \in Sessions : Frame(t)
  BY <1>0, <1>1, <1>2, Zenon DEF Frame, Same
<1> QED
  BY <1>3, <1>4, Zenon

\* One side notices that the connection is lost: its Sessions end, and what is in their
\* receivers stays in order.
LEMMA LossStep ==
  ASSUME TypeOK, \A s \in Sessions : SessionInv(s), ClientNoticesLoss \/ ServerNoticesLoss
  PROVE  TypeOK' /\ \A s \in Sessions : SessionInv(s)'
<1>0. /\ ~connected'
      /\ UNCHANGED <<connected, up, out, wire, overflowed, opens, told, unclosed, actionsSent, eventsGot,
                     serving, terminating, actionsGot, eventsSent>>
      /\ registered' = registered \/ registered' = {}
  BY DEF ClientNoticesLoss, ServerNoticesLoss, queues, caller, server
<1>b. connected' \in BOOLEAN /\ noticed' \in BOOLEAN /\ reading' \in BOOLEAN
  <2>1. CASE ClientNoticesLoss
    <3>1. noticed' = TRUE /\ reading' = reading /\ connected' = connected
      BY <2>1, Zenon DEF ClientNoticesLoss, server
    <3> QED
      BY <3>1, Zenon DEF TypeOK
  <2>2. CASE ServerNoticesLoss
    <3>1. reading' = FALSE /\ noticed' = noticed /\ connected' = connected
      BY <2>2, Zenon DEF ServerNoticesLoss, caller
    <3> QED
      BY <3>1, Zenon DEF TypeOK
  <2> QED
    BY <2>1, <2>2, Zenon
<1>t. QueueTypes /\ phase \in [Sessions -> Phases]
  BY Zenon DEF TypeOK
<1>q. /\ inbox \in [Sessions -> Seq(DownEnvelopes)]
      /\ \A s \in Sessions : Len(inbox[s]) <= InboxCapacity
      /\ InboxCapacity \in Nat
  BY <1>t, StreamAssumption, Zenon DEF QueueTypes
<1>d. Down' = Down
  BY <1>0, Zenon DEF Down
<1>1. /\ phase' \in [Sessions -> Phases] /\ inbox' \in [Sessions -> Seq(DownEnvelopes)]
      /\ \A s \in Sessions : \/ inbox'[s] = inbox[s] \/ inbox'[s] = <<>>
                             \/ /\ inbox'[s] = Append(inbox[s], Error(s))
                                /\ Len(inbox[s]) < InboxCapacity
  <2>1. CASE ClientNoticesLoss
    <3>0. /\ phase' = [s \in Sessions |-> IF phase[s] = "opening" THEN "failed" ELSE phase[s]]
          /\ inbox' = [s \in Sessions |->
                         CASE phase[s] = "opening" -> <<>>
                           [] phase[s] = "open" /\ Len(inbox[s]) < InboxCapacity ->
                                Append(inbox[s], Error(s))
                           [] OTHER -> inbox[s]]
      BY <2>1, Zenon DEF ClientNoticesLoss, Error
    <3>1. phase' \in [Sessions -> Phases]
      BY <1>t, <3>0, Zenon DEF Phases
    <3>2. ASSUME NEW s \in Sessions
          PROVE  \/ inbox'[s] = inbox[s] \/ inbox'[s] = <<>>
                 \/ inbox'[s] = Append(inbox[s], Error(s)) /\ Len(inbox[s]) < InboxCapacity
      BY <3>0, Zenon
    <3>3. ASSUME NEW s \in Sessions PROVE inbox'[s] \in Seq(DownEnvelopes)
      <4>1. inbox[s] \in Seq(DownEnvelopes) /\ Append(inbox[s], Error(s)) \in Seq(DownEnvelopes)
        BY <1>q, EnvelopeFacts, AppendRange, Zenon
      <4> QED
        BY <3>2, <4>1, EmptyQueue, Zenon
    <3>4. inbox' \in [Sessions -> Seq(DownEnvelopes)]
      BY <3>0, <3>3, Zenon
    <3> QED
      BY <3>1, <3>2, <3>4, Zenon
  <2>2. CASE ServerNoticesLoss
    <3>1. phase' = phase /\ inbox' = inbox
      BY <2>2, Zenon DEF ServerNoticesLoss, caller
    <3> QED
      BY <1>t, <1>q, <3>1, Zenon
  <2> QED
    BY <2>1, <2>2, Zenon
<1>2. TypeOK'
  <2>1. ASSUME NEW s \in Sessions PROVE Len(inbox'[s]) <= InboxCapacity
    <3>1. /\ inbox[s] \in Seq(DownEnvelopes) /\ Len(inbox[s]) \in Nat
          /\ Len(Append(inbox[s], Error(s))) = Len(inbox[s]) + 1
      <4>1. inbox[s] \in Seq(DownEnvelopes) /\ Error(s) \in DownEnvelopes
        BY <1>q, ErrorFacts, Zenon
      <4> QED
        BY <4>1, AppendProperties, LenProperties
    <3>2. Len(<<>>) = 0
      OBVIOUS
    <3> QED
      BY <1>1, <1>q, <3>1, <3>2
  <2>2. QueueTypes'
    BY <1>0, <1>1, <1>t, <2>1, Zenon DEF QueueTypes
  <2>3. registered' \subseteq Sessions
    BY <1>0, Zenon DEF TypeOK
  <2> QED
    BY <1>0, <1>b, <1>1, <2>2, <2>3, Zenon DEF TypeOK
<1>3. ASSUME NEW s \in Sessions PROVE SessionInv(s)'
  <2>i. EventInv(s) /\ ActionInv(s)
    BY Zenon DEF SessionInv
  <2>1. CloseInv(s)' /\ AnswerInv(s)' /\ EndInv(s)'
    BY <1>0, Zenon DEF CloseInv, AnswerInv, EndInv
  <2>2. ActionInv(s)'
    BY <1>0, <2>i, Zenon DEF ActionInv
  <2>3. EventInv(s)'
    <3>1. CASE inbox'[s] = inbox[s] \/ inbox'[s] = <<>>
      BY <1>0, <1>d, <1>t, <2>i, <3>1, EventsKept
    <3>2. CASE inbox'[s] = Append(inbox[s], Error(s))
      <4>1. inbox[s] \in Seq(DownEnvelopes) /\ Rising(inbox[s], EventsOf(s))
        BY <1>q, <2>i, Zenon DEF EventInv
      <4>2. Error(s) \in DownEnvelopes /\ Error(s) \notin EventsOf(s) /\ Error(s).session = s
        BY ErrorFacts, Zenon
      <4>3. Range(inbox'[s]) = Range(inbox[s]) \cup {Error(s)}
        BY <3>2, <4>1, <4>2, AppendRange
      <4>4. Rising(inbox'[s], EventsOf(s))
        BY <3>2, <4>1, <4>2, OrderKept, Zenon
      <4> QED
        BY <1>0, <1>d, <2>i, <4>2, <4>3, <4>4, Zenon DEF EventInv
    <3> QED
      BY <1>1, <3>1, <3>2, Zenon
  <2> QED
    BY <2>1, <2>2, <2>3, Zenon DEF SessionInv
<1> QED
  BY <1>2, <1>3, Zenon

-----------------------------------------------------------------------------
(* The invariant, and what follows from it.                                *)

\* A new connection has nothing on its way.
LEMMA InitStream == Init => StreamInv
<1> SUFFICES ASSUME Init PROVE StreamInv
  OBVIOUS
<1>0. /\ connected = TRUE /\ up = <<>> /\ out = <<>> /\ wire = <<>> /\ overflowed = {}
      /\ noticed = FALSE /\ reading = TRUE /\ serving = None
      /\ phase = [s \in Sessions |-> "none"] /\ inbox = [s \in Sessions |-> <<>>]
      /\ told = {} /\ unclosed = {} /\ registered = {} /\ terminating = {}
      /\ \A f \in {opens, actionsSent, actionsGot, eventsSent, eventsGot} : f = [s \in Sessions |-> 0]
  BY Zenon DEF Init
<1>1. Down = <<>>
  BY <1>0 DEF Down
<1>2. TypeOK
  <2>1. Len(<<>>) = 0 /\ {UpCapacity, OutCapacity, InboxCapacity} \subseteq Nat
    BY StreamAssumption, Zenon
  <2>2. QueueTypes
    BY <1>0, <2>1, EmptyQueue DEF QueueTypes
  <2>3. {opens, actionsSent, actionsGot, eventsSent, eventsGot} \subseteq [Sessions -> Nat]
    BY <1>0
  <2>4. connected \in BOOLEAN /\ noticed \in BOOLEAN /\ reading \in BOOLEAN
    BY <1>0, Zenon
  <2>5. phase \in [Sessions -> Phases]
    BY <1>0, Zenon DEF Phases
  <2> QED
    BY <1>0, <2>2, <2>3, <2>4, <2>5, Zenon DEF TypeOK
<1>3. ASSUME NEW s \in Sessions PROVE SessionInv(s)
  <2>0. /\ phase[s] = "none" /\ inbox[s] = <<>> /\ actionsSent[s] = 0 /\ actionsGot[s] = 0
        /\ eventsSent[s] = 0 /\ eventsGot[s] = 0
    BY <1>0, Zenon
  <2>1. CloseInv(s) /\ EndInv(s)
    BY <2>0, Zenon DEF CloseInv, EndInv
  <2>2. AnswerInv(s)
    BY <1>0, <1>1, <2>0, EmptyQueue, StreamAssumption, Zenon DEF AnswerInv
  <2>3. /\ Range(inbox[s]) = {} /\ Range(Down) = {} /\ Range(up) = {}
        /\ Rising(inbox[s], EventsOf(s)) /\ Rising(Down, EventsOf(s)) /\ Rising(up, ActionsOf(s))
    BY <1>0, <1>1, <2>0, EmptyQueue, Zenon
  <2>4. eventsGot[s] <= eventsSent[s] /\ actionsGot[s] <= actionsSent[s]
    BY <2>0
  <2>5. EventInv(s)
    BY <2>3, <2>4, Zenon DEF EventInv
  <2>6. ActionInv(s)
    BY <2>3, <2>4, Zenon DEF ActionInv
  <2> QED
    BY <2>1, <2>2, <2>5, <2>6, Zenon DEF SessionInv
<1> QED
  BY <1>2, <1>3, Zenon DEF StreamInv

\* What a step of Session s keeps, all Sessions keep.
LEMMA OneSession ==
  ASSUME StreamInv, NEW s \in Sessions,
         TypeOK', SessionInv(s)', \A t \in Sessions \ {s} : Frame(t)
  PROVE  StreamInv'
<1>1. ASSUME NEW t \in Sessions PROVE SessionInv(t)'
  <2>1. CASE t = s
    BY <2>1, Zenon
  <2>2. CASE t # s
    BY <2>2, FrameKeeps, Zenon DEF StreamInv
  <2> QED
    BY <2>1, <2>2, Zenon
<1> QED
  BY <1>1, Zenon DEF StreamInv

\* Every step keeps the invariant.
LEMMA StreamInvStep == StreamInv /\ [Next]_vars => StreamInv'
<1> SUFFICES ASSUME StreamInv, [Next]_vars PROVE StreamInv'
  OBVIOUS
<1>t. TypeOK /\ \A s \in Sessions : SessionInv(s)
  BY Zenon DEF StreamInv
<1>1. CASE Flush \/ ActorEnds \/ ConnectionLost
  BY <1>1, <1>t, QuietStep, FrameKeeps, Zenon DEF StreamInv
<1>2. CASE ClientNoticesLoss \/ ServerNoticesLoss
  BY <1>2, <1>t, LossStep, Zenon DEF StreamInv
<1>3. ASSUME NEW s \in Sessions,
             SendOpen(s) \/ OpenTimesOut(s) \/ DropSession(s) \/ SendAction(s) \/ Recv(s)
      PROVE  StreamInv'
  BY <1>3, <1>t, SendOpenStep, GiveUpStep, SendActionStep, RecvStep, OneSession, Zenon
<1>4. ASSUME NEW s \in Sessions, Receive(s)
      PROVE  StreamInv'
  BY <1>4, <1>t, ReceiveForSessionStep, ReceiveAckStep, OneSession DEF Receive
<1>5. ASSUME NEW s \in Sessions, Serve(s) \/ ActorSends(s) \/ Terminate(s)
      PROVE  StreamInv'
  BY <1>5, <1>t, ServeOpenStep, OpenServedStep, ServeActionStep, ServeCloseStep, ActorSendsStep,
     TerminateStep, OneSession, Zenon DEF Serve
<1>6. CASE UNCHANGED vars
  <2>1. UNCHANGED <<connected, up, out, wire, overflowed, noticed, phase, opens, inbox, told, unclosed,
                    actionsSent, eventsGot, reading, serving, registered, terminating, ends, actionsGot,
                    eventsSent>>
    BY <1>6, Zenon DEF vars, queues, caller, server
  <2>2. Down' = Down
    BY <2>1, Zenon DEF Down
  <2>3. TypeOK'
    BY <1>t, <2>1, Zenon DEF TypeOK, QueueTypes
  <2>4. \A t \in Sessions : Frame(t)
    BY <2>1, <2>2, Zenon DEF Frame, Same
  <2> QED
    BY <1>t, <2>3, <2>4, FrameKeeps, Zenon DEF StreamInv
<1> QED
  BY <1>1, <1>2, <1>3, <1>4, <1>5, <1>6, Zenon DEF Next

\* The invariant of the traffic of one connection: where the open, the answer, the close
\* and the error of a Session are, and the order of its Actions and Events.
THEOREM StreamInvariance == Spec => []StreamInv
  BY InitStream, StreamInvStep, PTL DEF Spec

\* A Session its caller has given up stays registered only while its SessionClose is on
\* its way, or because it did not fit (Client::open, Session::drop, dispatch_inbound).
THEOREM SpecGivenUpIsClosed == Spec => []GivenUpIsClosed
<1>1. ASSUME StreamInv PROVE GivenUpIsClosed
  <2>1. ASSUME NEW s \in registered, phase[s] \in {"refused", "failed", "dropped"}, connected,
               s \notin unclosed
        PROVE  Close(s) \in Range(up)
    <3>1. CloseInv(s)
      BY <1>1, Zenon DEF StreamInv, SessionInv, TypeOK
    <3> QED
      BY <2>1, <3>1, Zenon DEF CloseInv
  <2> QED
    BY <2>1, Zenon DEF GivenUpIsClosed, Close
<1> QED
  BY <1>1, StreamInvariance, PTL

\* A Session the Server has opened and its caller waits for has its answer on the way,
\* unless it did not fit (dispatch_inbound).
THEOREM SpecOpenedIsAnswered == Spec => []OpenedIsAnswered
<1>1. ASSUME StreamInv PROVE OpenedIsAnswered
  <2>1. ASSUME NEW s \in registered, s # serving, s \notin overflowed, phase[s] = "opening", connected
        PROVE  OnTheWay("Opened", s)
    <3>1. AnswerInv(s) /\ QueueTypes
      BY <1>1, Zenon DEF StreamInv, SessionInv, TypeOK
    <3>2. Range(Down) \cap Acks(s) # {} /\ Envelope("Refused", s) \notin Range(Down)
      BY <2>1, <3>1, Zenon DEF AnswerInv
    <3>3. Envelope("Opened", s) \in Range(Down)
      BY <3>2, Zenon DEF Acks
    <3> QED
      BY <3>1, <3>3, DownFacts, Zenon DEF OnTheWay
  <2> QED
    BY <2>1, Zenon DEF OpenedIsAnswered
<1> QED
  BY <1>1, StreamInvariance, PTL

\* The caller of an open Session that ended at the Server has received an error, or will,
\* unless it did not fit (SessionRegistry::terminate, handle_envelope).
THEOREM SpecEndIsTold == Spec => []EndIsTold
<1>1. ASSUME StreamInv PROVE EndIsTold
  <2>1. ASSUME NEW s \in Sessions, s \notin registered, s \notin overflowed, phase[s] = "open", connected
        PROVE  s \in told \/ OnTheWay("SessionError", s) \/ Envelope("SessionError", s) \in Range(inbox[s])
    <3>1. EndInv(s) /\ QueueTypes
      BY <1>1, Zenon DEF StreamInv, SessionInv, TypeOK
    <3>2. s \in told \/ Error(s) \in Range(Down) \/ Error(s) \in Range(inbox[s])
      BY <2>1, <3>1, Zenon DEF EndInv
    <3> QED
      BY <3>1, <3>2, DownFacts, Zenon DEF OnTheWay, Error
  <2> QED
    BY <2>1, Zenon DEF EndIsTold
<1> QED
  BY <1>1, StreamInvariance, PTL

-----------------------------------------------------------------------------
(* The traffic of a Session implements LossyFifo, in both directions.      *)

\* Nothing is sent or received at first.
LEMMA InitTraffic == Init => Events!Init /\ Actions!Init
  BY Zenon DEF Init, Events!Init, Actions!Init

\* Every step sends or receives one Event, or leaves the Events alone.
LEMMA EventsStep ==
  ASSUME StreamInv, [Next]_vars
  PROVE  [\E c \in Sessions : Events!Send(c) \/ Events!Receive(c)]_<<eventsSent, eventsGot>>
<1>1. CASE Flush \/ ActorEnds \/ ConnectionLost \/ ClientNoticesLoss \/ ServerNoticesLoss
  BY <1>1, Zenon DEF Flush, ActorEnds, ConnectionLost, ClientNoticesLoss, ServerNoticesLoss, caller, server
<1>2. ASSUME NEW s \in Sessions,
             SendOpen(s) \/ OpenTimesOut(s) \/ DropSession(s) \/ SendAction(s) \/ Receive(s) \/ Serve(s)
               \/ Terminate(s)
      PROVE  eventsSent' = eventsSent /\ eventsGot' = eventsGot
  BY <1>2, Zenon DEF SendOpen, OpenTimesOut, DropSession, SendAction, Receive, ReceiveForSession, ReceiveAck,
     Serve, ServeOpen, OpenServed, ServeAction, ServeClose, Terminate, caller, server
<1>3. ASSUME NEW s \in Sessions, ActorSends(s) PROVE Events!Send(s)
  BY <1>3, Zenon DEF ActorSends, caller, Events!Send
<1>4. ASSUME NEW s \in Sessions, Recv(s)
      PROVE  Events!Receive(s) \/ (eventsSent' = eventsSent /\ eventsGot' = eventsGot)
  <2> DEFINE m == Head(inbox[s])
  <2>0. /\ inbox[s] # <<>> /\ eventsSent' = eventsSent
        /\ IF m.kind = "Event" THEN eventsGot' = [eventsGot EXCEPT ![s] = m.n]
                               ELSE eventsGot' = eventsGot
    BY <1>4, Zenon DEF Recv, server
  <2>1. EventInv(s) /\ inbox[s] \in Seq(DownEnvelopes) /\ eventsGot[s] \in Nat /\ eventsSent[s] \in Nat
    BY Zenon DEF StreamInv, SessionInv, TypeOK, QueueTypes
  <2>2. m \in Range(inbox[s]) /\ m \in DownEnvelopes
    BY <2>0, <2>1, TailRange, Zenon
  <2> HIDE DEF m
  <2>3. CASE m.kind = "Event"
    <3>1. m.session = s
      BY <2>1, <2>2, Zenon DEF EventInv
    <3>2. m \in EventsOf(s)
      BY <2>2, <2>3, <3>1, KindFacts, Zenon
    <3>3. eventsGot[s] < m.n /\ m.n <= eventsSent[s] /\ m.n \in Nat
      <4>1. eventsGot[s] < m.n /\ m.n <= eventsSent[s]
        BY <2>1, <2>2, <3>2, Zenon DEF EventInv
      <4>2. m.n \in Nat
        BY <3>2, NumberFacts, Zenon
      <4> QED
        BY <4>1, <4>2, Zenon
    <3>4. m.n \in eventsGot[s] + 1 .. eventsSent[s]
      BY <2>1, <3>3
    <3> QED
      BY <2>0, <2>3, <3>4, Zenon DEF Events!Receive
  <2> QED
    BY <2>0, <2>3, Zenon
<1>5. CASE UNCHANGED vars
  BY <1>5, Zenon DEF vars, caller, server
<1> QED
  BY <1>1, <1>2, <1>3, <1>4, <1>5, Zenon DEF Next

\* Every step sends or receives one Action, or leaves the Actions alone.
LEMMA ActionsStep ==
  ASSUME StreamInv, [Next]_vars
  PROVE  [\E c \in Sessions : Actions!Send(c) \/ Actions!Receive(c)]_<<actionsSent, actionsGot>>
<1>1. CASE Flush \/ ActorEnds \/ ConnectionLost \/ ClientNoticesLoss \/ ServerNoticesLoss
  BY <1>1, Zenon DEF Flush, ActorEnds, ConnectionLost, ClientNoticesLoss, ServerNoticesLoss, caller, server
<1>2. ASSUME NEW s \in Sessions,
             SendOpen(s) \/ OpenTimesOut(s) \/ DropSession(s) \/ Recv(s) \/ Receive(s) \/ ServeOpen(s)
               \/ OpenServed(s) \/ ServeClose(s) \/ ActorSends(s) \/ Terminate(s)
      PROVE  actionsSent' = actionsSent /\ actionsGot' = actionsGot
  BY <1>2, Zenon DEF SendOpen, OpenTimesOut, DropSession, Recv, Receive, ReceiveForSession, ReceiveAck,
     ServeOpen, OpenServed, ServeClose, ActorSends, Terminate, caller, server
<1>3. ASSUME NEW s \in Sessions, SendAction(s) PROVE Actions!Send(s)
  BY <1>3, Zenon DEF SendAction, server, Actions!Send
<1>4. ASSUME NEW s \in Sessions, ServeAction(s)
      PROVE  Actions!Receive(s) \/ (actionsSent' = actionsSent /\ actionsGot' = actionsGot)
  <2>0. PICK m \in Range(up) :
          /\ m.kind = "Action" /\ m.session = s
          /\ \/ actionsGot' = [actionsGot EXCEPT ![s] = m.n]
             \/ actionsGot' = actionsGot
          /\ actionsSent' = actionsSent
    BY <1>4, Zenon DEF ServeAction, caller
  <2>1. ActionInv(s) /\ up \in Seq(UpEnvelopes) /\ actionsGot[s] \in Nat /\ actionsSent[s] \in Nat
    BY Zenon DEF StreamInv, SessionInv, TypeOK, QueueTypes
  <2>2. m \in UpEnvelopes
    BY <2>1, RangeFacts, Zenon
  <2>3. m \in ActionsOf(s)
    BY <2>0, <2>2, KindFacts, Zenon
  <2>4. actionsGot[s] < m.n /\ m.n <= actionsSent[s] /\ m.n \in Nat
    <3>1. m \in Range(up)
      BY <2>1, RangeFacts, Zenon
    <3>2. actionsGot[s] < m.n /\ m.n <= actionsSent[s]
      BY <2>1, <2>3, <3>1, Zenon DEF ActionInv
    <3>3. m.n \in Nat
      BY <2>3, NumberFacts, Zenon
    <3> QED
      BY <3>2, <3>3, Zenon
  <2>5. m.n \in actionsGot[s] + 1 .. actionsSent[s]
    BY <2>1, <2>4
  <2> QED
    BY <2>0, <2>5, Zenon DEF Actions!Receive
<1>5. CASE UNCHANGED vars
  BY <1>5, Zenon DEF vars, caller, server
<1> QED
  BY <1>1, <1>2, <1>3, <1>4, <1>5, Zenon DEF Next, Serve

\* The Events the caller of a Session receives, and the Actions its Actor gets, are ones
\* sent on it, in that order, none twice (deliver_event, handle_envelope, Session::recv,
\* Session::send, dispatch_inbound).
THEOREM SpecTrafficInOrder == Spec => TrafficInOrder
<1>1. Spec => Events!Spec
  BY InitTraffic, EventsStep, StreamInvariance, PTL DEF Spec, Events!Spec
<1>2. Spec => Actions!Spec
  BY InitTraffic, ActionsStep, StreamInvariance, PTL DEF Spec, Actions!Spec
<1> QED
  BY <1>1, <1>2, Zenon DEF TrafficInOrder
=============================================================================
