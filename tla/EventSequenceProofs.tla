------------------------- MODULE EventSequenceProofs -------------------------
(***************************************************************************)
(* Facts about sequences of messages and events that several components'   *)
(* proofs need: where those of a kind are, how many there are and which is *)
(* the last, as one more is appended.  Also least and greatest numbers,    *)
(* induction for sets of numbers, and what is computed step by step.       *)
(***************************************************************************)
EXTENDS EventSequences, FiniteSetTheorems, SequenceTheorems, WellFoundedInduction, TLAPS

-----------------------------------------------------------------------------
(* Numbers.                                                                *)

\* No sequence of numbers descends for ever.
LEMMA NumbersAreWellFounded ==
  IsWellFoundedOn({p \in Nat \X Nat : p[1] < p[2]}, Nat)
<1>1. IsWellFoundedOn(OpToRel(<, Nat), Nat)
  BY NatLessThanWellFounded
<1>2. {p \in Nat \X Nat : p[1] < p[2]} \cap (Nat \X Nat) \subseteq OpToRel(<, Nat)
  BY DEF OpToRel
<1> QED BY <1>1, <1>2, IsWellFoundedOnSubrelation

\* A set of numbers has a least one.
LEMMA LeastNumber ==
  ASSUME NEW T \in SUBSET Nat, T # {}
  PROVE  \E least \in T : \A n \in T : least <= n
<1> DEFINE R == {p \in Nat \X Nat : p[1] < p[2]}
<1>1. PICK least \in T : \A n \in T : <<n, least>> \notin R
  <2> HIDE DEF R
  <2>1. IsWellFoundedOn(R, Nat)
    BY NumbersAreWellFounded DEF R
  <2> QED BY <2>1, WFMin
<1>2. \A n \in T : n \in Nat /\ least \in Nat /\ ~ (n < least)
  BY <1>1
<1> QED BY <1>2

\* A bounded set of numbers has a greatest one.
LEMMA GreatestNumber ==
  ASSUME NEW T \in SUBSET Nat, T # {}, NEW bound \in Nat, \A n \in T : n <= bound
  PROVE  \E greatest \in T : \A n \in T : n <= greatest
<1> DEFINE Bounds == {b \in Nat : \A n \in T : n <= b}
<1>1. PICK least \in Bounds : \A b \in Bounds : least <= b
  <2>1. Bounds \in SUBSET Nat /\ bound \in Bounds
    OBVIOUS
  <2> HIDE DEF Bounds
  <2> QED BY <2>1, LeastNumber
<1>2. least \in T
  <2> SUFFICES ASSUME least \notin T PROVE FALSE
    OBVIOUS
  <2>1. \A n \in T : n < least
    BY <1>1
  <2>2. PICK n \in T : n \in Nat /\ n < least
    BY <2>1
  <2>3. least - 1 \in Nat /\ \A m \in T : m <= least - 1
    BY <2>1, <2>2
  <2>4. least - 1 \in Bounds
    BY <2>3
  <2> QED BY <1>1, <2>4
<1> QED BY <1>1, <1>2

\* Induction, for a set of numbers instead of a predicate.
LEMMA NumberInduction ==
  ASSUME NEW T \in SUBSET Nat, 0 \in T, \A n \in T : n + 1 \in T
  PROVE  T = Nat
<1> SUFFICES ASSUME Nat \ T # {} PROVE FALSE
  OBVIOUS
<1>1. PICK least \in Nat \ T : \A n \in Nat \ T : least <= n
  <2> DEFINE U == Nat \ T
  <2>1. U \in SUBSET Nat /\ U # {}
    OBVIOUS
  <2> HIDE DEF U
  <2>2. \E m \in U : \A n \in U : m <= n
    BY <2>1, LeastNumber
  <2> QED BY <2>2 DEF U
<1>2. least - 1 \in Nat /\ least - 1 \in T
  BY <1>1
<1> QED BY <1>1, <1>2

\* There are n numbers from 1 to n.
LEMMA CountFromOne ==
  ASSUME NEW n \in Nat
  PROVE  Cardinality(1 .. n) = n
<1>1. CASE n = 0
  <2>1. 1 .. n = {}
    BY <1>1
  <2> QED BY <1>1, <2>1, FS_EmptySet
<1>2. CASE n # 0
  <2>1. ~ (1 > n)
    BY <1>2
  <2> QED BY <1>2, <2>1, FS_Interval
<1> QED BY <1>1, <1>2

-----------------------------------------------------------------------------
(* What is computed step by step from one value of S to the next.          *)
Iterates(f, S, last, start, step) ==
  /\ f \in [0 .. last -> S] /\ f[0] = start
  /\ \A n \in 1 .. last : f[n] = step[<<f[n - 1], n>>]

\* A step that is applied so many times defines a function.
LEMMA IterationIsDefined ==
  ASSUME NEW S, NEW last \in Nat, NEW start \in S, NEW step \in [S \X (1 .. last) -> S]
  PROVE  \E f : Iterates(f, S, last, start, step)
<1> DEFINE Follows(f, m) ==
             f[0] = start /\ \A n \in 1 .. m : f[n] = step[<<f[n - 1], n>>]
           T == {m \in Nat : m <= last => \E f \in [0 .. m -> S] : Follows(f, m)}
<1>1. 0 \in T
  <2>1. [n \in 0 .. 0 |-> start] \in [0 .. 0 -> S] /\ Follows([n \in 0 .. 0 |-> start], 0)
    OBVIOUS
  <2> QED BY <2>1
<1>2. ASSUME NEW m \in T PROVE m + 1 \in T
  <2> SUFFICES ASSUME m + 1 <= last
               PROVE  \E f \in [0 .. m + 1 -> S] : Follows(f, m + 1)
    OBVIOUS
  <2>1. PICK f \in [0 .. m -> S] : Follows(f, m)
    OBVIOUS
  <2> DEFINE g == [n \in 0 .. m + 1 |-> IF n = m + 1 THEN step[<<f[m], m + 1>>] ELSE f[n]]
  <2>2. <<f[m], m + 1>> \in S \X (1 .. last)
    OBVIOUS
  <2>3. g \in [0 .. m + 1 -> S]
    BY <2>2
  <2>4. /\ g[0] = start /\ g[m + 1] = step[<<f[m], m + 1>>]
        /\ \A n \in 0 .. m : g[n] = f[n]
    BY <2>1
  <2> HIDE DEF g
  <2>5. Follows(g, m + 1)
    <3>1. ASSUME NEW n \in 1 .. m + 1 PROVE g[n] = step[<<g[n - 1], n>>]
      <4>1. CASE n = m + 1
        <5>1. m \in Nat /\ m \in 0 .. m /\ n - 1 = m
          BY <4>1
        <5>2. g[n - 1] = f[m]
          BY <2>4, <5>1
        <5> QED BY <2>4, <4>1, <5>2
      <4>2. CASE n \in 1 .. m
        <5>1. n - 1 \in 0 .. m /\ n \in 0 .. m
          BY <4>2
        <5> QED BY <2>1, <2>4, <4>2, <5>1
      <4> QED BY <4>1, <4>2
    <3> QED BY <2>4, <3>1
  <2> QED BY <2>3, <2>5
<1>3. last \in T
  <2>1. T \in SUBSET Nat /\ \A m \in T : m + 1 \in T
    BY <1>2
  <2> HIDE DEF T
  <2> QED BY <1>1, <2>1, NumberInduction
<1> QED BY <1>3 DEF Iterates

\* Two that begin alike and go on alike are alike.
LEMMA IterationsAgree ==
  ASSUME NEW last \in Nat, NEW f, NEW g, f[0] = g[0],
         \A n \in 1 .. last : f[n - 1] = g[n - 1] => f[n] = g[n]
  PROVE  f[last] = g[last]
<1> DEFINE T == {m \in Nat : m <= last => f[m] = g[m]}
<1>1. 0 \in T
  OBVIOUS
<1>2. ASSUME NEW m \in T PROVE m + 1 \in T
  <2> SUFFICES ASSUME m + 1 <= last PROVE f[m + 1] = g[m + 1]
    OBVIOUS
  <2>1. m + 1 \in 1 .. last /\ m + 1 - 1 = m /\ f[m] = g[m]
    OBVIOUS
  <2> QED BY <2>1
<1>3. T \in SUBSET Nat /\ \A m \in T : m + 1 \in T
  BY <1>2
<1>4. last \in T
  <2> HIDE DEF T
  <2> QED BY <1>1, <1>3, NumberInduction
<1> QED BY <1>4

-----------------------------------------------------------------------------
(* Where the messages of a kind are.                                       *)

\* The places of a kind are places of the sequence, and can be counted.
LEMMA HavingIsFinite ==
  ASSUME NEW S, NEW messages \in Seq(S), NEW kind
  PROVE  /\ Having(messages, kind) \in SUBSET (1 .. Len(messages))
         /\ IsFiniteSet(Having(messages, kind))
         /\ Cardinality(Having(messages, kind)) \in Nat
<1>1. Having(messages, kind) \in SUBSET (1 .. Len(messages))
  BY DEF Having
<1>2. IsFiniteSet(1 .. Len(messages))
  BY FS_Interval
<1>3. IsFiniteSet(Having(messages, kind))
  BY <1>1, <1>2, FS_Subset
<1> QED BY <1>1, <1>3, FS_CardinalityType

\* The empty sequence has no kind.
LEMMA HavingOfNone ==
  ASSUME NEW kind
  PROVE  Having(<<>>, kind) = {} /\ ~ Has(<<>>, kind)
BY DEF Having, Has

\* One message more adds its place to those of its kind.
LEMMA HavingAppended ==
  ASSUME NEW S, NEW messages \in Seq(S), NEW message \in S, NEW kind
  PROVE  Having(Append(messages, message), kind) =
           IF message.kind = kind THEN Having(messages, kind) \cup {Len(messages) + 1}
                                  ELSE Having(messages, kind)
<1> DEFINE longer == Append(messages, message)
<1>1. /\ DOMAIN longer = 1 .. Len(messages) + 1
      /\ \A i \in 1 .. Len(messages) : longer[i] = messages[i]
      /\ longer[Len(messages) + 1] = message
      /\ DOMAIN messages = 1 .. Len(messages) /\ Len(messages) \in Nat
  BY AppendProperties
<1> HIDE DEF longer
<1>2. \A i : i \in DOMAIN longer <=> i \in DOMAIN messages \/ i = Len(messages) + 1
  BY <1>1
<1> QED BY <1>1, <1>2 DEF Having, longer

\* One message more is one more of its kind.
LEMMA CountAppended ==
  ASSUME NEW S, NEW messages \in Seq(S), NEW message \in S, NEW kind
  PROVE  Cardinality(Having(Append(messages, message), kind)) =
           IF message.kind = kind THEN Cardinality(Having(messages, kind)) + 1
                                  ELSE Cardinality(Having(messages, kind))
<1>1. Len(messages) + 1 \notin Having(messages, kind)
  BY HavingIsFinite
<1> QED BY <1>1, HavingAppended, HavingIsFinite, FS_AddElement

\* Of a kind that a sequence has there is a last place.
LEMMA LastIsThere ==
  ASSUME NEW S, NEW messages \in Seq(S), NEW kind, Has(messages, kind)
  PROVE  \E i \in Having(messages, kind) : \A j \in Having(messages, kind) : j <= i
<1> DEFINE T == Having(messages, kind)
<1>1. T \in SUBSET Nat /\ T # {} /\ \A n \in T : n <= Len(messages)
  BY HavingIsFinite DEF Has
<1> HIDE DEF T
<1>2. \E i \in T : \A j \in T : j <= i
  BY <1>1, GreatestNumber, LenProperties
<1> QED BY <1>2 DEF T

\* The message at the last place of its kind is the last of its kind.
LEMMA LastIs ==
  ASSUME NEW S, NEW messages \in Seq(S), NEW kind,
         NEW n \in Having(messages, kind), \A i \in Having(messages, kind) : i <= n
  PROVE  Has(messages, kind) /\ LastOf(messages, kind) = messages[n]
<1> DEFINE T == Having(messages, kind)
<1>1. \A i \in T : i \in Int
  BY HavingIsFinite
<1>2. LastOf(messages, kind) = messages[CHOOSE i \in T : \A j \in T : j <= i]
  BY DEF LastOf
<1>3. n \in T /\ \A i \in T : i <= n
  OBVIOUS
<1> HIDE DEF T
<1>4. (CHOOSE i \in T : \A j \in T : j <= i) = n
  BY <1>1, <1>3
<1> QED BY <1>2, <1>3, <1>4 DEF Has, T

\* A message that is appended is the last of its kind.
LEMMA LastAppended ==
  ASSUME NEW S, NEW messages \in Seq(S), NEW message \in S
  PROVE  /\ Has(Append(messages, message), message.kind)
         /\ LastOf(Append(messages, message), message.kind) = message
<1> DEFINE n == Len(messages) + 1
<1>1. /\ n \in Having(Append(messages, message), message.kind)
      /\ \A i \in Having(Append(messages, message), message.kind) : i <= n
  BY HavingAppended, HavingIsFinite, LenProperties
<1>2. Append(messages, message) \in Seq(S) /\ Append(messages, message)[n] = message
  BY AppendProperties
<1> HIDE DEF n
<1> QED BY <1>1, <1>2, LastIs

\* It changes nothing for the other kinds.
LEMMA OthersAppended ==
  ASSUME NEW S, NEW messages \in Seq(S), NEW message \in S, NEW kind,
         message.kind # kind
  PROVE  /\ Has(Append(messages, message), kind) <=> Has(messages, kind)
         /\ Has(messages, kind) =>
              LastOf(Append(messages, message), kind) = LastOf(messages, kind)
<1> DEFINE T == Having(messages, kind)
<1>1. Having(Append(messages, message), kind) = T
  BY HavingAppended
<1>2. ASSUME Has(messages, kind)
      PROVE  LastOf(Append(messages, message), kind) = LastOf(messages, kind)
  <2> DEFINE i == CHOOSE k \in T : \A j \in T : j <= k
  <2>1. \E k \in T : \A j \in T : j <= k
    BY <1>2, LastIsThere
  <2>2. T \in SUBSET (1 .. Len(messages))
    BY HavingIsFinite
  <2>3. LastOf(messages, kind) = messages[i]
    BY DEF LastOf
  <2>4. LastOf(Append(messages, message), kind) = Append(messages, message)[i]
    BY <1>1 DEF LastOf
  <2> HIDE DEF T
  <2>5. i \in T
    BY <2>1
  <2>6. i \in 1 .. Len(messages)
    BY <2>2, <2>5
  <2> HIDE DEF i
  <2> QED BY <2>3, <2>4, <2>6, AppendProperties
<1> QED BY <1>1, <1>2 DEF Has

\* What is taken from the front was there, and the rest moves up.
LEMMA RestOf ==
  ASSUME NEW S, NEW messages \in Seq(S), messages # <<>>
  PROVE  /\ Tail(messages) \in Seq(S)
         /\ Len(Tail(messages)) = Len(messages) - 1 /\ Len(messages) \in Nat \ {0}
         /\ \A i \in 1 .. Len(messages) - 1 : Tail(messages)[i] = messages[i + 1]
         /\ Head(messages) = messages[1] /\ Head(messages) \in S
BY HeadTailProperties, LenProperties, EmptySeq

\* Where the elements of a concatenation come from.
LEMMA Joined ==
  ASSUME NEW S, NEW first \in Seq(S), NEW second \in Seq(S)
  PROVE  /\ Len(first \o second) = Len(first) + Len(second)
         /\ Len(first) \in Nat /\ Len(second) \in Nat
         /\ \A i \in 1 .. Len(first) : (first \o second)[i] = first[i]
         /\ \A i \in 1 .. Len(second) : (first \o second)[Len(first) + i] = second[i]
<1>1. /\ Len(first \o second) = Len(first) + Len(second)
      /\ \A i \in 1 .. Len(first) + Len(second) :
           (first \o second)[i] = IF i <= Len(first) THEN first[i] ELSE second[i - Len(first)]
  BY ConcatProperties
<1>2. Len(first) \in Nat /\ Len(second) \in Nat
  BY LenProperties
<1> DEFINE a == Len(first)
           b == Len(second)
           both == first \o second
<1>3. a \in Nat /\ b \in Nat
      /\ \A i \in 1 .. a + b : both[i] = IF i <= a THEN first[i] ELSE second[i - a]
  BY <1>1, <1>2
<1>4. Len(both) = a + b
  BY <1>1
<1> HIDE DEF a, b, both
<1>5. ASSUME NEW i \in 1 .. a PROVE both[i] = first[i]
  <2>1. i \in 1 .. a + b /\ i <= a
    BY <1>3
  <2> QED BY <1>3, <2>1
<1>6. ASSUME NEW i \in 1 .. b PROVE both[a + i] = second[i]
  <2>1. a + i \in 1 .. a + b /\ ~ (a + i <= a) /\ a + i - a = i
    BY <1>3
  <2> QED BY <1>3, <2>1
<1> QED BY <1>3, <1>4, <1>5, <1>6 DEF a, b, both
=============================================================================
