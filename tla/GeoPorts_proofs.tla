---------------------------- MODULE GeoPorts_proofs ----------------------------
(***************************************************************************)
(* The two parsers of GeoPorts, for every log of writes.                   *)
(***************************************************************************)
EXTENDS GeoPorts, FiniteSetTheorems, TLAPS

-----------------------------------------------------------------------------
(* Sets of numbers. *)
Below == {p \in Nat \X Nat : p[1] < p[2]}

LEMMA LeastOf ==
    ASSUME NEW T \in SUBSET Nat, T # {}
    PROVE  \E x \in T : \A y \in T : x <= y
  <1>1. OpToRel(<, Nat) = Below
    BY Zenon DEF OpToRel, Below
  <1>2. IsWellFoundedOn(Below, Nat)
    BY <1>1, NatLessThanWellFounded
  <1>3. \E x \in T : \A y \in T : ~ (<<y, x>> \in Below)
    BY <1>2, WFMin, Zenon
  <1>4. PICK x \in T : \A y \in T : ~ (<<y, x>> \in Below)
    BY <1>3
  <1>5. ASSUME NEW y \in T PROVE x <= y
    <2>1. <<y, x>> \in Nat \X Nat /\ ~ (<<y, x>> \in Below)
      BY <1>4
    <2>2. ~ (y < x)
      BY <2>1, Zenon DEF Below
    <2>3. QED
      BY <2>2
  <1>6. QED
    BY <1>5

LEMMA MinOf ==
    ASSUME NEW T \in SUBSET Nat, T # {}
    PROVE  Min(T) \in T
  BY LeastOf DEF Min

LEMMA GreatestOf ==
    ASSUME NEW T \in SUBSET Nat, T # {}, NEW n \in Nat, \A x \in T : x <= n
    PROVE  \E x \in T : \A y \in T : y <= x
  <1> DEFINE U == {b \in Nat : \A x \in T : x <= b}
  <1>1. PICK b \in U : \A c \in U : b <= c
    <2>1. U \in SUBSET Nat /\ n \in U
      OBVIOUS
    <2> HIDE DEF U
    <2>2. QED
      BY <2>1, LeastOf
  <1>2. CASE b \in T
    BY <1>1, <1>2
  <1>3. CASE b \notin T
    <2>1. \A x \in T : x < b
      BY <1>1, <1>3
    <2>2. PICK x \in T : TRUE
      OBVIOUS
    <2>3. b - 1 \in U
      BY <1>1, <2>1, <2>2
    <2>4. QED
      BY <1>1, <2>3
  <1>4. QED
    BY <1>2, <1>3

LEMMA MaxOf ==
    ASSUME NEW T \in SUBSET Nat, T # {}, NEW n \in Nat, \A x \in T : x <= n
    PROVE  Max(T) \in T /\ \A x \in T : x <= Max(T)
  <1>1. \E x \in T : \A y \in T : x >= y
    BY GreatestOf
  <1>2. QED
    BY <1>1 DEF Max

LEMMA MaxIs ==
    ASSUME NEW T \in SUBSET Nat, NEW m \in T, \A x \in T : x <= m
    PROVE  Max(T) = m
  <1>1. m \in Nat /\ T # {}
    OBVIOUS
  <1>2. Max(T) \in T /\ \A x \in T : x <= Max(T)
    BY <1>1, MaxOf
  <1>3. Max(T) \in Nat /\ Max(T) <= m /\ m <= Max(T)
    BY <1>2
  <1>4. QED
    BY <1>1, <1>3

(* The order of a set of places in a log of n writes. *)
LEMMA FiniteBelow ==
    ASSUME NEW n \in Nat, NEW S \in SUBSET (1 .. n)
    PROVE  IsFiniteSet(S) /\ Cardinality(S) \in Nat
  <1>1. IsFiniteSet(1 .. n)
    BY FS_Interval
  <1>2. S \subseteq 1 .. n
    OBVIOUS
  <1>3. IsFiniteSet(S)
    BY <1>1, <1>2, FS_Subset
  <1>4. QED
    BY <1>3, FS_CardinalityType

(* The places at or before which there are at least k. *)
UpTo(S, k) == {j \in S : Cardinality({x \in S : x <= j}) >= k}

LEMMA UpToLeast ==
    ASSUME NEW n \in Nat, NEW S \in SUBSET (1 .. n), NEW k \in 1 .. Cardinality(S)
    PROVE  /\ UpTo(S, k) \in SUBSET Nat
           /\ Min(UpTo(S, k)) \in UpTo(S, k)
           /\ \A j \in UpTo(S, k) : Min(UpTo(S, k)) <= j
  <1>1. Cardinality(S) \in Nat
    BY FiniteBelow
  <1>2. S # {}
    BY <1>1, FS_EmptySet
  <1>3. S \in SUBSET Nat /\ \A x \in S : x <= n
    OBVIOUS
  <1>4. PICK m \in S : \A x \in S : x <= m
    BY <1>2, <1>3, GreatestOf
  <1>5. {x \in S : x <= m} = S
    BY <1>4
  <1>6. m \in UpTo(S, k)
    BY <1>1, <1>5 DEF UpTo
  <1>7. UpTo(S, k) \in SUBSET Nat
    BY <1>3 DEF UpTo
  <1>8. QED
    BY <1>6, <1>7, LeastOf DEF Min

LEMMA InOrderType ==
    ASSUME NEW n \in Nat, NEW S \in SUBSET (1 .. n)
    PROVE  /\ InOrder(S) \in Seq(S)
           /\ Len(InOrder(S)) = Cardinality(S)
           /\ Cardinality(S) \in Nat
           /\ \A k \in 1 .. Cardinality(S) : InOrder(S)[k] = Min(UpTo(S, k))
  <1> DEFINE c == Cardinality(S)
  <1>1. c \in Nat
    BY FiniteBelow
  <1>2. ASSUME NEW k \in 1 .. c
        PROVE  Min(UpTo(S, k)) \in S
    BY UpToLeast DEF UpTo
  <1>3. InOrder(S) = [k \in 1 .. c |-> Min(UpTo(S, k))]
    BY DEF InOrder, UpTo
  <1> HIDE DEF c
  <1>4. InOrder(S) \in [1 .. c -> S]
    BY <1>2, <1>3
  <1>5. InOrder(S) \in Seq(S) /\ Len(InOrder(S)) = c
    BY <1>1, <1>4
  <1>6. QED
    BY <1>1, <1>3, <1>5 DEF c

LEMMA SeqOfMore ==
    ASSUME NEW S, NEW T, S \subseteq T, NEW s \in Seq(S)
    PROVE  s \in Seq(T)
  OBVIOUS

LEMMA SeqEqual ==
    ASSUME NEW S, NEW s \in Seq(S), NEW t \in Seq(S), Len(s) = Len(t),
           \A k \in 1 .. Len(s) : s[k] = t[k]
    PROVE  s = t
  OBVIOUS

(* A greater number comes last. *)
LEMMA InOrderGrows ==
    ASSUME NEW n \in Nat, NEW S \in SUBSET (1 .. n), NEW m \in Nat, m > n
    PROVE  InOrder(S \cup {m}) = Append(InOrder(S), m)
  <1> DEFINE T == S \cup {m}
             c == Cardinality(S)
  <1>1. S \in SUBSET Nat /\ m \notin S /\ \A x \in S : x < m
    OBVIOUS
  <1>2. IsFiniteSet(S) /\ c \in Nat
    BY FiniteBelow
  <1>3. Cardinality(T) = c + 1
    BY <1>1, <1>2, FS_AddElement
  <1>4. T \in SUBSET (1 .. m)
    BY <1>1
  <1>5. /\ InOrder(S) \in Seq(S) /\ Len(InOrder(S)) = c
        /\ \A k \in 1 .. c : InOrder(S)[k] = Min(UpTo(S, k))
    BY InOrderType
  <1>6. /\ InOrder(T) \in Seq(T) /\ Len(InOrder(T)) = c + 1
        /\ \A k \in 1 .. c + 1 : InOrder(T)[k] = Min(UpTo(T, k))
    <2> HIDE DEF T, c
    <2>1. QED
      BY <1>3, <1>4, InOrderType DEF c
  <1>7. ASSUME NEW j \in S PROVE {x \in T : x <= j} = {x \in S : x <= j}
    BY <1>1
  <1>8. {x \in T : x <= m} = T
    <2>1. \A x \in T : x <= m
      BY <1>1
    <2> HIDE DEF T
    <2>2. QED
      BY <2>1
  <1>9. ASSUME NEW k \in 1 .. c + 1
        PROVE  UpTo(T, k) = UpTo(S, k) \cup {m}
    <2>1. Cardinality({x \in T : x <= m}) >= k
      <3>1. Cardinality({x \in T : x <= m}) = c + 1
        BY <1>3, <1>8
      <3> HIDE DEF T, c
      <3>2. QED
        BY <1>2, <3>1
    <2>2. \A j \in S : j \in UpTo(T, k) <=> j \in UpTo(S, k)
      BY <1>7 DEF UpTo
    <2>3. m \in UpTo(T, k)
      BY <2>1 DEF UpTo
    <2>4. UpTo(T, k) \subseteq T /\ UpTo(S, k) \subseteq S
      BY DEF UpTo
    <2>5. QED
      BY <2>2, <2>3, <2>4
  <1>10. ASSUME NEW k \in 1 .. c PROVE InOrder(T)[k] = InOrder(S)[k]
    <2> DEFINE a == Min(UpTo(S, k))
               b == Min(UpTo(T, k))
    <2>1. /\ UpTo(S, k) \in SUBSET S
          /\ a \in UpTo(S, k) /\ \A j \in UpTo(S, k) : a <= j
      <3>1. UpTo(S, k) \in SUBSET S
        BY DEF UpTo
      <3>2. QED
        BY <3>1, UpToLeast
    <2>2. k \in 1 .. c + 1
      BY <1>2
    <2>3. b \in UpTo(T, k) /\ \A j \in UpTo(T, k) : b <= j
      <3> HIDE DEF T, c
      <3>1. k \in 1 .. Cardinality(T)
        BY <1>3, <2>2
      <3>2. QED
        BY <1>4, <3>1, UpToLeast
    <2>4. UpTo(T, k) = UpTo(S, k) \cup {m}
      BY <2>2, <1>9
    <2> HIDE DEF a, b, T, c
    <2>5. a \in S /\ a \in Nat /\ b \in Nat /\ a < m
      BY <1>1, <2>1, <2>3, <2>4
    <2>6. b <= a
      BY <2>1, <2>3, <2>4
    <2>7. b \in UpTo(S, k)
      BY <2>3, <2>4, <2>5, <2>6
    <2>8. a = b
      BY <2>1, <2>5, <2>6, <2>7
    <2>9. QED
      BY <1>5, <1>6, <2>2, <2>8 DEF a, b
  <1>11. InOrder(T)[c + 1] = m
    <2> DEFINE b == Min(UpTo(T, c + 1))
    <2>1. c + 1 \in 1 .. c + 1
      BY <1>2
    <2>2. b \in UpTo(T, c + 1)
      <3> HIDE DEF T, c
      <3>1. c + 1 \in 1 .. Cardinality(T)
        BY <1>3, <2>1
      <3>2. QED
        BY <1>4, <3>1, UpToLeast
    <2>3. UpTo(S, c + 1) = {}
      <3>1. ASSUME NEW j \in S PROVE ~ (Cardinality({x \in S : x <= j}) >= c + 1)
        <4> DEFINE low == {x \in S : x <= j}
        <4>1. low \in SUBSET S
          OBVIOUS
        <4>2. Cardinality(low) <= c /\ Cardinality(low) \in Nat
          BY <1>2, <4>1, FS_Subset, FS_CardinalityType
        <4> HIDE DEF low, c
        <4>3. ~ (Cardinality(low) >= c + 1)
          BY <1>2, <4>2
        <4>4. QED
          BY <4>3 DEF low
      <3>2. QED
        BY <3>1 DEF UpTo
    <2>4. UpTo(T, c + 1) = UpTo(S, c + 1) \cup {m}
      BY <2>1, <1>9
    <2>5. QED
      BY <1>6, <2>1, <2>2, <2>3, <2>4
  <1> HIDE DEF T, c
  <1>12. Append(InOrder(S), m) \in Seq(Nat) /\ InOrder(T) \in Seq(Nat)
    <2>1. S \subseteq Nat /\ T \subseteq Nat
      BY <1>1, <1>4
    <2>2. InOrder(S) \in Seq(Nat) /\ InOrder(T) \in Seq(Nat)
      BY <1>5, <1>6, <2>1, SeqOfMore
    <2>3. QED
      BY <2>2
  <1>13. /\ Len(Append(InOrder(S), m)) = c + 1
         /\ \A k \in 1 .. c : Append(InOrder(S), m)[k] = InOrder(S)[k]
         /\ Append(InOrder(S), m)[c + 1] = m
    BY <1>2, <1>5
  <1>14. \A k \in 1 .. c + 1 : k \in 1 .. c \/ k = c + 1
    BY <1>2
  <1>15. \A k \in 1 .. c + 1 : InOrder(T)[k] = Append(InOrder(S), m)[k]
    BY <1>10, <1>11, <1>13, <1>14
  <1>16. QED
    <2>1. Len(InOrder(T)) = Len(Append(InOrder(S), m))
      BY <1>6, <1>13
    <2>2. \A k \in 1 .. Len(InOrder(T)) : InOrder(T)[k] = Append(InOrder(S), m)[k]
      BY <1>6, <1>15
    <2>3. InOrder(T) = Append(InOrder(S), m)
      BY <1>12, <2>1, <2>2, SeqEqual
    <2>4. QED
      BY <2>3 DEF T

LEMMA InOrderNone == InOrder({}) = <<>>
  <1>1. Cardinality({}) = 0
    BY FS_EmptySet
  <1>2. {} \in SUBSET (1 .. 0)
    OBVIOUS
  <1>3. InOrder({}) \in Seq({}) /\ Len(InOrder({})) = 0
    BY <1>1, <1>2, InOrderType
  <1>4. QED
    BY <1>3

-----------------------------------------------------------------------------
(* Logs of writes. *)
Entry == [port : AllPorts \union {"data", "object"}, val : Nat]

(* The places whose words belong to command i. *)
Belong(log, i, others) ==
    {j \in Data(log) : i < j /\ \A c \in others : ~(i < c /\ c < j)}

LEMMA PayloadIs ==
    ASSUME NEW log, NEW i, NEW others
    PROVE  Payload(log, i, others) = InOrder(Belong(log, i, others))
  BY DEF Payload, Belong

LEMMA Places ==
    ASSUME NEW log \in Seq(Entry)
    PROVE  /\ Len(log) \in Nat /\ DOMAIN log = 1 .. Len(log)
           /\ Data(log) \in SUBSET (1 .. Len(log))
           /\ Commands(log) \in SUBSET (1 .. Len(log))
           /\ Starts(log) \in SUBSET (1 .. Len(log))
           /\ Starts(log) \subseteq Commands(log)
           /\ \A i \in 1 .. Len(log) : log[i] \in Entry /\ log[i].val \in Nat
  <1>1. Len(log) \in Nat /\ DOMAIN log = 1 .. Len(log)
    OBVIOUS
  <1>2. \A i \in 1 .. Len(log) : log[i] \in Entry
    OBVIOUS
  <1>3. \A i \in 1 .. Len(log) : log[i].val \in Nat
    BY <1>2 DEF Entry
  <1>4. UploadPorts \subseteq AllPorts
    BY DEF AllPorts
  <1>5. QED
    BY <1>1, <1>2, <1>3, <1>4 DEF Data, Commands, Starts

LEMMA PayloadType ==
    ASSUME NEW log \in Seq(Entry), NEW i, NEW others
    PROVE  /\ Payload(log, i, others) \in Seq(1 .. Len(log))
           /\ Len(Payload(log, i, others)) \in Nat
           /\ \A k \in 1 .. Len(Payload(log, i, others)) :
                 Payload(log, i, others)[k] \in 1 .. Len(log)
  <1> DEFINE S == Belong(log, i, others)
             p == Payload(log, i, others)
  <1>1. S \in SUBSET (1 .. Len(log))
    BY Places DEF Belong
  <1>2. Len(log) \in Nat
    OBVIOUS
  <1>3. p = InOrder(S)
    BY PayloadIs
  <1> HIDE DEF S, p
  <1>4. p \in Seq(S)
    BY <1>1, <1>2, <1>3, InOrderType
  <1>5. p \in Seq(1 .. Len(log))
    BY <1>1, <1>4, SeqOfMore
  <1>6. \A k \in 1 .. Len(p) : p[k] \in 1 .. Len(log)
    BY <1>5
  <1>7. QED
    BY <1>5, <1>6 DEF p

(* One more write. *)
Grown(log, e, longer, n) ==
    log \in Seq(Entry) /\ e \in Entry /\ longer = Append(log, e) /\ n = Len(log) + 1

LEMMA LogGrows ==
    ASSUME NEW log, NEW e, NEW longer, NEW n, Grown(log, e, longer, n)
    PROVE  /\ log \in Seq(Entry) /\ longer \in Seq(Entry) /\ n \in Nat
           /\ Len(longer) = n
           /\ longer[n] = e
           /\ \A i \in 1 .. Len(log) : longer[i] = log[i]
           /\ Data(longer) = IF e.port = "data" THEN Data(log) \cup {n} ELSE Data(log)
           /\ Commands(longer) = IF e.port \in AllPorts THEN Commands(log) \cup {n} ELSE Commands(log)
           /\ Starts(longer) = IF e.port \in UploadPorts THEN Starts(log) \cup {n} ELSE Starts(log)
  <1>1. /\ longer \in Seq(Entry) /\ n \in Nat /\ Len(longer) = n
        /\ longer[n] = e
        /\ \A i \in 1 .. Len(log) : longer[i] = log[i]
    BY DEF Grown
  <1>2. DOMAIN longer = DOMAIN log \cup {n} /\ DOMAIN log = 1 .. Len(log)
    BY DEF Grown
  <1>3. Data(longer) = IF e.port = "data" THEN Data(log) \cup {n} ELSE Data(log)
    BY <1>1, <1>2 DEF Data
  <1>4. Commands(longer) = IF e.port \in AllPorts THEN Commands(log) \cup {n} ELSE Commands(log)
    BY <1>1, <1>2 DEF Commands
  <1>5. Starts(longer) = IF e.port \in UploadPorts THEN Starts(log) \cup {n} ELSE Starts(log)
    BY <1>1, <1>2 DEF Starts
  <1>6. QED
    BY <1>1, <1>3, <1>4, <1>5 DEF Grown

LEMMA Ahead ==
    ASSUME NEW log, NEW e, NEW longer, NEW n, Grown(log, e, longer, n)
    PROVE  /\ log \in Seq(Entry) /\ n = Len(log) + 1
           /\ Len(log) \in Nat /\ n \in Nat /\ n > Len(log)
           /\ Data(log) \in SUBSET (1 .. Len(log))
           /\ \A j \in 1 .. Len(log) : j \in Nat /\ j < n
           /\ \A j \in Data(log) : j \in Nat /\ j < n
           /\ n \notin Data(log)
  <1>1. log \in Seq(Entry) /\ n = Len(log) + 1
    BY DEF Grown
  <1>2. Len(log) \in Nat /\ n \in Nat /\ n > Len(log)
    BY <1>1
  <1>3. Data(log) \in SUBSET (1 .. Len(log))
    BY <1>1, Places
  <1>4. QED
    BY <1>1, <1>2, <1>3

(* m is the last of some places. *)
IsLast(S, m) == m \in S /\ \A c \in S : c <= m

(* The commands before a write, and with it. *)
Wider(log, e, n, others, more) ==
    /\ others \in SUBSET (1 .. Len(log))
    /\ more \in {others, others \cup {n}}
    /\ e.port = "data" => more = others

(* A word goes to the last command; what is no word, to none. *)
LEMMA PayloadKept ==
    ASSUME NEW log, NEW e, NEW longer, NEW n, Grown(log, e, longer, n),
           NEW others, NEW more, Wider(log, e, n, others, more), NEW i \in others,
           ~ (e.port = "data" /\ IsLast(others, i))
    PROVE  Payload(longer, i, more) = Payload(log, i, others)
  <1>0. /\ others \in SUBSET (1 .. Len(log)) /\ more \in {others, others \cup {n}}
        /\ i \in 1 .. Len(log)
        /\ e.port # "data" \/ \E c \in others : i < c
    <2>1. /\ others \in SUBSET (1 .. Len(log)) /\ more \in {others, others \cup {n}}
          /\ i \in 1 .. Len(log)
      BY DEF Wider
    <2>2. CASE e.port = "data"
      <3>1. PICK c \in others : ~ (c <= i)
        BY <2>2 DEF IsLast
      <3>2. c \in Nat /\ i \in Nat
        BY <2>1
      <3>3. i < c
        BY <3>1, <3>2
      <3>4. QED
        BY <2>1, <3>3
    <2>3. QED
      BY <2>1, <2>2
  <1>1. Data(longer) = IF e.port = "data" THEN Data(log) \cup {n} ELSE Data(log)
    BY LogGrows, Zenon
  <1>2. n \in Nat /\ Len(log) \in Nat /\ \A c \in others : c \in Nat /\ c < n
    BY <1>0, Ahead
  <1>3. ASSUME NEW j \in Data(log)
        PROVE  (\A c \in more : ~(i < c /\ c < j)) <=> (\A c \in others : ~(i < c /\ c < j))
    <2>1. j \in Nat /\ j < n
      BY Ahead
    <2>2. QED
      BY <1>0, <1>2, <2>1
  <1>4. n \notin Belong(longer, i, more)
    <2>1. CASE e.port # "data"
      <3>1. n \notin Data(longer)
        BY <1>1, <2>1, Ahead
      <3>2. QED
        BY <3>1 DEF Belong
    <2>2. CASE \E c \in others : i < c
      <3>1. PICK c \in others : i < c
        BY <2>2
      <3>2. c \in more /\ i < c /\ c < n
        BY <1>0, <1>2, <3>1
      <3>3. QED
        BY <3>2 DEF Belong
    <2>3. QED
      BY <1>0, <2>1, <2>2
  <1>5. \A j \in Data(log) : j \in Belong(longer, i, more) <=> j \in Belong(log, i, others)
    BY <1>1, <1>3 DEF Belong
  <1>6. /\ Belong(longer, i, more) \subseteq Data(log) \cup {n}
        /\ Belong(log, i, others) \subseteq Data(log)
    BY <1>1 DEF Belong
  <1>7. n \notin Belong(log, i, others)
    <2>1. n \notin Data(log)
      BY Ahead
    <2>2. QED
      BY <2>1 DEF Belong
  <1>8. Belong(longer, i, more) = Belong(log, i, others)
    BY <1>4, <1>5, <1>6, <1>7
  <1>9. QED
    BY <1>8, PayloadIs

LEMMA PayloadGrows ==
    ASSUME NEW log, NEW e, NEW longer, NEW n, Grown(log, e, longer, n), e.port = "data",
           NEW others \in SUBSET (1 .. Len(log)), NEW i \in others,
           \A c \in others : c <= i
    PROVE  Payload(longer, i, others) = Append(Payload(log, i, others), n)
  <1> DEFINE S == Belong(log, i, others)
  <1>1. Data(longer) = Data(log) \cup {n}
    <2>1. Data(longer) = IF e.port = "data" THEN Data(log) \cup {n} ELSE Data(log)
      BY LogGrows, SMTT(30)
    <2>2. QED
      BY <2>1
  <1>2. /\ n \in Nat /\ Len(log) \in Nat /\ i \in Nat /\ i < n /\ n > Len(log)
        /\ \A c \in others : c \in Nat
    <2>1. i \in 1 .. Len(log) /\ \A c \in others : c \in 1 .. Len(log)
      OBVIOUS
    <2>2. QED
      BY <2>1, Ahead
  <1>3. \A c \in others : ~ (i < c)
    BY <1>2
  <1>4. Belong(longer, i, others) = S \cup {n}
    BY <1>1, <1>2, <1>3 DEF Belong
  <1>5. S \in SUBSET (1 .. Len(log))
    BY Ahead DEF Belong
  <1> HIDE DEF S
  <1>6. InOrder(S \cup {n}) = Append(InOrder(S), n)
    BY <1>2, <1>5, InOrderGrows
  <1>7. QED
    BY <1>4, <1>6, PayloadIs DEF S

LEMMA PayloadBegins ==
    ASSUME NEW log, NEW e, NEW longer, NEW n, Grown(log, e, longer, n), NEW others
    PROVE  Payload(longer, n, others) = <<>>
  <1>1. Data(longer) \in SUBSET (1 .. n) /\ n \in Nat
    BY LogGrows, Places
  <1>2. Belong(longer, n, others) = {}
    BY <1>1 DEF Belong
  <1>3. QED
    BY <1>2, InOrderNone, PayloadIs

(* What a write adds to the payload of an earlier command. *)
LEMMA PayloadAfter ==
    ASSUME NEW log, NEW e, NEW longer, NEW n, Grown(log, e, longer, n),
           NEW others, NEW more, Wider(log, e, n, others, more), NEW i \in others
    PROVE  Payload(longer, i, more) =
              IF e.port = "data" /\ IsLast(others, i)
              THEN Append(Payload(log, i, others), n) ELSE Payload(log, i, others)
  <1>1. CASE e.port = "data" /\ IsLast(others, i)
    <2>1. more = others /\ others \in SUBSET (1 .. Len(log)) /\ \A c \in others : c <= i
      BY <1>1 DEF IsLast, Wider
    <2>2. Payload(longer, i, others) = Append(Payload(log, i, others), n)
      BY <1>1, <2>1, PayloadGrows
    <2>3. QED
      BY <1>1, <2>1, <2>2
  <1>2. CASE ~ (e.port = "data" /\ IsLast(others, i))
    BY <1>2, PayloadKept
  <1>3. QED
    BY <1>1, <1>2

LEMMA WordsAfter ==
    ASSUME NEW log, NEW e, NEW longer, NEW n, Grown(log, e, longer, n)
    PROVE  /\ \A i \in Commands(log) : Words(longer, i) =
                IF e.port = "data" /\ IsLast(Commands(log), i)
                THEN Append(Words(log, i), n) ELSE Words(log, i)
           /\ Words(longer, n) = <<>>
  <1> DEFINE others == Commands(log)
             more == Commands(longer)
  <1>1. others \in SUBSET (1 .. Len(log))
    BY Ahead, Places
  <1>2. more = IF e.port \in AllPorts THEN others \cup {n} ELSE others
    BY LogGrows, SMTT(30)
  <1>3. "data" \notin AllPorts
    BY DEF AllPorts, FixedPorts, UploadPorts
  <1> HIDE DEF others, more
  <1>4. Wider(log, e, n, others, more)
    BY <1>1, <1>2, <1>3 DEF Wider
  <1>5. ASSUME NEW i \in others
        PROVE  Payload(longer, i, more) =
                  IF e.port = "data" /\ IsLast(others, i)
                  THEN Append(Payload(log, i, others), n) ELSE Payload(log, i, others)
    BY <1>4, PayloadAfter
  <1>6. Payload(longer, n, more) = <<>>
    BY PayloadBegins
  <1>7. QED
    BY <1>5, <1>6 DEF Words, others, more

LEMMA UploadWordsAfter ==
    ASSUME NEW log, NEW e, NEW longer, NEW n, Grown(log, e, longer, n)
    PROVE  /\ \A i \in Starts(log) : UploadWords(longer, i) =
                IF e.port = "data" /\ IsLast(Starts(log), i)
                THEN Append(UploadWords(log, i), n) ELSE UploadWords(log, i)
           /\ UploadWords(longer, n) = <<>>
  <1> DEFINE others == Starts(log)
             more == Starts(longer)
  <1>1. others \in SUBSET (1 .. Len(log))
    BY Ahead, Places
  <1>2. more = IF e.port \in UploadPorts THEN others \cup {n} ELSE others
    BY LogGrows, SMTT(30)
  <1>3. "data" \notin UploadPorts
    BY DEF UploadPorts
  <1> HIDE DEF others, more
  <1>4. Wider(log, e, n, others, more)
    BY <1>1, <1>2, <1>3 DEF Wider
  <1>5. ASSUME NEW i \in others
        PROVE  Payload(longer, i, more) =
                  IF e.port = "data" /\ IsLast(others, i)
                  THEN Append(Payload(log, i, others), n) ELSE Payload(log, i, others)
    BY <1>4, PayloadAfter
  <1>6. Payload(longer, n, more) = <<>>
    BY PayloadBegins
  <1>7. QED
    BY <1>5, <1>6 DEF UploadWords, others, more

LEMMA WordsType ==
    ASSUME NEW log \in Seq(Entry), NEW i
    PROVE  /\ Words(log, i) \in Seq(1 .. Len(log)) /\ Len(Words(log, i)) \in Nat
           /\ \A k \in 1 .. Len(Words(log, i)) : Words(log, i)[k] \in 1 .. Len(log)
           /\ UploadWords(log, i) \in Seq(1 .. Len(log)) /\ Len(UploadWords(log, i)) \in Nat
           /\ \A k \in 1 .. Len(UploadWords(log, i)) : UploadWords(log, i)[k] \in 1 .. Len(log)
  BY PayloadType DEF Words, UploadWords

LEMMA SeqGrows ==
    ASSUME NEW l \in Nat, NEW p \in Seq(1 .. l), NEW n
    PROVE  /\ Len(Append(p, n)) = Len(p) + 1
           /\ Append(p, n)[Len(p) + 1] = n
           /\ \A k \in 1 .. Len(p) : Append(p, n)[k] = p[k]
  <1> DEFINE S == (1 .. l) \cup {n}
  <1>1. p \in Seq(S) /\ n \in S
    OBVIOUS
  <1> HIDE DEF S
  <1>2. QED
    BY <1>1

(* Words once written stay. *)
LEMMA WordsStay ==
    ASSUME NEW log, NEW e, NEW longer, NEW n, Grown(log, e, longer, n),
           NEW i \in Commands(log), NEW k \in 1 .. Len(Words(log, i))
    PROVE  /\ k \in 1 .. Len(Words(longer, i))
           /\ Words(longer, i)[k] = Words(log, i)[k]
           /\ longer[Words(longer, i)[k]] = log[Words(log, i)[k]]
  <1> DEFINE p == Words(log, i)
             q == Words(longer, i)
  <1>1. q = Append(p, n) \/ q = p
    BY WordsAfter
  <1>2. p \in Seq(1 .. Len(log)) /\ Len(p) \in Nat /\ p[k] \in 1 .. Len(log)
    BY Ahead, WordsType
  <1>3. Len(log) \in Nat
    BY Ahead
  <1> HIDE DEF p, q
  <1>4. k \in 1 .. Len(p)
    BY DEF p
  <1>5. k \in 1 .. Len(q) /\ q[k] = p[k]
    <2>1. CASE q = p
      BY <1>4, <2>1
    <2>2. CASE q = Append(p, n)
      <3>1. Len(q) = Len(p) + 1 /\ \A j \in 1 .. Len(p) : q[j] = p[j]
        BY <1>2, <1>3, <2>2, SeqGrows
      <3>2. QED
        BY <1>2, <1>4, <3>1
    <2>3. QED
      BY <1>1, <2>1, <2>2
  <1>6. longer[p[k]] = log[p[k]]
    BY <1>2, LogGrows
  <1>7. QED
    BY <1>5, <1>6 DEF p, q

-----------------------------------------------------------------------------
(* The settings that a log says. *)
Valued(log, p) == [k \in 1 .. Len(p) |-> Word(p[k], log[p[k]].val)]

LEMMA NeedType ==
    ASSUME NEW f \in FixedPorts
    PROVE  Need(f) \in Nat \ {0}
  BY PortsAssumption DEF Need, FixedPorts

LEMMA FullType ==
    ASSUME NEW log \in Seq(Entry), NEW f
    PROVE  /\ Full(log, f) \in SUBSET Commands(log)
           /\ Full(log, f) \in SUBSET Nat
           /\ \A i \in Full(log, f) : i <= Len(log)
           /\ Full(log, f) # {} =>
                 /\ Max(Full(log, f)) \in Full(log, f)
                 /\ \A i \in Full(log, f) : i <= Max(Full(log, f))
  <1> DEFINE S == Full(log, f)
  <1>1. S \in SUBSET Commands(log)
    BY DEF Full
  <1>2. Commands(log) \in SUBSET (1 .. Len(log)) /\ Len(log) \in Nat
    BY Places
  <1> HIDE DEF S
  <1>3. S \in SUBSET Nat /\ \A i \in S : i <= Len(log)
    BY <1>1, <1>2
  <1>4. S # {} => Max(S) \in S /\ \A i \in S : i <= Max(S)
    BY <1>2, <1>3, MaxOf
  <1>5. QED
    BY <1>1, <1>3, <1>4 DEF S

(* A write that completes no command f says nothing new of f. *)
LEMMA FixedSame ==
    ASSUME NEW log, NEW e, NEW longer, NEW n, Grown(log, e, longer, n),
           NEW f \in FixedPorts, Full(longer, f) = Full(log, f)
    PROVE  LastFixed(longer, f) = LastFixed(log, f)
  <1> DEFINE m == Max(Full(log, f))
             p == Words(log, m)
             q == Words(longer, m)
  <1>1. CASE Full(log, f) = {}
    BY <1>1 DEF LastFixed
  <1>2. CASE Full(log, f) # {}
    <2>1. log \in Seq(Entry)
      BY Ahead
    <2>2. m \in Full(log, f)
      BY <1>2, <2>1, FullType
    <2>3. m \in Commands(log) /\ Len(p) >= Need(f)
      BY <2>2 DEF Full
    <2>4. Len(p) \in Nat /\ Need(f) \in Nat
      BY <2>1, WordsType, NeedType
    <2> HIDE DEF m
    <2>5. ASSUME NEW k \in 1 .. Need(f)
          PROVE  Word(q[k], longer[q[k]].val) = Word(p[k], log[p[k]].val)
      <3>1. k \in 1 .. Len(p)
        BY <2>3, <2>4
      <3>2. q[k] = p[k] /\ longer[q[k]] = log[p[k]]
        BY <2>3, <3>1, WordsStay
      <3>3. QED
        BY <3>2
    <2> HIDE DEF p, q
    <2>6. [k \in 1 .. Need(f) |-> Word(q[k], longer[q[k]].val)]
             = [k \in 1 .. Need(f) |-> Word(p[k], log[p[k]].val)]
      BY <2>5
    <2>7. LastFixed(longer, f) = [k \in 1 .. Need(f) |-> Word(q[k], longer[q[k]].val)]
      BY <1>2 DEF LastFixed, m, q
    <2>8. LastFixed(log, f) = [k \in 1 .. Need(f) |-> Word(p[k], log[p[k]].val)]
      BY <1>2 DEF LastFixed, m, p
    <2>9. QED
      BY <2>6, <2>7, <2>8
  <1>3. QED
    BY <1>1, <1>2

(* The word that completes the last command. *)
LEMMA FixedNew ==
    ASSUME NEW log \in Seq(Entry), NEW f \in FixedPorts, NEW m,
           IsLast(Commands(log), m), log[m].port = f,
           Len(Words(log, m)) = Need(f)
    PROVE  LastFixed(log, f) = Valued(log, Words(log, m))
  <1>1. m \in Full(log, f)
    BY NeedType DEF Full, IsLast
  <1>2. \A i \in Full(log, f) : i <= m
    BY FullType DEF IsLast
  <1>3. Full(log, f) \in SUBSET Nat
    BY FullType
  <1>4. Max(Full(log, f)) = m
    BY <1>1, <1>2, <1>3, MaxIs
  <1>5. Full(log, f) # {}
    BY <1>1
  <1>6. QED
    BY <1>4, <1>5 DEF LastFixed, Valued

(* Which commands a write completes. *)
LEMMA FullAfter ==
    ASSUME NEW log, NEW e, NEW longer, NEW n, Grown(log, e, longer, n), NEW f \in FixedPorts
    PROVE  /\ e.port # "data" => Full(longer, f) = Full(log, f)
           /\ e.port = "data" => \A i \in Commands(longer) :
                 i \notin Full(log, f) /\ i \in Full(longer, f) =>
                    /\ IsLast(Commands(log), i) /\ log[i].port = f
                    /\ Len(Words(log, i)) + 1 = Need(f)
           /\ Full(log, f) \subseteq Full(longer, f)
  <1> DEFINE C == Commands(log)
  <1>1. log \in Seq(Entry) /\ longer \in Seq(Entry) /\ Need(f) \in Nat \ {0}
    BY Ahead, LogGrows, NeedType
  <1>2. Commands(longer) = IF e.port \in AllPorts THEN C \cup {n} ELSE C
    BY LogGrows, SMTT(30)
  <1>3. \A i \in C : i \in 1 .. Len(log) /\ longer[i] = log[i]
    BY <1>1, Places, LogGrows
  <1>4. n \notin Full(longer, f)
    <2>1. Len(Words(longer, n)) = 0
      BY WordsAfter
    <2>2. QED
      BY <1>1, <2>1 DEF Full
  <1>5. ASSUME NEW i \in C
        PROVE  /\ i \in Full(log, f) <=> log[i].port = f /\ Len(Words(log, i)) >= Need(f)
               /\ i \in Full(longer, f) <=> log[i].port = f /\ Len(Words(longer, i)) >= Need(f)
    BY <1>2, <1>3 DEF Full
  <1>6. ASSUME NEW i \in C
        PROVE  /\ Len(Words(log, i)) \in Nat
               /\ Len(Words(longer, i)) =
                     IF e.port = "data" /\ IsLast(C, i)
                     THEN Len(Words(log, i)) + 1 ELSE Len(Words(log, i))
    <2>1. Len(Words(log, i)) \in Nat /\ Words(log, i) \in Seq(1 .. Len(log)) /\ Len(log) \in Nat
      BY <1>1, WordsType, Ahead
    <2>2. Len(Append(Words(log, i), n)) = Len(Words(log, i)) + 1
      BY <2>1, SeqGrows
    <2>3. Words(longer, i) =
              IF e.port = "data" /\ IsLast(C, i) THEN Append(Words(log, i), n) ELSE Words(log, i)
      BY WordsAfter
    <2>4. QED
      BY <2>1, <2>2, <2>3
  <1>7. Full(log, f) \subseteq C /\ Full(longer, f) \subseteq C
    <2>1. Full(log, f) \subseteq C /\ Full(longer, f) \subseteq Commands(longer)
      BY DEF Full
    <2>2. QED
      BY <1>2, <1>4, <2>1
  <1> HIDE DEF C
  <1>8. ASSUME e.port # "data" PROVE Full(longer, f) = Full(log, f)
    <2>1. \A i \in C : i \in Full(longer, f) <=> i \in Full(log, f)
      BY <1>5, <1>6, <1>8
    <2>2. QED
      BY <1>7, <2>1
  <1>9. ASSUME NEW i \in C, i \notin Full(log, f), i \in Full(longer, f)
        PROVE  IsLast(C, i) /\ log[i].port = f /\ Len(Words(log, i)) + 1 = Need(f)
    BY <1>1, <1>5, <1>6, <1>9
  <1>10. Full(log, f) \subseteq Full(longer, f)
    <2>1. \A i \in C : i \in Full(log, f) => i \in Full(longer, f)
      BY <1>1, <1>5, <1>6
    <2>2. QED
      BY <1>7, <2>1
  <1>11. QED
    BY <1>7, <1>8, <1>9, <1>10 DEF C

(* The texture words that a command has put at a slot, by their place in it. *)
Chosen(log, p, s, odd) ==
    {k \in 3 .. Len(p) :
        /\ k - 3 < 2 * log[p[2]].val
        /\ (k - 3) % 2 = odd
        /\ (log[p[1]].val \div 4 + (k - 3) \div 2) % TexSlots = s}

(* The next word of the command would go to that slot. *)
Lands(log, p, s, odd) ==
    /\ Len(p) >= 2
    /\ Len(p) - 2 < 2 * log[p[2]].val
    /\ (Len(p) - 2) % 2 = odd
    /\ (log[p[1]].val \div 4 + (Len(p) - 2) \div 2) % TexSlots = s

LEMMA PutIs ==
    ASSUME NEW log, NEW i, NEW s, NEW odd
    PROVE  Put(log, i, s, odd) = {Words(log, i)[k] : k \in Chosen(log, Words(log, i), s, odd)}
  BY DEF Put, Chosen

LEMMA PutAfter ==
    ASSUME NEW log, NEW e, NEW longer, NEW n, Grown(log, e, longer, n),
           NEW i \in Commands(log), NEW s, NEW odd
    PROVE  Put(longer, i, s, odd) =
              IF /\ e.port = "data" /\ IsLast(Commands(log), i)
                 /\ Lands(log, Words(log, i), s, odd)
              THEN Put(log, i, s, odd) \cup {n} ELSE Put(log, i, s, odd)
  <1> DEFINE p == Words(log, i)
             q == Words(longer, i)
             new == e.port = "data" /\ IsLast(Commands(log), i)
  <1>1. log \in Seq(Entry) /\ Len(log) \in Nat
    BY Ahead
  <1>2. p \in Seq(1 .. Len(log)) /\ Len(p) \in Nat
    BY <1>1, WordsType
  <1>3. q = IF new THEN Append(p, n) ELSE p
    BY WordsAfter
  <1>4. ASSUME NEW k \in 1 .. Len(p)
        PROVE  k \in 1 .. Len(q) /\ q[k] = p[k] /\ longer[q[k]] = log[p[k]]
    BY WordsStay
  <1>5. Len(q) = IF new THEN Len(p) + 1 ELSE Len(p)
    <2> HIDE DEF p, q
    <2>1. Len(Append(p, n)) = Len(p) + 1
      BY <1>1, <1>2, SeqGrows
    <2>2. QED
      BY <1>3, <2>1
  <1>6. new => q[Len(p) + 1] = n
    <2> HIDE DEF p, q
    <2>1. Append(p, n)[Len(p) + 1] = n
      BY <1>1, <1>2, SeqGrows
    <2>2. QED
      BY <1>3, <2>1
  <1> HIDE DEF p, q, new
  <1>7. Len(p) >= 2 => /\ longer[q[1]] = log[p[1]] /\ longer[q[2]] = log[p[2]]
    <2>1. Len(p) >= 2 => 1 \in 1 .. Len(p) /\ 2 \in 1 .. Len(p)
      BY <1>2
    <2>2. QED
      BY <1>4, <2>1
  <1>8. ASSUME NEW k \in 3 .. Len(p)
        PROVE  k \in Chosen(longer, q, s, odd) <=> k \in Chosen(log, p, s, odd)
    <2>1. k \in 1 .. Len(p) /\ Len(p) >= 2
      BY <1>2
    <2>2. k \in 3 .. Len(q)
      BY <1>2, <1>5
    <2>3. longer[q[1]] = log[p[1]] /\ longer[q[2]] = log[p[2]]
      BY <1>7, <2>1
    <2>4. QED
      BY <2>2, <2>3 DEF Chosen
  <1>9. ASSUME new
        PROVE  Len(p) + 1 \in Chosen(longer, q, s, odd) <=> Lands(log, p, s, odd)
    <2>1. CASE Len(p) >= 2
      <3>1. longer[q[1]] = log[p[1]] /\ longer[q[2]] = log[p[2]]
        BY <1>7, <2>1
      <3>2. Len(p) + 1 \in 3 .. Len(q) /\ Len(p) + 1 - 3 = Len(p) - 2
        BY <1>2, <1>5, <1>9, <2>1
      <3>3. QED
        BY <2>1, <3>1, <3>2 DEF Chosen, Lands
    <2>2. CASE ~ (Len(p) >= 2)
      <3>1. Len(p) + 1 \notin 3 .. Len(q)
        BY <1>2, <2>2
      <3>2. QED
        BY <2>2, <3>1 DEF Chosen, Lands
    <2>3. QED
      BY <2>1, <2>2
  <1>10. /\ Chosen(longer, q, s, odd) \subseteq 3 .. Len(q)
         /\ Chosen(log, p, s, odd) \subseteq 3 .. Len(p)
    BY DEF Chosen
  <1>11. Chosen(longer, q, s, odd) =
            IF new /\ Lands(log, p, s, odd)
            THEN Chosen(log, p, s, odd) \cup {Len(p) + 1} ELSE Chosen(log, p, s, odd)
    <2>1. \A k \in 3 .. Len(q) : k \in 3 .. Len(p) \/ (new /\ k = Len(p) + 1)
      BY <1>2, <1>5
    <2>2. \A k \in 3 .. Len(p) : k # Len(p) + 1
      BY <1>2
    <2>3. CASE new /\ Lands(log, p, s, odd)
      <3>1. Chosen(longer, q, s, odd) = Chosen(log, p, s, odd) \cup {Len(p) + 1}
        BY <1>8, <1>9, <1>10, <2>1, <2>3
      <3>2. QED
        BY <2>3, <3>1
    <2>4. CASE ~ (new /\ Lands(log, p, s, odd))
      <3>1. Chosen(longer, q, s, odd) = Chosen(log, p, s, odd)
        BY <1>8, <1>9, <1>10, <2>1, <2>2, <2>4
      <3>2. QED
        BY <2>4, <3>1
    <2>5. QED
      BY <2>3, <2>4
  <1>12. \A k \in Chosen(log, p, s, odd) : q[k] = p[k]
    <2>1. \A k \in Chosen(log, p, s, odd) : k \in 1 .. Len(p)
      BY <1>2, <1>10
    <2>2. QED
      BY <1>4, <2>1
  <1>13. /\ Put(longer, i, s, odd) = {q[k] : k \in Chosen(longer, q, s, odd)}
         /\ Put(log, i, s, odd) = {p[k] : k \in Chosen(log, p, s, odd)}
    BY PutIs DEF p, q
  <1>14. CASE new /\ Lands(log, p, s, odd)
    <2>1. Put(longer, i, s, odd) = Put(log, i, s, odd) \cup {n}
      BY <1>6, <1>11, <1>12, <1>13, <1>14
    <2>2. QED
      BY <1>14, <2>1 DEF new, p
  <1>15. CASE ~ (new /\ Lands(log, p, s, odd))
    <2>1. Put(longer, i, s, odd) = Put(log, i, s, odd)
      BY <1>11, <1>12, <1>13, <1>15
    <2>2. QED
      BY <1>15, <2>1 DEF new, p
  <1>16. QED
    BY <1>14, <1>15

(* All the words put at a slot. *)
Texes(log) == {i \in Commands(log) : log[i].port = "tex"}
AllPut(log, s, odd) == {0} \union UNION {Put(log, i, s, odd) : i \in Texes(log)}

LEMMA AllPutType ==
    ASSUME NEW log \in Seq(Entry), NEW s, NEW odd
    PROVE  /\ LastTex(log, s, odd) = Max(AllPut(log, s, odd))
           /\ AllPut(log, s, odd) \in SUBSET Nat
           /\ \A x \in AllPut(log, s, odd) : x <= Len(log)
           /\ LastTex(log, s, odd) \in Nat
  <1>1. LastTex(log, s, odd) = Max(AllPut(log, s, odd))
    BY DEF LastTex, AllPut, Texes
  <1>2. Len(log) \in Nat
    OBVIOUS
  <1>3. ASSUME NEW i PROVE Put(log, i, s, odd) \subseteq 1 .. Len(log)
    <2>1. \A k \in Chosen(log, Words(log, i), s, odd) : k \in 1 .. Len(Words(log, i))
      BY WordsType DEF Chosen
    <2>2. \A k \in Chosen(log, Words(log, i), s, odd) : Words(log, i)[k] \in 1 .. Len(log)
      BY <2>1, WordsType
    <2>3. QED
      BY <2>2, PutIs
  <1>4. AllPut(log, s, odd) \subseteq {0} \cup 1 .. Len(log)
    BY <1>3 DEF AllPut
  <1>5. AllPut(log, s, odd) \in SUBSET Nat /\ \A x \in AllPut(log, s, odd) : x <= Len(log)
    BY <1>2, <1>4
  <1>6. AllPut(log, s, odd) # {}
    BY DEF AllPut
  <1>7. Max(AllPut(log, s, odd)) \in Nat
    BY <1>2, <1>5, <1>6, MaxOf
  <1>8. QED
    BY <1>1, <1>5, <1>7

(* A word goes to a slot if the last command is about textures and has it land there. *)
Arrives(log, e, s, odd) ==
    /\ e.port = "data"
    /\ \E i \in Texes(log) : IsLast(Commands(log), i) /\ Lands(log, Words(log, i), s, odd)

LEMMA TexAfter ==
    ASSUME NEW log, NEW e, NEW longer, NEW n, Grown(log, e, longer, n), NEW s, NEW odd
    PROVE  LastTex(longer, s, odd) =
              IF Arrives(log, e, s, odd) THEN n ELSE LastTex(log, s, odd)
  <1>1. log \in Seq(Entry) /\ longer \in Seq(Entry) /\ n = Len(log) + 1 /\ Len(log) \in Nat
    BY Ahead, LogGrows
  <1>2. \A i \in Texes(log) : Put(longer, i, s, odd) =
              IF e.port = "data" /\ IsLast(Commands(log), i) /\ Lands(log, Words(log, i), s, odd)
              THEN Put(log, i, s, odd) \cup {n} ELSE Put(log, i, s, odd)
    BY PutAfter DEF Texes
  <1>3. Put(longer, n, s, odd) = {}
    <2>1. Len(Words(longer, n)) = 0
      BY WordsAfter
    <2>2. Chosen(longer, Words(longer, n), s, odd) = {}
      BY <2>1 DEF Chosen
    <2>3. QED
      BY <2>2, PutIs
  <1>4. /\ Texes(log) \subseteq Texes(longer)
        /\ Texes(longer) \subseteq Texes(log) \cup {n}
    <2>1. Commands(longer) = IF e.port \in AllPorts THEN Commands(log) \cup {n} ELSE Commands(log)
      BY LogGrows, SMTT(30)
    <2>2. \A i \in Commands(log) : longer[i] = log[i]
      BY <1>1, Places, LogGrows
    <2>3. QED
      BY <2>1, <2>2 DEF Texes
  <1>5. CASE Arrives(log, e, s, odd)
    <2>1. PICK i \in Texes(log) : n \in Put(longer, i, s, odd)
      BY <1>2, <1>5 DEF Arrives
    <2>2. n \in AllPut(longer, s, odd)
      BY <1>4, <2>1 DEF AllPut
    <2>3. \A x \in AllPut(longer, s, odd) : x <= n
      BY <1>1, LogGrows, AllPutType
    <2>4. Max(AllPut(longer, s, odd)) = n
      BY <1>1, <2>2, <2>3, AllPutType, MaxIs
    <2>5. LastTex(longer, s, odd) = n
      BY <1>1, <2>4, AllPutType
    <2>6. QED
      BY <1>5, <2>5
  <1>6. CASE ~ Arrives(log, e, s, odd)
    <2>1. \A i \in Texes(log) : Put(longer, i, s, odd) = Put(log, i, s, odd)
      BY <1>2, <1>6 DEF Arrives
    <2>2. AllPut(longer, s, odd) = AllPut(log, s, odd)
      BY <1>3, <1>4, <2>1 DEF AllPut
    <2>3. LastTex(longer, s, odd) = LastTex(log, s, odd)
      BY <1>1, <2>2, AllPutType
    <2>4. QED
      BY <1>6, <2>3
  <1>7. QED
    BY <1>5, <1>6

LEMMA LastCommand ==
    ASSUME NEW log \in Seq(Entry), NEW S \in SUBSET (1 .. Len(log)), S # {}
    PROVE  \E m \in S : IsLast(S, m)
  <1>1. S \in SUBSET Nat /\ Len(log) \in Nat /\ \A x \in S : x <= Len(log)
    OBVIOUS
  <1>2. QED
    BY <1>1, GreatestOf DEF IsLast

LEMMA LastIsOne ==
    ASSUME NEW l \in Nat, NEW S \in SUBSET (1 .. l), NEW a, NEW b, IsLast(S, a), IsLast(S, b)
    PROVE  a = b
  <1>1. a \in Nat /\ b \in Nat /\ a <= b /\ b <= a
    BY DEF IsLast
  <1>2. QED
    BY <1>1

(* What is no word says nothing. *)
LEMMA OtherSays ==
    ASSUME NEW log, NEW e, NEW longer, NEW n, Grown(log, e, longer, n), e.port # "data"
    PROVE  /\ \A f \in FixedPorts : LastFixed(longer, f) = LastFixed(log, f)
           /\ \A s, odd : LastTex(longer, s, odd) = LastTex(log, s, odd)
  <1>1. \A f \in FixedPorts : Full(longer, f) = Full(log, f)
    BY FullAfter
  <1>2. \A f \in FixedPorts : LastFixed(longer, f) = LastFixed(log, f)
    BY <1>1, FixedSame
  <1>3. \A s, odd : ~ Arrives(log, e, s, odd)
    BY DEF Arrives
  <1>4. \A s, odd : LastTex(longer, s, odd) = LastTex(log, s, odd)
    BY <1>3, TexAfter
  <1>5. QED
    BY <1>2, <1>4

(* Nor does a word that belongs to no command. *)
LEMMA StraySays ==
    ASSUME NEW log, NEW e, NEW longer, NEW n, Grown(log, e, longer, n), e.port = "data",
           Commands(log) = {}
    PROVE  /\ Commands(longer) = {}
           /\ \A f \in FixedPorts : LastFixed(longer, f) = LastFixed(log, f)
           /\ \A s, odd : LastTex(longer, s, odd) = LastTex(log, s, odd)
  <1>1. Commands(longer) = {}
    <2>1. "data" \notin AllPorts
      BY DEF AllPorts, FixedPorts, UploadPorts
    <2>2. Commands(longer) = IF e.port \in AllPorts THEN Commands(log) \cup {n} ELSE Commands(log)
      BY LogGrows, SMTT(30)
    <2>3. QED
      BY <2>1, <2>2
  <1>2. \A f \in FixedPorts : Full(longer, f) = Full(log, f)
    BY <1>1 DEF Full
  <1>3. \A f \in FixedPorts : LastFixed(longer, f) = LastFixed(log, f)
    BY <1>2, FixedSame
  <1>4. \A s, odd : ~ Arrives(log, e, s, odd)
    BY DEF Arrives, Texes
  <1>5. \A s, odd : LastTex(longer, s, odd) = LastTex(log, s, odd)
    BY <1>4, TexAfter
  <1>6. QED
    BY <1>1, <1>3, <1>5

LEMMA FunIsSeq ==
    ASSUME NEW T, NEW l \in Nat, NEW s \in [1 .. l -> T]
    PROVE  s \in Seq(T) /\ Len(s) = l
  OBVIOUS

LEMMA ValuesGrow ==
    ASSUME NEW log, NEW e, NEW longer, NEW n, Grown(log, e, longer, n),
           NEW p \in Seq(1 .. Len(log))
    PROVE  /\ Valued(longer, Append(p, n)) = Append(Valued(log, p), Word(n, e.val))
           /\ Valued(log, p) \in Seq([at : Nat, val : Nat])
           /\ Len(Valued(log, p)) = Len(p)
           /\ \A k \in 1 .. Len(p) : Valued(log, p)[k] = Word(p[k], log[p[k]].val)
  <1> DEFINE q == Append(p, n)
             v == Valued(log, p)
             w == Word(n, e.val)
             T == [at : Nat, val : Nat]
  <1>1. log \in Seq(Entry) /\ Len(log) \in Nat /\ n \in Nat /\ Len(p) \in Nat
    BY Ahead
  <1>2. \A k \in 1 .. Len(p) : p[k] \in 1 .. Len(log)
    OBVIOUS
  <1>3. Len(q) = Len(p) + 1 /\ q[Len(p) + 1] = n /\ \A k \in 1 .. Len(p) : q[k] = p[k]
    BY <1>1, SeqGrows
  <1>4. e.val \in Nat
    BY DEF Grown, Entry
  <1>5. ASSUME NEW k \in 1 .. Len(p) PROVE Word(p[k], log[p[k]].val) \in T
    <2>1. p[k] \in Nat /\ log[p[k]].val \in Nat
      BY <1>1, <1>2, Places
    <2>2. QED
      BY <2>1 DEF Word
  <1>6. v \in [1 .. Len(p) -> T]
    BY <1>5 DEF Valued
  <1>7. v \in Seq(T) /\ Len(v) = Len(p)
    <2> HIDE DEF v, T
    <2>1. QED
      BY <1>1, <1>6
  <1>8. w \in T
    BY <1>1, <1>4 DEF Word
  <1>9. \A k \in 1 .. Len(p) : v[k] = Word(p[k], log[p[k]].val)
    BY DEF Valued
  <1>10. \A k \in 1 .. Len(p) : longer[p[k]] = log[p[k]]
    BY <1>2, LogGrows
  <1>11. longer[n] = e
    BY LogGrows
  <1> HIDE DEF q, v, w, T
  <1>12. /\ Append(v, w) \in Seq(T) /\ Len(Append(v, w)) = Len(p) + 1
         /\ \A k \in 1 .. Len(p) : Append(v, w)[k] = v[k]
         /\ Append(v, w)[Len(p) + 1] = w
    BY <1>1, <1>7, <1>8
  <1>13. Valued(longer, q) = [k \in 1 .. Len(p) + 1 |-> Word(q[k], longer[q[k]].val)]
    BY <1>3 DEF Valued
  <1>14. ASSUME NEW k \in 1 .. Len(p) + 1
         PROVE  Append(v, w)[k] = Word(q[k], longer[q[k]].val)
    <2>1. CASE k \in 1 .. Len(p)
      BY <1>3, <1>9, <1>10, <1>12, <2>1
    <2>2. CASE k = Len(p) + 1
      BY <1>3, <1>11, <1>12, <2>2 DEF w
    <2>3. k \in 1 .. Len(p) \/ k = Len(p) + 1
      BY <1>1
    <2>4. QED
      BY <2>1, <2>2, <2>3
  <1>15. \A k \in 1 .. Len(p) + 1 :
            Valued(longer, q)[k] = Append(v, w)[k] /\ Append(v, w)[k] \in T
    BY <1>12, <1>13, <1>14
  <1>16. Valued(longer, q) = Append(v, w)
    <2>1. Valued(longer, q) \in [1 .. Len(p) + 1 -> T]
      BY <1>13, <1>15
    <2>2. Valued(longer, q) \in Seq(T) /\ Len(Valued(longer, q)) = Len(p) + 1
      <3>1. Len(p) + 1 \in Nat
        BY <1>1
      <3>2. QED
        BY <2>1, <3>1, FunIsSeq
    <2>3. QED
      BY <1>12, <1>15, <2>2, SeqEqual
  <1>17. QED
    BY <1>7, <1>9, <1>16 DEF q, v, w, T

(* What a word says after command m. *)
LEMMA WordSays ==
    ASSUME NEW log, NEW e, NEW longer, NEW n, Grown(log, e, longer, n), e.port = "data",
           NEW m, IsLast(Commands(log), m)
    PROVE  /\ Commands(longer) = Commands(log)
           /\ longer[m] = log[m]
           /\ Words(longer, m) = Append(Words(log, m), n)
           /\ \A f \in FixedPorts : LastFixed(longer, f) =
                 IF f = log[m].port /\ Len(Words(log, m)) + 1 = Need(f)
                 THEN Valued(longer, Words(longer, m)) ELSE LastFixed(log, f)
           /\ \A s, odd : LastTex(longer, s, odd) =
                 IF log[m].port = "tex" /\ Lands(log, Words(log, m), s, odd)
                 THEN n ELSE LastTex(log, s, odd)
  <1>1. log \in Seq(Entry) /\ longer \in Seq(Entry) /\ Len(log) \in Nat
    BY Ahead, LogGrows
  <1>2. Commands(log) \in SUBSET (1 .. Len(log)) /\ m \in Commands(log)
    BY <1>1, Places DEF IsLast
  <1>3. Commands(longer) = Commands(log)
    <2>1. "data" \notin AllPorts
      BY DEF AllPorts, FixedPorts, UploadPorts
    <2>2. Commands(longer) = IF e.port \in AllPorts THEN Commands(log) \cup {n} ELSE Commands(log)
      BY LogGrows, SMTT(30)
    <2>3. QED
      BY <2>1, <2>2
  <1>4. longer[m] = log[m]
    BY <1>2, LogGrows
  <1>5. Words(longer, m) = Append(Words(log, m), n)
    BY <1>2, WordsAfter
  <1>6. Len(Words(longer, m)) = Len(Words(log, m)) + 1 /\ Len(Words(log, m)) \in Nat
    BY <1>1, <1>5, WordsType, SeqGrows
  <1>7. ASSUME NEW i, IsLast(Commands(log), i) PROVE i = m
    BY <1>1, <1>2, <1>7, LastIsOne
  <1>8. ASSUME NEW f \in FixedPorts
        PROVE  LastFixed(longer, f) =
                 IF f = log[m].port /\ Len(Words(log, m)) + 1 = Need(f)
                 THEN Valued(longer, Words(longer, m)) ELSE LastFixed(log, f)
    <2>1. CASE f = log[m].port /\ Len(Words(log, m)) + 1 = Need(f)
      <3>1. LastFixed(longer, f) = Valued(longer, Words(longer, m))
        BY <1>1, <1>3, <1>4, <1>6, <2>1, FixedNew
      <3>2. QED
        BY <2>1, <3>1
    <2>2. CASE ~ (f = log[m].port /\ Len(Words(log, m)) + 1 = Need(f))
      <3>1. \A i \in Commands(longer) : i \in Full(longer, f) => i \in Full(log, f)
        BY <1>7, <2>2, FullAfter
      <3>2. Full(longer, f) = Full(log, f)
        BY <3>1, FullAfter DEF Full
      <3>3. QED
        BY <2>2, <3>2, FixedSame
    <2>3. QED
      BY <2>1, <2>2
  <1>9. ASSUME NEW s, NEW odd
        PROVE  Arrives(log, e, s, odd)
                  <=> log[m].port = "tex" /\ Lands(log, Words(log, m), s, odd)
    BY <1>2, <1>7 DEF Arrives, Texes
  <1>10. \A s, odd : LastTex(longer, s, odd) =
                 IF log[m].port = "tex" /\ Lands(log, Words(log, m), s, odd)
                 THEN n ELSE LastTex(log, s, odd)
    BY <1>9, TexAfter
  <1>11. QED
    BY <1>3, <1>4, <1>5, <1>8, <1>10

-----------------------------------------------------------------------------
(* The settings parser.  What it holds is read off the words that the last  *)
(* command has had.                                                         *)
WordType == [at : Nat, val : Nat]

ReadsFixed(c, f, p, v) ==
    IF c.cmd = f THEN c.got = v /\ Len(p) < Need(f) ELSE Len(p) >= Need(f)

TexOver(c, p, v) == c.cmd = "none" /\ Len(p) >= 2 /\ Len(p) >= 2 + 2 * v[2].val

TexBegins(c, p, v) ==
    /\ c.cmd = "tex" /\ Len(p) < 2
    /\ c.got = v /\ c.seen = 0
    /\ Len(p) = 1 => c.index = v[1].val \div 4

TexGoesOn(c, p, v) ==
    /\ c.cmd = "tex" /\ Len(p) >= 2
    /\ c.got = <<v[1], v[2]>>
    /\ Len(p) = 2 + c.seen /\ c.seen < 2 * v[2].val
    /\ c.index % TexSlots = (v[1].val \div 4 + c.seen \div 2) % TexSlots

ReadsTex(c, p, v) == TexOver(c, p, v) \/ TexBegins(c, p, v) \/ TexGoesOn(c, p, v)

Reads(c, f, p, v) ==
    /\ c.cmd \in {f, "none"}
    /\ f \in FixedPorts => ReadsFixed(c, f, p, v)
    /\ f = "tex" => ReadsTex(c, p, v)

CaptureOK(c) ==
    /\ c = [cmd |-> c.cmd, got |-> c.got, index |-> c.index, seen |-> c.seen]
    /\ c.cmd \in FixedPorts \union {"tex", "none"}
    /\ c.got \in Seq(WordType)
    /\ c.index \in Nat /\ c.seen \in Nat

SettingsOK(s) ==
    /\ s = [fixed |-> s.fixed, param |-> s.param, coef |-> s.coef, projection |-> s.projection]
    /\ s.fixed \in [FixedPorts -> Seq(WordType)]
    /\ s.param \in [0 .. TexSlots - 1 -> Nat]
    /\ s.coef \in [0 .. TexSlots - 1 -> Nat]
    /\ s.projection \in BOOLEAN

Captures(c, log) ==
    /\ Commands(log) = {} => c.cmd = "none"
    /\ \A m : IsLast(Commands(log), m) =>
          Reads(c, log[m].port, Words(log, m), Valued(log, Words(log, m)))

Says(s, log) ==
    /\ \A f \in FixedPorts : s.fixed[f] = LastFixed(log, f)
    /\ \A i \in 0 .. TexSlots - 1 : s.param[i] = LastTex(log, i, 0) /\ s.coef[i] = LastTex(log, i, 1)
    /\ s.projection = Usable(s.fixed)

SettingsInv ==
    /\ writes \in Seq(Entry)
    /\ CaptureOK(capture)
    /\ SettingsOK(settings)
    /\ Captures(capture, writes)
    /\ Says(settings, writes)

LEMMA Names ==
    /\ "none" \notin AllPorts /\ "tex" \notin FixedPorts /\ "none" \notin FixedPorts
    /\ FixedPorts \subseteq AllPorts /\ "tex" \in AllPorts /\ "data" \notin AllPorts
    /\ "tex" # "none"
  BY DEF AllPorts, FixedPorts, UploadPorts

LEMMA Sizes ==
    /\ TexSlots \in Nat \ {0} /\ LightLen \in Nat \ {0}
    /\ WindowLen \in Nat /\ WindowLen >= 2
    /\ Ports \subseteq AllPorts /\ Values \subseteq Nat
  BY PortsAssumption

LEMMA NoCaptureOK == CaptureOK(NoCapture) /\ NoCapture.cmd = "none"
  BY DEF CaptureOK, NoCapture

LEMMA StartReads ==
    ASSUME NEW f \in AllPorts, NEW p, NEW v, Len(p) = 0, v = <<>>
    PROVE  CaptureOK(CaptureStart(f)) /\ Reads(CaptureStart(f), f, p, v)
  <1> DEFINE c == CaptureStart(f)
  <1>1. CASE f \in FixedPorts \union {"tex"}
    <2>1. c = [cmd |-> f, got |-> <<>>, index |-> 0, seen |-> 0]
      BY <1>1 DEF CaptureStart, NoCapture
    <2> HIDE DEF c
    <2>2. CaptureOK(c)
      BY <1>1, <2>1 DEF CaptureOK
    <2>3. f \in FixedPorts => ReadsFixed(c, f, p, v)
      BY <2>1, NeedType DEF ReadsFixed
    <2>4. f = "tex" => TexBegins(c, p, v)
      BY <2>1 DEF TexBegins
    <2>5. QED
      BY <2>1, <2>2, <2>3, <2>4 DEF c, Reads, ReadsTex
  <1>2. CASE f \notin FixedPorts \union {"tex"}
    <2>1. c = NoCapture
      BY <1>2 DEF CaptureStart
    <2> HIDE DEF c
    <2>2. QED
      BY <1>2, <2>1, NoCaptureOK DEF c, Reads
  <1>3. QED
    BY <1>1, <1>2

LEMMA CommandGrows ==
    ASSUME NEW f \in AllPorts \union {"object", "data"}, NEW v \in Nat, writes \in Seq(Entry),
           writes' = Append(writes, [port |-> f, val |-> v])
    PROVE  Grown(writes, [port |-> f, val |-> v], writes', Here)
  BY DEF Grown, Entry, Here

LEMMA StartSettings ==
    ASSUME SettingsInv, NEW f \in Ports, CommandPort(f)
    PROVE  SettingsInv'
  <1> DEFINE e == [port |-> f, val |-> 0]
  <1>1. f \in AllPorts /\ f # "data"
    BY Sizes, Names
  <1>2. Grown(writes, e, writes', Here)
    BY <1>1, CommandGrows DEF SettingsInv, CommandPort
  <1>3. e.port = f
    OBVIOUS
  <1> HIDE DEF e
  <1>4. writes' \in Seq(Entry) /\ writes'[Here] = e /\ writes \in Seq(Entry) /\ Here \in Nat
    BY <1>2, LogGrows, Ahead
  <1>5. Commands(writes') = Commands(writes) \cup {Here}
    <2>1. Commands(writes')
            = IF e.port \in AllPorts THEN Commands(writes) \cup {Here} ELSE Commands(writes)
      BY <1>2, LogGrows, SMTT(30)
    <2>2. QED
      BY <1>1, <1>3, <2>1
  <1>6. ASSUME NEW m, IsLast(Commands(writes'), m) PROVE m = Here
    <2>1. m \in Commands(writes') /\ Here <= m
      BY <1>5, <1>6 DEF IsLast
    <2>2. CASE m \in Commands(writes)
      <3>1. m \in Nat /\ m < Here
        BY <1>2, <1>4, <2>2, Places, Ahead
      <3>2. QED
        BY <1>4, <2>1, <3>1
    <2>3. QED
      BY <1>5, <2>1, <2>2
  <1>7. Words(writes', Here) = <<>>
    BY <1>2, WordsAfter
  <1>8. Valued(writes', <<>>) = <<>> /\ Len(<<>>) = 0
    BY DEF Valued
  <1>9. capture' = CaptureStart(f) /\ settings' = settings
    BY DEF CommandPort
  <1>10. CaptureOK(capture') /\ Reads(capture', f, <<>>, <<>>)
    BY <1>1, <1>8, <1>9, StartReads
  <1>11. Captures(capture', writes')
    BY <1>3, <1>4, <1>5, <1>6, <1>7, <1>8, <1>10 DEF Captures
  <1>12. Says(settings', writes')
    <2>1. e.port # "data"
      BY <1>1, <1>3
    <2>2. /\ \A g \in FixedPorts : LastFixed(writes', g) = LastFixed(writes, g)
          /\ \A s, odd : LastTex(writes', s, odd) = LastTex(writes, s, odd)
      BY <1>2, <2>1, OtherSays
    <2>3. QED
      BY <1>9, <2>2 DEF SettingsInv, Says
  <1>13. QED
    BY <1>4, <1>9, <1>10, <1>11, <1>12 DEF SettingsInv

LEMMA ObjectSettings ==
    ASSUME SettingsInv, ObjectPort
    PROVE  SettingsInv'
  <1> DEFINE e == [port |-> "object", val |-> 0]
  <1>1. Grown(writes, e, writes', Here)
    BY CommandGrows DEF SettingsInv, ObjectPort
  <1>2. e.port # "data" /\ e.port \notin AllPorts
    BY DEF AllPorts, FixedPorts, UploadPorts
  <1> HIDE DEF e
  <1>3. writes' \in Seq(Entry) /\ writes \in Seq(Entry) /\ Len(writes) \in Nat
    BY <1>1, LogGrows, Ahead
  <1>4. Commands(writes') = Commands(writes)
    <2>1. Commands(writes')
            = IF e.port \in AllPorts THEN Commands(writes) \cup {Here} ELSE Commands(writes)
      BY <1>1, LogGrows, SMTT(30)
    <2>2. QED
      BY <1>2, <2>1
  <1>5. capture' = capture /\ settings' = settings
    BY DEF ObjectPort
  <1>6. ASSUME NEW m, IsLast(Commands(writes), m)
        PROVE  /\ writes'[m] = writes[m] /\ Words(writes', m) = Words(writes, m)
               /\ Valued(writes', Words(writes, m)) = Valued(writes, Words(writes, m))
    <2> DEFINE p == Words(writes, m)
    <2>1. m \in Commands(writes) /\ m \in 1 .. Len(writes)
      BY <1>3, <1>6, Places DEF IsLast
    <2>2. writes'[m] = writes[m]
      BY <1>1, <2>1, LogGrows
    <2>3. Words(writes', m) = p
      BY <1>1, <1>2, <2>1, WordsAfter
    <2>4. \A k \in 1 .. Len(p) : writes'[p[k]] = writes[p[k]]
      BY <1>1, <1>3, WordsType, LogGrows
    <2> HIDE DEF p
    <2>5. Valued(writes', p) = Valued(writes, p)
      BY <2>4 DEF Valued
    <2>6. QED
      BY <2>2, <2>3, <2>5 DEF p
  <1>7. Captures(capture', writes')
    BY <1>4, <1>5, <1>6 DEF SettingsInv, Captures
  <1>8. Says(settings', writes')
    <2>1. /\ \A g \in FixedPorts : LastFixed(writes', g) = LastFixed(writes, g)
          /\ \A s, odd : LastTex(writes', s, odd) = LastTex(writes, s, odd)
      BY <1>1, <1>2, OtherSays
    <2>2. QED
      BY <1>5, <2>1 DEF SettingsInv, Says
  <1>9. QED
    BY <1>3, <1>5, <1>7, <1>8 DEF SettingsInv

LEMMA InitSettings == Init => SettingsInv
  <1> SUFFICES ASSUME Init PROVE SettingsInv
    OBVIOUS
  <1>1. writes = <<>> /\ writes \in Seq(Entry)
    BY DEF Init
  <1>2. Commands(writes) = {} /\ Texes(writes) = {} /\ \A f : Full(writes, f) = {}
    BY <1>1 DEF Commands, Texes, Full
  <1>3. /\ settings.fixed = DefaultFixed /\ settings.param = NoTex /\ settings.coef = NoTex
        /\ settings.projection = FALSE
        /\ settings = [fixed |-> DefaultFixed, param |-> NoTex, coef |-> NoTex,
                       projection |-> FALSE]
    BY DEF Init
  <1>4. DefaultFixed \in [FixedPorts -> Seq(WordType)]
    <2>1. ASSUME NEW f \in FixedPorts
          PROVE  [i \in 1 .. Need(f) |-> Word(0, Default(f, i))] \in Seq(WordType)
      <3>1. Need(f) \in Nat
        BY NeedType
      <3>2. \A i \in 1 .. Need(f) : Word(0, Default(f, i)) \in WordType
        BY DEF Word, Default, WordType
      <3>3. [i \in 1 .. Need(f) |-> Word(0, Default(f, i))] \in [1 .. Need(f) -> WordType]
        BY <3>2
      <3>4. QED
        BY <3>1, <3>3, FunIsSeq
    <2>2. QED
      BY <2>1 DEF DefaultFixed
  <1>5. SettingsOK(settings)
    BY <1>3, <1>4, Sizes DEF SettingsOK, NoTex
  <1>6. CaptureOK(capture) /\ Captures(capture, writes)
    BY <1>2, NoCaptureOK DEF Init, Captures, IsLast
  <1>7. \A s, odd : LastTex(writes, s, odd) = 0
    <2>1. ASSUME NEW s, NEW odd PROVE LastTex(writes, s, odd) = 0
      <3>1. AllPut(writes, s, odd) = {0}
        BY <1>2 DEF AllPut
      <3>2. Max({0}) = 0
        BY MaxIs
      <3>3. QED
        BY <1>1, <3>1, <3>2, AllPutType
    <2>2. QED
      BY <2>1
  <1>8. \A i \in 0 .. TexSlots - 1 :
            settings.param[i] = LastTex(writes, i, 0) /\ settings.coef[i] = LastTex(writes, i, 1)
    BY <1>3, <1>7 DEF NoTex
  <1>9. Usable(DefaultFixed) = FALSE
    <2>1. \A i \in 1 .. 2 : i \in 1 .. WindowLen
      BY Sizes
    <2>2. \A i \in 1 .. 2 : DefaultFixed["window"][i].val = 0
      BY <2>1 DEF DefaultFixed, FixedPorts, Need, Default, Word
    <2>3. QED
      BY <2>2 DEF Usable
  <1>10. \A f \in FixedPorts : settings.fixed[f] = LastFixed(writes, f)
    BY <1>2, <1>3 DEF LastFixed
  <1>11. Says(settings, writes)
    BY <1>3, <1>8, <1>9, <1>10 DEF Says
  <1>12. QED
    BY <1>1, <1>5, <1>6, <1>11 DEF SettingsInv

(* Arithmetic of the slots. *)
LEMMA Division ==
    ASSUME NEW m \in Nat \ {0}, NEW a \in Nat
    PROVE  a = m * (a \div m) + (a % m) /\ a \div m \in Nat /\ a % m \in 0 .. m - 1
  BY Z3

LEMMA DivisionUnique ==
    ASSUME NEW m \in Nat \ {0}, NEW q \in Nat, NEW r \in 0 .. m - 1
    PROVE  (m * q + r) % m = r /\ (m * q + r) \div m = q
  BY Z3

LEMMA NextRemainder ==
    ASSUME NEW m \in Nat \ {0}, NEW a \in Nat
    PROVE  (a + 1) % m = IF (a % m) + 1 = m THEN 0 ELSE (a % m) + 1
  <1> DEFINE q == a \div m
             r == a % m
  <1>1. a = m * q + r /\ q \in Nat /\ r \in 0 .. m - 1
    BY Division
  <1> HIDE DEF q, r
  <1>2. CASE r + 1 = m
    <2>1. a + 1 = m * (q + 1) + 0
      BY <1>1, <1>2
    <2>2. (a + 1) % m = 0
      BY <2>1, <1>1, DivisionUnique
    <2>3. QED
      BY <2>2, <1>2 DEF r
  <1>3. CASE r + 1 # m
    <2>1. a + 1 = m * q + (r + 1) /\ r + 1 \in 0 .. m - 1
      BY <1>1, <1>3
    <2>2. (a + 1) % m = r + 1
      BY <2>1, <1>1, DivisionUnique
    <2>3. QED
      BY <2>2, <1>3 DEF r
  <1>4. QED
    BY <1>2, <1>3

LEMMA RemainderOnce ==
    ASSUME NEW m \in Nat \ {0}, NEW a \in Nat
    PROVE  a % m \in 0 .. m - 1 /\ (a % m) % m = a % m
  <1> DEFINE r == a % m
  <1>1. r \in 0 .. m - 1
    BY Division
  <1> HIDE DEF r
  <1>2. r % m = r
    BY <1>1
  <1>3. QED
    BY <1>1, <1>2 DEF r

LEMMA Halves ==
    ASSUME NEW s \in Nat
    PROVE  /\ s \div 2 \in Nat /\ s % 2 \in {0, 1}
           /\ s % 2 = 1 => (s + 1) \div 2 = s \div 2 + 1
           /\ s % 2 = 0 => (s + 1) \div 2 = s \div 2
  OBVIOUS

(* The slot of the next word, after a parameter and after a coefficient. *)
LEMMA NextSlot ==
    ASSUME NEW a \in Nat, NEW s \in Nat, NEW x \in Nat,
           x % TexSlots = (a + s \div 2) % TexSlots
    PROVE  /\ x % TexSlots \in 0 .. TexSlots - 1
           /\ (x + 1) % TexSlots \in Nat
           /\ s % 2 = 1 => ((x + 1) % TexSlots) % TexSlots = (a + (s + 1) \div 2) % TexSlots
           /\ s % 2 # 1 => x % TexSlots = (a + (s + 1) \div 2) % TexSlots
  <1> DEFINE T == TexSlots
             h == s \div 2
             y == a + h
  <1>1. T \in Nat \ {0}
    BY Sizes
  <1>2. h \in Nat /\ y \in Nat
    BY Halves
  <1>3. s % 2 = 1 => a + (s + 1) \div 2 = y + 1
    <2>1. s % 2 = 1 => (s + 1) \div 2 = h + 1
      BY Halves
    <2> HIDE DEF h
    <2>2. QED
      BY <1>2, <2>1
  <1>4. s % 2 # 1 => (s + 1) \div 2 = h
    BY Halves
  <1> HIDE DEF T, h
  <1>5. x % T = y % T
    BY DEF T, h
  <1> HIDE DEF y
  <1>6. (x + 1) % T = (y + 1) % T
    <2>1. (x + 1) % T = IF (x % T) + 1 = T THEN 0 ELSE (x % T) + 1
      BY <1>1, NextRemainder, Zenon
    <2>2. (y + 1) % T = IF (y % T) + 1 = T THEN 0 ELSE (y % T) + 1
      BY <1>1, <1>2, NextRemainder, Zenon
    <2>3. QED
      BY <1>5, <2>1, <2>2, Zenon
  <1>7. x % T \in 0 .. T - 1 /\ (x + 1) % T \in 0 .. T - 1 /\ ((x + 1) % T) % T = (x + 1) % T
    <2>1. x + 1 \in Nat
      OBVIOUS
    <2>2. x % T \in 0 .. T - 1
      BY <1>1, RemainderOnce, Zenon
    <2>3. (x + 1) % T \in 0 .. T - 1 /\ ((x + 1) % T) % T = (x + 1) % T
      BY <1>1, <2>1, RemainderOnce, Zenon
    <2>4. QED
      BY <2>2, <2>3
  <1>8. QED
    BY <1>1, <1>3, <1>4, <1>5, <1>6, <1>7 DEF T, y, h

(* The settings after a word, and how the last command reads with it. *)
LEMMA SaysAfter ==
    ASSUME NEW log, NEW e, NEW longer, NEW n, Grown(log, e, longer, n), e.port = "data",
           NEW m, IsLast(Commands(log), m), NEW c, CaptureOK(c), NEW s, SettingsOK(s),
           Reads(c, log[m].port, Append(Words(log, m), n),
                 Append(Valued(log, Words(log, m)), Word(n, e.val))),
           \A f \in FixedPorts : s.fixed[f] =
              IF f = log[m].port /\ Len(Words(log, m)) + 1 = Need(f)
              THEN Append(Valued(log, Words(log, m)), Word(n, e.val)) ELSE LastFixed(log, f),
           \A i \in 0 .. TexSlots - 1 :
              /\ s.param[i] = IF log[m].port = "tex" /\ Lands(log, Words(log, m), i, 0)
                              THEN n ELSE LastTex(log, i, 0)
              /\ s.coef[i] = IF log[m].port = "tex" /\ Lands(log, Words(log, m), i, 1)
                             THEN n ELSE LastTex(log, i, 1),
           s.projection = Usable(s.fixed)
    PROVE  Captures(c, longer) /\ Says(s, longer)
  <1> DEFINE p == Words(log, m)
             q == Append(p, n)
  <1>1. log \in Seq(Entry) /\ Len(log) \in Nat
    BY Ahead
  <1>2. p \in Seq(1 .. Len(log))
    BY <1>1, WordsType
  <1>3. Valued(longer, q) = Append(Valued(log, p), Word(n, e.val))
    BY <1>2, ValuesGrow
  <1>4. Commands(longer) = Commands(log) /\ longer[m] = log[m] /\ Words(longer, m) = q
    BY WordSays
  <1>5. \A f \in FixedPorts : LastFixed(longer, f) =
           IF f = log[m].port /\ Len(p) + 1 = Need(f)
           THEN Valued(longer, q) ELSE LastFixed(log, f)
    <2>1. \A f \in FixedPorts : LastFixed(longer, f) =
             IF f = log[m].port /\ Len(p) + 1 = Need(f)
             THEN Valued(longer, Words(longer, m)) ELSE LastFixed(log, f)
      BY WordSays
    <2> HIDE DEF p, q
    <2>2. QED
      BY <1>4, <2>1
  <1>6. \A i, odd : LastTex(longer, i, odd) =
           IF log[m].port = "tex" /\ Lands(log, p, i, odd) THEN n ELSE LastTex(log, i, odd)
    BY WordSays
  <1>7. Commands(log) \in SUBSET (1 .. Len(log))
    BY <1>1, Places
  <1>8. \A k : IsLast(Commands(longer), k) => k = m
    BY <1>1, <1>4, <1>7, LastIsOne
  <1> HIDE DEF p, q
  <1>9. Captures(c, longer)
    <2>1. Commands(longer) # {}
      BY <1>4 DEF IsLast
    <2>2. Reads(c, log[m].port, q, Valued(longer, q))
      BY <1>3 DEF p, q
    <2>3. QED
      BY <1>4, <1>8, <2>1, <2>2 DEF Captures
  <1>10. \A f \in FixedPorts : s.fixed[f] = LastFixed(longer, f)
    BY <1>3, <1>5 DEF p
  <1>11. \A i \in 0 .. TexSlots - 1 :
            s.param[i] = LastTex(longer, i, 0) /\ s.coef[i] = LastTex(longer, i, 1)
    BY <1>6 DEF p
  <1>12. QED
    BY <1>9, <1>10, <1>11 DEF Says

(* How a capture reads with one more word, for each of its branches. *)
LEMMA MoreWords ==
    ASSUME NEW l \in Nat, NEW p \in Seq(1 .. l), NEW v \in Seq(WordType), Len(v) = Len(p),
           NEW n, NEW w \in WordType
    PROVE  /\ Len(p) \in Nat
           /\ Len(Append(p, n)) = Len(p) + 1
           /\ Append(v, w) \in Seq(WordType) /\ Len(Append(v, w)) = Len(p) + 1
           /\ \A k \in 1 .. Len(p) : Append(v, w)[k] = v[k] /\ v[k].val \in Nat /\ v[k] \in WordType
           /\ Append(v, w)[Len(p) + 1] = w
  <1>1. Len(p) \in Nat /\ Len(Append(p, n)) = Len(p) + 1
    BY SeqGrows
  <1>2. \A k \in 1 .. Len(p) : v[k] \in WordType
    OBVIOUS
  <1>3. \A k \in 1 .. Len(p) : v[k].val \in Nat
    BY <1>2 DEF WordType
  <1>4. /\ Append(v, w) \in Seq(WordType) /\ Len(Append(v, w)) = Len(p) + 1
        /\ Append(v, w)[Len(p) + 1] = w
    OBVIOUS
  <1>5. \A k \in 1 .. Len(p) : Append(v, w)[k] = v[k]
    OBVIOUS
  <1>6. QED
    BY <1>1, <1>2, <1>3, <1>4, <1>5

LEMMA NothingReads ==
    ASSUME NEW l \in Nat, NEW p \in Seq(1 .. l), NEW v \in Seq(WordType), Len(v) = Len(p),
           NEW n, NEW w \in WordType, NEW c, NEW f, c.cmd = "none", Reads(c, f, p, v)
    PROVE  /\ Reads(c, f, Append(p, n), Append(v, w))
           /\ f \in FixedPorts => Len(p) >= Need(f)
           /\ f = "tex" => Len(p) >= 2 /\ Len(p) - 2 >= 2 * v[2].val
  <1> DEFINE q == Append(p, n)
             u == Append(v, w)
  <1>1. /\ Len(p) \in Nat /\ Len(q) = Len(p) + 1
        /\ \A k \in 1 .. Len(p) : u[k] = v[k] /\ v[k].val \in Nat
    BY MoreWords
  <1> HIDE DEF q, u
  <1>2. ASSUME f \in FixedPorts PROVE Len(p) >= Need(f) /\ ReadsFixed(c, f, q, u)
    <2>1. Len(p) >= Need(f) /\ c.cmd # f
      BY <1>2, Names DEF Reads, ReadsFixed
    <2>2. QED
      BY <1>1, <1>2, <2>1, NeedType DEF ReadsFixed
  <1>3. ASSUME f = "tex"
        PROVE  TexOver(c, q, u) /\ Len(p) >= 2 /\ Len(p) - 2 >= 2 * v[2].val
    <2>1. Len(p) >= 2 /\ Len(p) >= 2 + 2 * v[2].val
      BY <1>3, Names DEF Reads, ReadsTex, TexOver, TexBegins, TexGoesOn
    <2>2. u[2] = v[2] /\ v[2].val \in Nat
      BY <1>1, <2>1
    <2>3. QED
      BY <1>1, <2>1, <2>2 DEF TexOver
  <1>4. QED
    BY <1>2, <1>3 DEF Reads, ReadsTex, q, u

WithGot(c, u) == [c EXCEPT !.got = u]

LEMMA FixedReads ==
    ASSUME NEW l \in Nat, NEW p \in Seq(1 .. l), NEW v \in Seq(WordType), Len(v) = Len(p),
           NEW n, NEW w \in WordType, NEW c, NEW f, c.cmd \in FixedPorts, CaptureOK(c),
           Reads(c, f, p, v)
    PROVE  /\ f = c.cmd /\ Append(c.got, w) = Append(v, w) /\ Len(Append(c.got, w)) = Len(p) + 1
           /\ Len(p) + 1 # Need(f) =>
                 /\ CaptureOK(WithGot(c, Append(v, w)))
                 /\ Reads(WithGot(c, Append(v, w)), f, Append(p, n), Append(v, w))
           /\ Len(p) + 1 = Need(f) => Reads(NoCapture, f, Append(p, n), Append(v, w))
  <1> DEFINE q == Append(p, n)
             u == Append(v, w)
             d == WithGot(c, u)
  <1>1. /\ Len(p) \in Nat /\ Len(q) = Len(p) + 1 /\ u \in Seq(WordType) /\ Len(u) = Len(p) + 1
    BY MoreWords
  <1>2. f = c.cmd /\ f # "tex" /\ f \in FixedPorts
    BY Names DEF Reads
  <1>3. c.got = v /\ Len(p) < Need(f) /\ Need(f) \in Nat
    BY <1>2, NeedType DEF Reads, ReadsFixed
  <1> HIDE DEF q, u
  <1>4. d = [cmd |-> c.cmd, got |-> u, index |-> c.index, seen |-> c.seen]
    BY DEF CaptureOK, WithGot
  <1> HIDE DEF d
  <1>5. CaptureOK(d)
    BY <1>1, <1>4 DEF CaptureOK
  <1>6. Len(p) + 1 # Need(f) => Reads(d, f, q, u)
    BY <1>1, <1>2, <1>3, <1>4 DEF Reads, ReadsFixed
  <1>7. Len(p) + 1 = Need(f) => Reads(NoCapture, f, q, u)
    BY <1>1, <1>2, <1>3, Names DEF Reads, ReadsFixed, NoCapture
  <1>8. QED
    BY <1>1, <1>2, <1>3, <1>5, <1>6, <1>7 DEF q, u, d

LEMMA TwoFields ==
    ASSUME NEW c, CaptureOK(c), NEW g, NEW i
    PROVE  [c EXCEPT !.got = g, !.index = i]
              = [cmd |-> c.cmd, got |-> g, index |-> i, seen |-> c.seen]
  <1> DEFINE a == c.cmd
             b == c.got
             x == c.index
             y == c.seen
             t == [c EXCEPT !.got = g]
  <1>1. c = [cmd |-> a, got |-> b, index |-> x, seen |-> y]
    BY DEF CaptureOK
  <1> HIDE DEF a, b, x, y
  <1>2. t = [cmd |-> a, got |-> g, index |-> x, seen |-> y]
    BY <1>1
  <1> HIDE DEF t
  <1>3. [t EXCEPT !.index = i] = [cmd |-> a, got |-> g, index |-> i, seen |-> y]
    BY <1>2
  <1>4. [c EXCEPT !.got = g, !.index = i] = [t EXCEPT !.index = i]
    BY Zenon DEF t
  <1>5. QED
    BY <1>3, <1>4, Zenon DEF a, y

LEMMA PairIs ==
    ASSUME NEW T, NEW s \in Seq(T), Len(s) = 2
    PROVE  s = <<s[1], s[2]>>
  <1>1. s[1] \in T /\ s[2] \in T
    OBVIOUS
  <1> DEFINE a == s[1]
             b == s[2]
  <1> HIDE DEF a, b
  <1>2. <<a, b>> \in Seq(T) /\ Len(<<a, b>>) = 2 /\ <<a, b>>[1] = a /\ <<a, b>>[2] = b
    BY <1>1 DEF a, b
  <1>3. \A k \in 1 .. Len(s) : s[k] = <<a, b>>[k]
    <2>1. \A k \in 1 .. 2 : k = 1 \/ k = 2
      OBVIOUS
    <2>2. QED
      BY <1>2, <2>1 DEF a, b
  <1>4. s = <<a, b>>
    BY <1>2, <1>3, SeqEqual
  <1>5. QED
    BY <1>4 DEF a, b

(* The offset and the count of texture parameters. *)
TexHead(c, w) ==
    IF Len(c.got) = 1 /\ w.val = 0 THEN NoCapture
    ELSE [c EXCEPT !.got = Append(@, w),
                   !.index = IF c.got = <<>> THEN w.val \div 4 ELSE @]

LEMMA HeadReads ==
    ASSUME NEW l \in Nat, NEW p \in Seq(1 .. l), NEW v \in Seq(WordType), Len(v) = Len(p),
           NEW n, NEW w \in WordType, NEW c, NEW f, c.cmd = "tex", CaptureOK(c),
           Len(c.got) < 2, Reads(c, f, p, v)
    PROVE  /\ f = "tex" /\ Len(p) < 2
           /\ CaptureOK(TexHead(c, w))
           /\ Reads(TexHead(c, w), f, Append(p, n), Append(v, w))
  <1> DEFINE q == Append(p, n)
             u == Append(v, w)
             i == IF c.got = <<>> THEN w.val \div 4 ELSE c.index
             d == [c EXCEPT !.got = Append(@, w),
                            !.index = IF c.got = <<>> THEN w.val \div 4 ELSE @]
  <1>1. /\ Len(p) \in Nat /\ Len(q) = Len(p) + 1 /\ u \in Seq(WordType) /\ Len(u) = Len(p) + 1
        /\ \A k \in 1 .. Len(p) : u[k] = v[k] /\ v[k].val \in Nat
        /\ u[Len(p) + 1] = w
    BY MoreWords
  <1>2. f = "tex" /\ f \notin FixedPorts
    BY Names DEF Reads
  <1>3. TexBegins(c, p, v)
    <2>1. ReadsTex(c, p, v)
      BY <1>2 DEF Reads
    <2>2. ~ TexOver(c, p, v)
      BY Names DEF TexOver
    <2>3. ~ TexGoesOn(c, p, v)
      <3>1. Len(<<v[1], v[2]>>) = 2
        OBVIOUS
      <3>2. TexGoesOn(c, p, v) => c.got = <<v[1], v[2]>>
        BY Zenon DEF TexGoesOn
      <3>3. ASSUME TexGoesOn(c, p, v) PROVE FALSE
        <4>1. Len(c.got) = 2
          BY <3>1, <3>2, <3>3, Zenon
        <4>2. QED
          BY <4>1
      <3>4. QED
        BY <3>3
    <2>4. QED
      BY <2>1, <2>2, <2>3 DEF ReadsTex
  <1>4. c.got = v /\ c.seen = 0 /\ Len(p) < 2 /\ (Len(p) = 1 => c.index = v[1].val \div 4)
    BY <1>3 DEF TexBegins
  <1>5. w.val \in Nat /\ w.val \div 4 \in Nat
    <2>1. w.val \in Nat
      BY DEF WordType
    <2>2. QED
      BY <2>1
  <1>6. d = [cmd |-> "tex", got |-> u, index |-> i, seen |-> 0]
    <2>1. u = Append(c.got, w)
      BY <1>4
    <2> HIDE DEF i, u
    <2>2. d = [c EXCEPT !.got = u, !.index = i]
      BY <2>1, Zenon DEF i
    <2> HIDE DEF d
    <2>3. d = [cmd |-> c.cmd, got |-> u, index |-> i, seen |-> c.seen]
      BY <2>2, TwoFields
    <2>4. QED
      BY <1>4, <2>3
  <1>7. i \in Nat
    BY <1>5 DEF CaptureOK
  <1>8. v = <<>> <=> Len(p) = 0
    OBVIOUS
  <1>9. i = IF Len(p) = 0 THEN w.val \div 4 ELSE c.index
    BY <1>4, <1>8
  <1> HIDE DEF q, u, d, i
  <1>10. CaptureOK(d)
    BY <1>1, <1>6, <1>7 DEF CaptureOK
  <1>11. CASE Len(p) = 0
    <2>1. TexHead(c, w) = d
      BY <1>4, <1>11 DEF TexHead, d
    <2>2. u[1] = w /\ Len(q) = 1
      BY <1>1, <1>11
    <2>3. TexBegins(d, q, u)
      BY <1>6, <1>9, <1>11, <2>2 DEF TexBegins
    <2>4. QED
      BY <1>2, <1>4, <1>6, <1>10, <2>1, <2>3 DEF Reads, ReadsTex, q, u
  <1>12. CASE Len(p) = 1 /\ w.val = 0
    <2>1. TexHead(c, w) = NoCapture
      BY <1>4, <1>12 DEF TexHead
    <2>2. u[2] = w /\ Len(q) = 2
      BY <1>1, <1>12
    <2>3. TexOver(NoCapture, q, u)
      BY <1>12, <2>2 DEF TexOver, NoCapture
    <2>4. QED
      BY <1>2, <1>4, <2>1, <2>3, NoCaptureOK DEF Reads, ReadsTex, q, u
  <1>13. CASE Len(p) = 1 /\ w.val # 0
    <2>1. TexHead(c, w) = d
      BY <1>4, <1>13 DEF TexHead, d
    <2>2. u[2] = w /\ u[1] = v[1] /\ Len(q) = 2 /\ Len(u) = 2 /\ v[1].val \in Nat
      BY <1>1, <1>13
    <2>3. u = <<u[1], u[2]>>
      BY <1>1, <2>2, PairIs
    <2>4. i = u[1].val \div 4
      BY <1>4, <1>9, <1>13, <2>2
    <2>5. i % TexSlots = (u[1].val \div 4 + 0 \div 2) % TexSlots
      <3>1. u[1].val \div 4 \in Nat /\ 0 \div 2 = 0
        BY <2>2
      <3>2. u[1].val \div 4 + 0 \div 2 = u[1].val \div 4
        BY <3>1
      <3>3. QED
        BY <2>4, <3>2
    <2>6. TexGoesOn(d, q, u)
      BY <1>5, <1>6, <1>13, <2>2, <2>3, <2>5 DEF TexGoesOn
    <2>7. QED
      BY <1>2, <1>4, <1>6, <1>10, <2>1, <2>6 DEF Reads, ReadsTex, q, u
  <1>14. QED
    BY <1>1, <1>4, <1>11, <1>12, <1>13

(* The pairs of texture parameters. *)
TexNext(c) ==
    IF c.seen + 1 >= 2 * c.got[2].val THEN NoCapture
    ELSE [c EXCEPT !.seen = @ + 1,
                   !.index = IF c.seen % 2 = 1 THEN (c.index + 1) % TexSlots ELSE c.index]

LEMMA OtherFields ==
    ASSUME NEW c, CaptureOK(c), NEW s, NEW i
    PROVE  [c EXCEPT !.seen = s, !.index = i]
              = [cmd |-> c.cmd, got |-> c.got, index |-> i, seen |-> s]
  <1> DEFINE a == c.cmd
             b == c.got
             x == c.index
             y == c.seen
             t == [c EXCEPT !.seen = s]
  <1>1. c = [cmd |-> a, got |-> b, index |-> x, seen |-> y]
    BY DEF CaptureOK
  <1> HIDE DEF a, b, x, y
  <1>2. t = [cmd |-> a, got |-> b, index |-> x, seen |-> s]
    BY <1>1
  <1> HIDE DEF t
  <1>3. [t EXCEPT !.index = i] = [cmd |-> a, got |-> b, index |-> i, seen |-> s]
    BY <1>2
  <1>4. [c EXCEPT !.seen = s, !.index = i] = [t EXCEPT !.index = i]
    BY Zenon DEF t
  <1>5. QED
    BY <1>3, <1>4, Zenon DEF a, b

LEMMA PairReads ==
    ASSUME NEW l \in Nat, NEW p \in Seq(1 .. l), NEW v \in Seq(WordType), Len(v) = Len(p),
           NEW n, NEW w \in WordType, NEW c, NEW f, c.cmd = "tex", CaptureOK(c),
           Len(c.got) = 2, Reads(c, f, p, v)
    PROVE  /\ f = "tex" /\ Len(p) >= 2 /\ Len(p) - 2 = c.seen /\ c.seen < 2 * v[2].val
           /\ c.index % TexSlots = (v[1].val \div 4 + c.seen \div 2) % TexSlots
           /\ c.index % TexSlots \in 0 .. TexSlots - 1
           /\ CaptureOK(TexNext(c))
           /\ Reads(TexNext(c), f, Append(p, n), Append(v, w))
  <1> DEFINE q == Append(p, n)
             u == Append(v, w)
             i == IF c.seen % 2 = 1 THEN (c.index + 1) % TexSlots ELSE c.index
             d == [c EXCEPT !.seen = @ + 1,
                            !.index = IF c.seen % 2 = 1 THEN (c.index + 1) % TexSlots ELSE c.index]
  <1>1. /\ Len(p) \in Nat /\ Len(q) = Len(p) + 1 /\ u \in Seq(WordType) /\ Len(u) = Len(p) + 1
        /\ \A k \in 1 .. Len(p) : u[k] = v[k] /\ v[k].val \in Nat /\ v[k] \in WordType
    BY MoreWords
  <1>2. f = "tex" /\ f \notin FixedPorts
    BY Names DEF Reads
  <1>3. TexGoesOn(c, p, v)
    <2>1. ReadsTex(c, p, v)
      BY <1>2 DEF Reads
    <2>2. ~ TexOver(c, p, v)
      BY Names DEF TexOver
    <2>3. ASSUME TexBegins(c, p, v) PROVE FALSE
      <3>1. c.got = v /\ Len(p) < 2
        BY <2>3 DEF TexBegins
      <3>2. Len(p) = 2
        BY <3>1, Zenon
      <3>3. QED
        BY <3>1, <3>2, Z3
    <2>4. QED
      BY <2>1, <2>2, <2>3 DEF ReadsTex
  <1>4. /\ Len(p) >= 2 /\ c.got = <<v[1], v[2]>>
        /\ Len(p) = 2 + c.seen /\ c.seen < 2 * v[2].val
        /\ c.index % TexSlots = (v[1].val \div 4 + c.seen \div 2) % TexSlots
    BY <1>3, Zenon DEF TexGoesOn
  <1>5. c.seen \in Nat /\ c.index \in Nat /\ c.got \in Seq(WordType)
    BY DEF CaptureOK
  <1>6. /\ u[1] = v[1] /\ u[2] = v[2] /\ c.got[2] = v[2]
        /\ v[1].val \in Nat /\ v[2].val \in Nat /\ v[1].val \div 4 \in Nat
    <2> HIDE DEF q, u
    <2>1. Len(p) >= 2 /\ c.got = <<v[1], v[2]>>
      BY <1>4
    <2>2. 1 \in 1 .. Len(p) /\ 2 \in 1 .. Len(p)
      BY <1>1, <2>1
    <2>3. u[1] = v[1] /\ u[2] = v[2] /\ v[1].val \in Nat /\ v[2].val \in Nat
      BY <1>1, <2>2
    <2>4. c.got[2] = v[2]
      BY <2>1
    <2>5. v[1].val \div 4 \in Nat
      BY <2>3
    <2>6. QED
      BY <2>3, <2>4, <2>5
  <1>7. /\ c.index % TexSlots \in 0 .. TexSlots - 1
        /\ (c.index + 1) % TexSlots \in Nat
        /\ c.seen % 2 = 1 => ((c.index + 1) % TexSlots) % TexSlots
                                = (v[1].val \div 4 + (c.seen + 1) \div 2) % TexSlots
        /\ c.seen % 2 # 1 => c.index % TexSlots
                                = (v[1].val \div 4 + (c.seen + 1) \div 2) % TexSlots
    <2> DEFINE a == v[1].val \div 4
               s == c.seen
               x == c.index
    <2>1. a \in Nat /\ s \in Nat /\ x \in Nat /\ x % TexSlots = (a + s \div 2) % TexSlots
      BY <1>4, <1>5, <1>6
    <2> HIDE DEF a, s, x
    <2>2. /\ x % TexSlots \in 0 .. TexSlots - 1
          /\ (x + 1) % TexSlots \in Nat
          /\ s % 2 = 1 => ((x + 1) % TexSlots) % TexSlots = (a + (s + 1) \div 2) % TexSlots
          /\ s % 2 # 1 => x % TexSlots = (a + (s + 1) \div 2) % TexSlots
      BY <2>1, NextSlot, ZenonT(60)
    <2>3. QED
      BY <2>2, Zenon DEF a, s, x
  <1>8. i \in Nat /\ i % TexSlots = (v[1].val \div 4 + (c.seen + 1) \div 2) % TexSlots
    <2>1. CASE c.seen % 2 = 1
      BY <1>7, <2>1, Zenon
    <2>2. CASE c.seen % 2 # 1
      BY <1>5, <1>7, <2>2, Zenon
    <2>3. QED
      BY <2>1, <2>2
  <1>0. ASSUME NEW a \in Nat, NEW b \in Nat, NEW x, NEW y, x = 2 + a, y = x + 1
        PROVE  /\ a + 1 >= 2 * b => y >= 2 + 2 * b /\ y >= 2
               /\ ~ (a + 1 >= 2 * b) => y >= 2 /\ y = 2 + (a + 1) /\ a + 1 < 2 * b
    BY <1>0
  <1>9. CASE c.seen + 1 >= 2 * v[2].val
    <2>1. TexNext(c) = NoCapture
      BY <1>6, <1>9, Zenon DEF TexNext
    <2> HIDE DEF q, u, d, i
    <2>2. Len(q) >= 2 + 2 * u[2].val /\ Len(q) >= 2
      <3>1. Len(q) = Len(p) + 1 /\ Len(p) = 2 + c.seen /\ c.seen \in Nat
            /\ u[2].val = v[2].val /\ v[2].val \in Nat
        BY <1>1, <1>4, <1>5, <1>6, Zenon
      <3>2. QED
        BY <1>0, <1>9, <3>1, Zenon
    <2>3. TexOver(NoCapture, q, u)
      BY <2>2, NoCaptureOK, Zenon DEF TexOver
    <2>4. Reads(NoCapture, f, q, u)
      BY <1>2, <2>3, NoCaptureOK DEF Reads, ReadsTex
    <2>5. QED
      BY <1>2, <1>4, <1>5, <1>7, <2>1, <2>4, NoCaptureOK DEF q, u
  <1>10. CASE ~ (c.seen + 1 >= 2 * v[2].val)
    <2>1. TexNext(c) = d
      BY <1>6, <1>10, Zenon DEF TexNext
    <2>2. d = [cmd |-> "tex", got |-> <<v[1], v[2]>>, index |-> i, seen |-> c.seen + 1]
      <3> HIDE DEF i
      <3>1. d = [c EXCEPT !.seen = c.seen + 1, !.index = i]
        BY Zenon DEF i
      <3> HIDE DEF d
      <3>2. d = [cmd |-> c.cmd, got |-> c.got, index |-> i, seen |-> c.seen + 1]
        BY <3>1, OtherFields
      <3>3. QED
        BY <1>4, <3>2
    <2> HIDE DEF q, u, d, i
    <2>3. CaptureOK(d)
      <3>1. c.seen + 1 \in Nat /\ <<v[1], v[2]>> \in Seq(WordType)
        BY <1>4, <1>5
      <3>2. QED
        BY <1>8, <2>2, <3>1 DEF CaptureOK
    <2>4. Len(q) >= 2 /\ Len(q) = 2 + (c.seen + 1) /\ c.seen + 1 < 2 * u[2].val
      <3>1. Len(q) = Len(p) + 1 /\ Len(p) = 2 + c.seen /\ c.seen \in Nat
            /\ u[2].val = v[2].val /\ v[2].val \in Nat
        BY <1>1, <1>4, <1>5, <1>6, Zenon
      <3>2. QED
        BY <1>0, <1>10, <3>1, Zenon
    <2>5. TexGoesOn(d, q, u)
      BY <1>6, <1>8, <2>2, <2>4 DEF TexGoesOn
    <2>6. Reads(d, f, q, u)
      BY <1>2, <2>2, <2>5 DEF Reads, ReadsTex
    <2>7. QED
      BY <1>2, <1>4, <1>5, <1>7, <2>1, <2>3, <2>6 DEF q, u
  <1>11. QED
    BY <1>9, <1>10

(* Putting a word at a slot. *)
LEMMA WordSettings ==
    ASSUME SettingsInv, NEW val \in Values, DataPort(val),
           NEW m, IsLast(Commands(writes), m)
    PROVE  /\ CaptureOK(capture') /\ SettingsOK(settings')
           /\ Captures(capture', writes') /\ Says(settings', writes')
  <1> DEFINE e == [port |-> "data", val |-> val]
             n == Here
             w == Word(n, val)
             f == writes[m].port
             p == Words(writes, m)
             q == Append(p, n)
             v == Valued(writes, p)
             u == Append(v, w)
             l == Len(writes)
  <1>1. val \in Nat /\ writes \in Seq(Entry)
    BY Sizes DEF SettingsInv
  <1>2. Grown(writes, e, writes', n) /\ e.port = "data" /\ e.val = val
    BY <1>1, CommandGrows DEF DataPort
  <1>3. l \in Nat /\ n \in Nat /\ p \in Seq(1 .. l)
    BY <1>1, <1>2, Ahead, WordsType
  <1>4. v \in Seq(WordType) /\ Len(v) = Len(p)
        /\ \A k \in 1 .. Len(p) : v[k] = Word(p[k], writes[p[k]].val)
    BY <1>2, <1>3, ValuesGrow DEF WordType
  <1>5. w \in WordType /\ w.at = n /\ w.val = val
    BY <1>1, <1>3 DEF Word, WordType
  <1>6. Capture(w)
    BY DEF DataPort
  <1>7. CaptureOK(capture) /\ SettingsOK(settings) /\ Reads(capture, f, p, v)
    BY DEF SettingsInv, Captures
  <1>8. Says(settings, writes)
    BY DEF SettingsInv
  <1>9. ASSUME NEW c, CaptureOK(c), NEW s, SettingsOK(s), Reads(c, f, q, u),
               \A g \in FixedPorts : s.fixed[g] =
                  IF g = f /\ Len(p) + 1 = Need(g) THEN u ELSE LastFixed(writes, g),
               \A i \in 0 .. TexSlots - 1 :
                  /\ s.param[i] = IF f = "tex" /\ Lands(writes, p, i, 0)
                                  THEN n ELSE LastTex(writes, i, 0)
                  /\ s.coef[i] = IF f = "tex" /\ Lands(writes, p, i, 1)
                                 THEN n ELSE LastTex(writes, i, 1),
               s.projection = Usable(s.fixed)
        PROVE  Captures(c, writes') /\ Says(s, writes')
    <2> HIDE DEF e, n
    <2>1. u = Append(Valued(writes, Words(writes, m)), Word(n, e.val))
      BY <1>2
    <2>2. QED
      BY <1>2, <1>9, <2>1, SaysAfter
  <1>10. Len(p) >= 2 => writes[p[1]].val = v[1].val /\ writes[p[2]].val = v[2].val
    <2>1. Len(p) >= 2 => 1 \in 1 .. Len(p) /\ 2 \in 1 .. Len(p)
      BY <1>3
    <2> HIDE DEF e, n, w, f, p, q, v, u, l
    <2>2. ASSUME NEW k \in 1 .. Len(p) PROVE writes[p[k]].val = v[k].val
      <3>1. v[k] = Word(p[k], writes[p[k]].val)
        BY <1>4
      <3> DEFINE a == p[k]
                 b == writes[p[k]].val
      <3> HIDE DEF a, b
      <3>2. v[k] = [at |-> a, val |-> b]
        BY <3>1, Zenon DEF Word, a, b
      <3>3. v[k].val = b
        BY <3>2
      <3>4. QED
        BY <3>3 DEF b
    <2>3. QED
      BY <2>1, <2>2
  <1>11. /\ \A g \in FixedPorts : settings.fixed[g] = LastFixed(writes, g)
         /\ \A i \in 0 .. TexSlots - 1 :
               settings.param[i] = LastTex(writes, i, 0) /\ settings.coef[i] = LastTex(writes, i, 1)
         /\ settings.projection = Usable(settings.fixed)
    BY <1>8 DEF Says
  <1>12. Len(p) \in Nat
    BY <1>3
  <1> HIDE DEF e, n, w, f, p, q, v, u, l
  <1>13. CASE CaptureNothing
    <2>1. capture.cmd = "none" /\ capture' = capture /\ settings' = settings
      BY <1>13 DEF CaptureNothing
    <2>2. /\ Reads(capture, f, q, u)
          /\ f \in FixedPorts => Len(p) >= Need(f)
          /\ f = "tex" => Len(p) >= 2 /\ Len(p) - 2 >= 2 * v[2].val
      BY <1>3, <1>4, <1>5, <1>7, <2>1, NothingReads DEF q, u
    <2>3. \A g \in FixedPorts : ~ (g = f /\ Len(p) + 1 = Need(g))
      BY <1>12, <2>2, NeedType
    <2>4. \A i, odd : ~ (f = "tex" /\ Lands(writes, p, i, odd))
      <3>1. ASSUME f = "tex" PROVE ~ (Len(p) - 2 < 2 * writes[p[2]].val)
        <4>1. Len(p) - 2 >= 2 * v[2].val /\ writes[p[2]].val = v[2].val /\ v[2].val \in Nat
          <5>1. Len(p) >= 2
            BY <2>2, <3>1
          <5>2. v[2] \in WordType
            BY <1>4, <1>12, <5>1
          <5>3. v[2].val \in Nat
            BY <5>2 DEF WordType
          <5>4. QED
            BY <1>10, <2>2, <3>1, <5>1, <5>3
        <4>2. QED
          BY <1>12, <4>1
      <3>2. QED
        BY <3>1 DEF Lands
    <2>5. Captures(capture, writes') /\ Says(settings, writes')
      BY <1>7, <1>9, <1>11, <2>2, <2>3, <2>4
    <2>6. QED
      BY <1>7, <2>1, <2>5
  <1>14. CASE CaptureFixed(w)
    <2>1. capture.cmd \in FixedPorts
      BY <1>14 DEF CaptureFixed
    <2>2. /\ f = capture.cmd /\ Append(capture.got, w) = u /\ Len(u) = Len(p) + 1
          /\ Len(p) + 1 # Need(f) =>
                /\ CaptureOK(WithGot(capture, u))
                /\ Reads(WithGot(capture, u), f, q, u)
          /\ Len(p) + 1 = Need(f) => Reads(NoCapture, f, q, u)
      <3>1. /\ f = capture.cmd /\ Append(capture.got, w) = Append(v, w)
            /\ Len(Append(capture.got, w)) = Len(p) + 1
            /\ Len(p) + 1 # Need(f) =>
                 /\ CaptureOK(WithGot(capture, Append(v, w)))
                 /\ Reads(WithGot(capture, Append(v, w)), f, Append(p, n), Append(v, w))
            /\ Len(p) + 1 = Need(f) => Reads(NoCapture, f, Append(p, n), Append(v, w))
        BY <1>3, <1>4, <1>5, <1>7, <2>1, FixedReads
      <3>2. QED
        BY <3>1 DEF q, u
    <2>3. f # "tex" /\ f \in FixedPorts
      BY <2>1, <2>2, Names
    <2>4. CASE Len(p) + 1 # Need(f)
      <3>1. capture' = WithGot(capture, u) /\ settings' = settings
        BY <1>14, <2>2, <2>4 DEF CaptureFixed, WithGot
      <3>2. CaptureOK(capture') /\ Reads(capture', f, q, u)
        BY <2>2, <2>4, <3>1
      <3>3. \A g \in FixedPorts : ~ (g = f /\ Len(p) + 1 = Need(g))
        BY <2>4
      <3>4. Captures(capture', writes') /\ Says(settings, writes')
        BY <1>7, <1>9, <1>11, <2>3, <3>2, <3>3
      <3>5. QED
        BY <1>7, <3>1, <3>2, <3>4
    <2>5. CASE Len(p) + 1 = Need(f)
      <3> DEFINE fixed == [settings.fixed EXCEPT ![f] = u]
                 ready == IF f \in {"window", "focus"} THEN Usable(fixed) ELSE settings.projection
      <3>1. /\ capture' = NoCapture
            /\ settings' = [settings EXCEPT
                              !.fixed = fixed,
                              !.projection = IF f \in {"window", "focus"} THEN Usable(fixed) ELSE @]
        BY <1>14, <2>2, <2>5 DEF CaptureFixed
      <3>2. settings' = [fixed |-> fixed, param |-> settings.param, coef |-> settings.coef,
                         projection |-> ready]
        <4> DEFINE a == settings.param
                   b == settings.coef
                   x == settings.fixed
                   y == settings.projection
                   t == [settings EXCEPT !.fixed = fixed]
        <4>1. settings = [fixed |-> x, param |-> a, coef |-> b, projection |-> y]
          BY <1>7 DEF SettingsOK
        <4>2. settings' = [t EXCEPT !.projection = ready]
          BY <3>1, Zenon DEF ready
        <4> HIDE DEF a, b, x, y, fixed, ready
        <4>3. t = [fixed |-> fixed, param |-> a, coef |-> b, projection |-> y]
          BY <4>1
        <4> HIDE DEF t
        <4>4. settings' = [fixed |-> fixed, param |-> a, coef |-> b, projection |-> ready]
          BY <4>2, <4>3
        <4>5. QED
          BY <4>4 DEF a, b
      <3>3. /\ settings.fixed \in [FixedPorts -> Seq(WordType)]
            /\ settings.param \in [0 .. TexSlots - 1 -> Nat]
            /\ settings.coef \in [0 .. TexSlots - 1 -> Nat]
            /\ settings.projection \in BOOLEAN
        BY <1>7 DEF SettingsOK
      <3>4. u \in Seq(WordType)
        BY <1>4, <1>5 DEF u
      <3>5. /\ fixed \in [FixedPorts -> Seq(WordType)]
            /\ \A g \in FixedPorts : fixed[g] = IF g = f THEN u ELSE settings.fixed[g]
        BY <2>3, <3>3, <3>4
      <3>6. Usable(fixed) \in BOOLEAN
        BY DEF Usable
      <3>7. ready = Usable(fixed)
        <4>1. CASE f \in {"window", "focus"}
          BY <4>1
        <4>2. CASE f \notin {"window", "focus"}
          <5>1. fixed["window"] = settings.fixed["window"] /\ fixed["focus"] = settings.fixed["focus"]
            <6>1. "window" \in FixedPorts /\ "focus" \in FixedPorts
              BY DEF FixedPorts
            <6>2. QED
              BY <3>5, <4>2, <6>1
          <5> HIDE DEF fixed
          <5>2. Usable(fixed) = Usable(settings.fixed)
            BY <5>1, Zenon DEF Usable
          <5>3. ready = settings.projection
            BY <4>2
          <5>4. QED
            BY <1>11, <5>2, <5>3, Zenon
        <4>3. QED
          BY <4>1, <4>2
      <3> HIDE DEF fixed, ready
      <3>8. ready \in BOOLEAN
        BY <3>6, <3>7, Zenon
      <3>9. /\ settings'.fixed = fixed /\ settings'.param = settings.param
            /\ settings'.coef = settings.coef /\ settings'.projection = ready
        BY <3>2
      <3>10. SettingsOK(settings')
        BY <3>2, <3>3, <3>5, <3>8, <3>9 DEF SettingsOK
      <3>11. \A g \in FixedPorts : settings'.fixed[g] =
                IF g = f /\ Len(p) + 1 = Need(g) THEN u ELSE LastFixed(writes, g)
        BY <1>11, <2>5, <3>5, <3>9
      <3>12. settings'.projection = Usable(settings'.fixed)
        BY <3>7, <3>9, Zenon
      <3>13. Reads(capture', f, q, u) /\ CaptureOK(capture')
        BY <2>2, <2>5, <3>1, NoCaptureOK
      <3>14. \A i \in 0 .. TexSlots - 1 :
                settings'.param[i] = LastTex(writes, i, 0) /\ settings'.coef[i] = LastTex(writes, i, 1)
        BY <1>11, <3>9
      <3>15. Captures(capture', writes') /\ Says(settings', writes')
        BY <1>9, <2>3, <3>10, <3>11, <3>12, <3>13, <3>14
      <3>16. QED
        BY <3>10, <3>13, <3>15
    <2>6. QED
      BY <2>4, <2>5
  <1>15. CASE CaptureTexHead(w)
    <2>1. /\ capture.cmd = "tex" /\ Len(capture.got) < 2
          /\ capture' = TexHead(capture, w) /\ settings' = settings
      BY <1>15 DEF CaptureTexHead, TexHead
    <2>2. f = "tex" /\ Len(p) < 2 /\ CaptureOK(capture') /\ Reads(capture', f, q, u)
      BY <1>3, <1>4, <1>5, <1>7, <2>1, HeadReads DEF q, u
    <2>3. \A g \in FixedPorts : ~ (g = f /\ Len(p) + 1 = Need(g))
      BY <2>2, Names
    <2>4. \A i, odd : ~ (f = "tex" /\ Lands(writes, p, i, odd))
      BY <1>12, <2>2 DEF Lands
    <2>5. Captures(capture', writes') /\ Says(settings, writes')
      BY <1>7, <1>9, <1>11, <2>2, <2>3, <2>4
    <2>6. QED
      BY <1>7, <2>1, <2>2, <2>5
  <1>16. CASE CaptureTexPair(w)
    <2> DEFINE slot == capture.index % TexSlots
               odd == capture.seen % 2 = 1
    <2>1. /\ capture.cmd = "tex" /\ Len(capture.got) = 2
          /\ settings' = IF odd THEN [settings EXCEPT !.coef[slot] = w.at]
                                ELSE [settings EXCEPT !.param[slot] = w.at]
          /\ capture' = TexNext(capture)
      BY <1>16 DEF CaptureTexPair, TexNext, NextIndex
    <2>2. /\ f = "tex" /\ Len(p) >= 2 /\ Len(p) - 2 = capture.seen
          /\ capture.seen < 2 * v[2].val
          /\ slot = (v[1].val \div 4 + capture.seen \div 2) % TexSlots
          /\ slot \in 0 .. TexSlots - 1
          /\ CaptureOK(capture') /\ Reads(capture', f, q, u)
      <3>1. /\ f = "tex" /\ Len(p) >= 2 /\ Len(p) - 2 = capture.seen
            /\ capture.seen < 2 * v[2].val
            /\ capture.index % TexSlots = (v[1].val \div 4 + capture.seen \div 2) % TexSlots
            /\ capture.index % TexSlots \in 0 .. TexSlots - 1
            /\ CaptureOK(TexNext(capture))
            /\ Reads(TexNext(capture), f, Append(p, n), Append(v, w))
        BY <1>3, <1>4, <1>5, <1>7, <2>1, PairReads
      <3>2. QED
        BY <2>1, <3>1, Zenon DEF q, u, slot
    <2>3. capture.seen \in Nat
      BY <1>7 DEF CaptureOK
    <2> HIDE DEF slot, odd
    <2>4. ASSUME NEW i, NEW o
          PROVE  Lands(writes, p, i, o) <=> capture.seen % 2 = o /\ slot = i
      BY <1>10, <2>2, Zenon DEF Lands
    <2>5. \A g \in FixedPorts : ~ (g = f /\ Len(p) + 1 = Need(g))
      BY <2>2, Names
    <2> DEFINE param == IF odd THEN settings.param ELSE [settings.param EXCEPT ![slot] = n]
               coef == IF odd THEN [settings.coef EXCEPT ![slot] = n] ELSE settings.coef
    <2>6. /\ settings = [fixed |-> settings.fixed, param |-> settings.param,
                         coef |-> settings.coef, projection |-> settings.projection]
          /\ settings.fixed \in [FixedPorts -> Seq(WordType)]
          /\ settings.param \in [0 .. TexSlots - 1 -> Nat]
          /\ settings.coef \in [0 .. TexSlots - 1 -> Nat]
          /\ settings.projection \in BOOLEAN
      BY <1>7 DEF SettingsOK
    <2>7. settings' = [fixed |-> settings.fixed, param |-> param, coef |-> coef,
                       projection |-> settings.projection]
      <3>1. CASE odd
        <4>1. settings' = [settings EXCEPT !.coef = [settings.coef EXCEPT ![slot] = n]]
          BY <1>5, <2>1, <3>1
        <4>2. QED
          BY <2>6, <3>1, <4>1
      <3>2. CASE ~ odd
        <4>1. settings' = [settings EXCEPT !.param = [settings.param EXCEPT ![slot] = n]]
          BY <1>5, <2>1, <3>2
        <4>2. QED
          BY <2>6, <3>2, <4>1
      <3>3. QED
        BY <3>1, <3>2
    <2>8. /\ param \in [0 .. TexSlots - 1 -> Nat] /\ coef \in [0 .. TexSlots - 1 -> Nat]
          /\ \A i \in 0 .. TexSlots - 1 :
                /\ param[i] = IF ~odd /\ i = slot THEN n ELSE settings.param[i]
                /\ coef[i] = IF odd /\ i = slot THEN n ELSE settings.coef[i]
      BY <1>3, <2>2, <2>6
    <2> HIDE DEF param, coef
    <2>9. /\ settings'.fixed = settings.fixed /\ settings'.param = param
          /\ settings'.coef = coef /\ settings'.projection = settings.projection
      BY <2>7
    <2>10. SettingsOK(settings')
      BY <2>6, <2>7, <2>8, <2>9 DEF SettingsOK
    <2>11. capture.seen % 2 = 0 <=> ~odd
      BY <2>3, Halves DEF odd
    <2>12. capture.seen % 2 = 1 <=> odd
      BY DEF odd
    <2>13. \A i \in 0 .. TexSlots - 1 :
              /\ settings'.param[i] = IF f = "tex" /\ Lands(writes, p, i, 0)
                                      THEN n ELSE LastTex(writes, i, 0)
              /\ settings'.coef[i] = IF f = "tex" /\ Lands(writes, p, i, 1)
                                     THEN n ELSE LastTex(writes, i, 1)
      BY <1>11, <2>2, <2>4, <2>8, <2>9, <2>11, <2>12
    <2>14. settings'.projection = Usable(settings'.fixed)
      BY <1>11, <2>9, Zenon
    <2>15. \A g \in FixedPorts : settings'.fixed[g] =
              IF g = f /\ Len(p) + 1 = Need(g) THEN u ELSE LastFixed(writes, g)
      BY <1>11, <2>5, <2>9
    <2>16. Captures(capture', writes') /\ Says(settings', writes')
      BY <1>9, <2>2, <2>10, <2>13, <2>14, <2>15
    <2>17. QED
      BY <2>2, <2>10, <2>16
  <1>17. QED
    BY <1>6, <1>13, <1>14, <1>15, <1>16 DEF Capture

LEMMA DataSettings ==
    ASSUME SettingsInv, NEW val \in Values, DataPort(val)
    PROVE  SettingsInv'
  <1> DEFINE e == [port |-> "data", val |-> val]
  <1>1. val \in Nat /\ writes \in Seq(Entry)
    BY Sizes DEF SettingsInv
  <1>2. Grown(writes, e, writes', Here) /\ e.port = "data"
    BY <1>1, CommandGrows DEF DataPort
  <1> HIDE DEF e
  <1>3. writes' \in Seq(Entry)
    BY <1>2, LogGrows
  <1>4. CASE Commands(writes) = {}
    <2>1. /\ Commands(writes') = {}
          /\ \A f \in FixedPorts : LastFixed(writes', f) = LastFixed(writes, f)
          /\ \A s, odd : LastTex(writes', s, odd) = LastTex(writes, s, odd)
      BY <1>2, <1>4, StraySays
    <2>2. capture.cmd = "none"
      BY <1>4 DEF SettingsInv, Captures
    <2>3. capture' = capture /\ settings' = settings
      BY <2>2, Names DEF DataPort, Capture, CaptureNothing, CaptureFixed, CaptureTexHead,
                         CaptureTexPair
    <2>4. Captures(capture, writes') /\ Says(settings, writes')
      BY <2>1, <2>2 DEF SettingsInv, Captures, Says, IsLast
    <2>5. QED
      BY <1>3, <2>3, <2>4 DEF SettingsInv
  <1>5. CASE Commands(writes) # {}
    <2>1. PICK m : IsLast(Commands(writes), m)
      BY <1>1, <1>5, Places, LastCommand
    <2>2. QED
      BY <1>3, <2>1, WordSettings DEF SettingsInv
  <1>6. QED
    BY <1>4, <1>5

LEMMA NextSettings == SettingsInv /\ [Next]_vars => SettingsInv'
  <1> SUFFICES ASSUME SettingsInv, [Next]_vars PROVE SettingsInv'
    OBVIOUS
  <1>1. CASE UNCHANGED vars
    BY <1>1 DEF vars, SettingsInv
  <1>2. ASSUME NEW f \in Ports, CommandPort(f) PROVE SettingsInv'
    BY <1>2, StartSettings
  <1>3. CASE ObjectPort
    BY <1>3, ObjectSettings
  <1>4. ASSUME NEW val \in Values, DataPort(val) PROVE SettingsInv'
    BY <1>4, DataSettings
  <1>5. QED
    BY <1>1, <1>2, <1>3, <1>4 DEF Next

(* The capture is always what the words of the last command read as.       *)
THEOREM CaptureInvariance == Spec => []SettingsInv
  BY InitSettings, NextSettings, PTL DEF Spec

(* The settings are those of the last complete command of each kind, for    *)
(* every log of writes, every window length and every number of slots.      *)
THEOREM SettingsFollowTheLog == Spec => []SettingsAsWritten
  <1>1. SettingsInv => SettingsAsWritten
    BY DEF SettingsInv, Says, SettingsAsWritten
  <1>2. QED
    BY CaptureInvariance, <1>1, PTL

-----------------------------------------------------------------------------
(* The uploads that a log says, and the writes at which memory failed. *)
Failures(log, bad, n, worse) ==
    bad \in SUBSET (1 .. Len(log)) /\ worse \in {bad, bad \cup {n}}

LEMMA FailuresStay ==
    ASSUME NEW log, NEW e, NEW longer, NEW n, Grown(log, e, longer, n),
           NEW bad, NEW worse, Failures(log, bad, n, worse)
    PROVE  /\ \A j \in 1 .. Len(log) : j \in worse <=> j \in bad
           /\ n \notin bad
           /\ worse \in SUBSET (1 .. Len(longer))
  <1>1. n \notin 1 .. Len(log) /\ Len(longer) = n /\ n = Len(log) + 1 /\ Len(log) \in Nat
    BY Ahead, LogGrows
  <1>2. \A j \in 1 .. Len(log) : j # n /\ j \in 1 .. n
    BY <1>1
  <1>3. n \in 1 .. n
    BY <1>1
  <1>4. bad \in SUBSET (1 .. Len(log)) /\ worse \in {bad, bad \cup {n}}
    BY DEF Failures
  <1>5. QED
    BY <1>1, <1>2, <1>3, <1>4

LEMMA UploadWordsStay ==
    ASSUME NEW log, NEW e, NEW longer, NEW n, Grown(log, e, longer, n),
           NEW i \in Starts(log), NEW k \in 1 .. Len(UploadWords(log, i))
    PROVE  /\ k \in 1 .. Len(UploadWords(longer, i))
           /\ UploadWords(longer, i)[k] = UploadWords(log, i)[k]
           /\ UploadWords(log, i)[k] \in 1 .. Len(log)
           /\ longer[UploadWords(longer, i)[k]] = log[UploadWords(log, i)[k]]
  <1> DEFINE p == UploadWords(log, i)
             q == UploadWords(longer, i)
  <1>1. q = Append(p, n) \/ q = p
    BY UploadWordsAfter
  <1>2. p \in Seq(1 .. Len(log)) /\ Len(p) \in Nat /\ p[k] \in 1 .. Len(log)
    BY Ahead, WordsType
  <1>3. Len(log) \in Nat
    BY Ahead
  <1> HIDE DEF p, q
  <1>4. k \in 1 .. Len(p)
    BY DEF p
  <1>5. k \in 1 .. Len(q) /\ q[k] = p[k]
    <2>1. CASE q = p
      BY <1>4, <2>1
    <2>2. CASE q = Append(p, n)
      <3>1. Len(q) = Len(p) + 1 /\ \A j \in 1 .. Len(p) : q[j] = p[j]
        BY <1>2, <1>3, <2>2, SeqGrows
      <3>2. QED
        BY <1>2, <1>4, <3>1
    <2>3. QED
      BY <1>1, <2>1, <2>2
  <1>6. longer[p[k]] = log[p[k]]
    BY <1>2, LogGrows
  <1>7. QED
    BY <1>2, <1>5, <1>6 DEF p, q

LEMMA TailIs ==
    ASSUME NEW S, NEW s \in Seq(S), NEW c \in Nat, 2 + c <= Len(s)
    PROVE  /\ SubSeq(s, 3, 2 + c) \in Seq(S) /\ Len(SubSeq(s, 3, 2 + c)) = c
           /\ \A k \in 1 .. c : SubSeq(s, 3, 2 + c)[k] = s[k + 2]
  <1> DEFINE t == SubSeq(s, 3, 2 + c)
  <1>1. t \in Seq(S)
    OBVIOUS
  <1>2. Len(t) = c
    OBVIOUS
  <1>3. \A k \in 1 .. c : t[k] = s[k + 2]
    OBVIOUS
  <1>4. QED
    BY <1>1, <1>2, <1>3

LEMMA SamePart ==
    ASSUME NEW l \in Nat, NEW p \in Seq(1 .. l), NEW q \in Seq(1 .. l), NEW c \in Nat,
           2 + c <= Len(p), 2 + c <= Len(q), \A k \in 1 .. 2 + c : q[k] = p[k]
    PROVE  SubSeq(q, 3, 2 + c) = SubSeq(p, 3, 2 + c)
  <1> DEFINE a == SubSeq(p, 3, 2 + c)
             b == SubSeq(q, 3, 2 + c)
  <1>1. a \in Seq(1 .. l) /\ Len(a) = c /\ \A k \in 1 .. c : a[k] = p[k + 2]
    BY TailIs
  <1>2. b \in Seq(1 .. l) /\ Len(b) = c /\ \A k \in 1 .. c : b[k] = q[k + 2]
    BY TailIs
  <1>3. \A k \in 1 .. c : k + 2 \in 1 .. 2 + c
    OBVIOUS
  <1> HIDE DEF a, b
  <1>4. \A k \in 1 .. Len(a) : a[k] = b[k]
    BY <1>1, <1>2, <1>3
  <1>5. a = b
    BY <1>1, <1>2, <1>4, SeqEqual
  <1>6. QED
    BY <1>5 DEF a, b

LEMMA Within ==
    ASSUME NEW c \in Nat, NEW l \in Nat, l >= 2 + c
    PROVE  2 + c \in 1 .. l /\ \A k \in 1 .. 2 + c : k \in 1 .. l
  OBVIOUS

(* An upload once complete stays what it is. *)
LEMMA DeliveryStays ==
    ASSUME NEW log, NEW e, NEW longer, NEW n, Grown(log, e, longer, n),
           NEW bad, NEW worse, Failures(log, bad, n, worse), NEW i \in Complete(log, bad)
    PROVE  i \in Complete(longer, worse) /\ Delivery(longer, worse, i) = Delivery(log, bad, i)
  <1> DEFINE p == UploadWords(log, i)
             q == UploadWords(longer, i)
             c == log[p[2]].val
  <1>1. log \in Seq(Entry) /\ longer \in Seq(Entry) /\ Len(log) \in Nat /\ Len(longer) \in Nat
        /\ Len(longer) = Len(log) + 1
    BY Ahead, LogGrows
  <1>2. i \in Starts(log) /\ Len(p) >= 2 /\ p[2] \notin bad /\ Len(p) >= 2 + c
    BY DEF Complete
  <1>3. /\ p \in Seq(1 .. Len(log)) /\ Len(p) \in Nat
        /\ q \in Seq(1 .. Len(longer)) /\ Len(q) \in Nat
    BY <1>1, WordsType
  <1>4. ASSUME NEW k \in 1 .. Len(p)
        PROVE  /\ k \in 1 .. Len(q) /\ q[k] = p[k] /\ p[k] \in 1 .. Len(log)
               /\ longer[q[k]] = log[p[k]]
    BY <1>2, UploadWordsStay
  <1>5. 1 \in 1 .. Len(p) /\ 2 \in 1 .. Len(p)
    BY <1>2, <1>3
  <1>6. /\ q[1] = p[1] /\ q[2] = p[2] /\ p[2] \in 1 .. Len(log)
        /\ longer[q[2]].val = c /\ c \in Nat
    <2>1. c \in Nat
      BY <1>1, <1>4, <1>5, Places
    <2>2. QED
      BY <1>4, <1>5, <2>1
  <1>7. i \in Starts(longer) /\ longer[i].port = log[i].port
    <2>1. Starts(longer) = IF e.port \in UploadPorts THEN Starts(log) \cup {n} ELSE Starts(log)
      BY LogGrows, SMTT(30)
    <2>2. i \in 1 .. Len(log)
      BY <1>1, <1>2, Places
    <2>3. longer[i] = log[i]
      BY <2>2, LogGrows
    <2>4. QED
      BY <1>2, <2>1, <2>3
  <1>8. \A j \in 1 .. Len(log) : j \in worse <=> j \in bad
    BY FailuresStay
  <1> HIDE DEF p, q, c
  <1>9. 2 + c \in 1 .. Len(p) /\ \A k \in 1 .. 2 + c : k \in 1 .. Len(p)
    BY <1>2, <1>3, <1>6, Within, Zenon
  <1>10. Len(q) >= 2 /\ Len(q) >= 2 + c
    BY <1>3, <1>4, <1>5, <1>6, <1>9
  <1>11. q[2 + c] \in worse <=> p[2 + c] \in bad
    BY <1>4, <1>8, <1>9
  <1>12. q[2] \notin worse
    BY <1>2, <1>6, <1>8
  <1>13. SubSeq(q, 3, 2 + c) = SubSeq(p, 3, 2 + c)
    <2>1. 1 .. Len(log) \subseteq 1 .. Len(longer)
      BY <1>1
    <2>2. p \in Seq(1 .. Len(longer))
      BY <1>3, <2>1, SeqOfMore
    <2>3. \A k \in 1 .. 2 + c : q[k] = p[k]
      BY <1>4, <1>9
    <2>4. 2 + c <= Len(p) /\ 2 + c <= Len(q)
      BY <1>2, <1>3, <1>6, <1>10
    <2>5. QED
      BY <1>1, <1>3, <1>6, <2>2, <2>3, <2>4, SamePart
  <1>14. i \in Complete(longer, worse)
    BY <1>6, <1>7, <1>10, <1>12 DEF Complete, q
  <1>15. Delivery(longer, worse, i) = [cmd |-> log[i].port, to |-> p[1],
            body |-> IF c > 0 /\ q[2 + c] \in worse THEN <<>> ELSE SubSeq(q, 3, 2 + c)]
    BY <1>6, <1>7 DEF Delivery, q
  <1>16. Delivery(log, bad, i) = [cmd |-> log[i].port, to |-> p[1],
            body |-> IF c > 0 /\ p[2 + c] \in bad THEN <<>> ELSE SubSeq(p, 3, 2 + c)]
    BY DEF Delivery, p, c
  <1> DEFINE lost == q[2 + c] \in worse
             gone == p[2 + c] \in bad
  <1>17. lost <=> gone
    BY <1>11
  <1> HIDE DEF lost, gone
  <1> DEFINE x == IF c > 0 /\ lost THEN <<>> ELSE SubSeq(q, 3, 2 + c)
             y == IF c > 0 /\ gone THEN <<>> ELSE SubSeq(p, 3, 2 + c)
  <1>18. x = y
    BY <1>13, <1>17
  <1>19. /\ Delivery(longer, worse, i) = [cmd |-> log[i].port, to |-> p[1], body |-> x]
         /\ Delivery(log, bad, i) = [cmd |-> log[i].port, to |-> p[1], body |-> y]
    BY <1>15, <1>16 DEF lost, gone
  <1> HIDE DEF x, y
  <1>20. QED
    BY <1>14, <1>18, <1>19

(* Only a word completes an upload, and only the last one. *)
LEMMA NewlyComplete ==
    ASSUME NEW log, NEW e, NEW longer, NEW n, Grown(log, e, longer, n),
           NEW bad, NEW worse, Failures(log, bad, n, worse),
           NEW i \in Complete(longer, worse), i \notin Complete(log, bad)
    PROVE  e.port = "data" /\ IsLast(Starts(log), i)
  <1> DEFINE p == UploadWords(log, i)
             q == UploadWords(longer, i)
             S == Starts(log)
  <1>1. i \in Starts(longer) /\ Len(q) >= 2 /\ q[2] \notin worse /\ Len(q) >= 2 + longer[q[2]].val
    BY DEF Complete
  <1>2. i \in S
    <2>1. Starts(longer) = IF e.port \in UploadPorts THEN S \cup {n} ELSE S
      BY LogGrows, SMTT(30)
    <2>2. Len(UploadWords(longer, n)) = 0
      BY UploadWordsAfter
    <2>3. i # n
      BY <1>1, <2>2
    <2>4. QED
      BY <1>1, <2>1, <2>3
  <1>3. q = IF e.port = "data" /\ IsLast(S, i) THEN Append(p, n) ELSE p
    BY <1>2, UploadWordsAfter
  <1>4. ASSUME ~ (e.port = "data" /\ IsLast(S, i))
        PROVE  FALSE
    <2>1. q = p
      BY <1>3, <1>4
    <2>2. log \in Seq(Entry)
      BY Ahead
    <2>3. Len(p) \in Nat /\ Len(p) >= 2
      BY <1>1, <2>1, <2>2, WordsType
    <2>4. 2 \in 1 .. Len(p)
      BY <2>3
    <2>5. p[2] \in 1 .. Len(log) /\ longer[q[2]] = log[p[2]]
      BY <1>2, <2>4, UploadWordsStay
    <2>6. p[2] \notin bad
      BY <1>1, <2>1, <2>5, FailuresStay
    <2>7. i \in Complete(log, bad)
      BY <1>1, <1>2, <2>1, <2>5, <2>6 DEF Complete
    <2>8. QED
      BY <2>7
  <1>5. QED
    BY <1>4

LEMMA CompleteType ==
    ASSUME NEW log \in Seq(Entry), NEW bad
    PROVE  /\ Complete(log, bad) \in SUBSET (1 .. Len(log)) /\ Len(log) \in Nat
           /\ InOrder(Complete(log, bad)) \in Seq(Complete(log, bad))
           /\ Len(InOrder(Complete(log, bad))) \in Nat
  <1>1. Complete(log, bad) \in SUBSET (1 .. Len(log)) /\ Len(log) \in Nat
    BY Places DEF Complete
  <1>2. QED
    BY <1>1, InOrderType

LEMMA UploadsSame ==
    ASSUME NEW log, NEW e, NEW longer, NEW n, Grown(log, e, longer, n),
           NEW bad, NEW worse, Failures(log, bad, n, worse),
           \A i \in Complete(longer, worse) : i \in Complete(log, bad)
    PROVE  Uploads(longer, worse) = Uploads(log, bad)
  <1> DEFINE order == InOrder(Complete(log, bad))
  <1>1. Complete(longer, worse) = Complete(log, bad)
    BY DeliveryStays
  <1>2. order \in Seq(Complete(log, bad))
    BY Ahead, CompleteType
  <1>3. \A k \in 1 .. Len(order) : order[k] \in Complete(log, bad)
    BY <1>2
  <1> HIDE DEF order
  <1>4. \A k \in 1 .. Len(order) :
            Delivery(longer, worse, order[k]) = Delivery(log, bad, order[k])
    BY <1>3, DeliveryStays
  <1>5. QED
    BY <1>1, <1>4 DEF Uploads, order

LEMMA UploadsNew ==
    ASSUME NEW log, NEW e, NEW longer, NEW n, Grown(log, e, longer, n),
           NEW bad, NEW worse, Failures(log, bad, n, worse),
           NEW m, IsLast(Starts(log), m), m \notin Complete(log, bad),
           m \in Complete(longer, worse)
    PROVE  Uploads(longer, worse) = Append(Uploads(log, bad), Delivery(longer, worse, m))
  <1> DEFINE C == Complete(log, bad)
             order == InOrder(C)
             next == InOrder(Complete(longer, worse))
             d == Delivery(longer, worse, m)
             l == Len(order)
  <1>1. log \in Seq(Entry) /\ Len(log) \in Nat
    BY Ahead
  <1>2. Starts(log) \in SUBSET (1 .. Len(log)) /\ m \in Starts(log) /\ m \in Nat
    BY <1>1, Places DEF IsLast
  <1>3. ASSUME NEW i \in Complete(longer, worse), i \notin C
        PROVE  i = m
    BY <1>1, <1>2, <1>3, NewlyComplete, LastIsOne
  <1>4. Complete(longer, worse) = C \cup {m}
    <2>1. \A i \in C : i \in Complete(longer, worse)
      BY DeliveryStays
    <2> HIDE DEF C
    <2>2. QED
      BY <1>3, <2>1
  <1>5. C \in SUBSET (1 .. Len(log)) /\ order \in Seq(C) /\ l \in Nat
    BY <1>1, CompleteType
  <1>6. C \subseteq Starts(log)
    BY DEF Complete
  <1>7. ASSUME NEW i \in C PROVE i \in Nat /\ i < m
    <2>1. i \in Nat /\ i <= m /\ i # m
      BY <1>5, <1>6 DEF IsLast
    <2>2. QED
      BY <1>2, <2>1
  <1>8. C \in SUBSET (1 .. m - 1) /\ m - 1 \in Nat
    <2>1. m >= 1
      BY <1>1, <1>2
    <2>2. m - 1 \in Nat
      BY <1>2, <2>1
    <2>3. ASSUME NEW i \in C PROVE i \in 1 .. m - 1
      <3>1. i \in 1 .. Len(log) /\ i \in Nat /\ i < m
        BY <1>5, <1>7
      <3> HIDE DEF C
      <3>2. QED
        BY <1>1, <1>2, <3>1
    <2> HIDE DEF C
    <2>4. QED
      BY <2>2, <2>3
  <1> HIDE DEF C
  <1>9. next = Append(order, m)
    <2>1. m > m - 1
      BY <1>2
    <2>2. QED
      BY <1>2, <1>4, <1>8, <2>1, InOrderGrows
  <1> HIDE DEF order, next
  <1>10. /\ Len(next) = l + 1 /\ next[l + 1] = m
         /\ \A k \in 1 .. l : next[k] = order[k] /\ order[k] \in C
    <2>1. order \in Seq(Nat)
      <3>1. C \subseteq Nat
        BY <1>7
      <3>2. QED
        BY <1>5, <3>1, SeqOfMore
    <2>2. QED
      BY <1>2, <1>5, <1>9, <2>1
  <1> HIDE DEF d, l
  <1>11. Uploads(longer, worse) = [k \in 1 .. l + 1 |-> Delivery(longer, worse, next[k])]
    BY <1>10 DEF Uploads, next
  <1>12. Uploads(log, bad) = [k \in 1 .. l |-> Delivery(log, bad, order[k])]
    BY DEF Uploads, order, C, l
  <1>13. \A k \in 1 .. l : Delivery(longer, worse, next[k]) = Delivery(log, bad, order[k])
    BY <1>10, DeliveryStays DEF C
  <1> DEFINE D == {Delivery(longer, worse, next[k]) : k \in 1 .. l + 1}
             a == Uploads(longer, worse)
             b == Uploads(log, bad)
  <1>14. a \in [1 .. l + 1 -> D]
    BY <1>11
  <1>15. b \in [1 .. l -> D]
    <2>1. \A k \in 1 .. l : k \in 1 .. l + 1
      BY <1>5
    <2>2. QED
      BY <1>12, <1>13, <2>1
  <1>16. d \in D /\ a[l + 1] = d
    <2>1. l + 1 \in 1 .. l + 1
      BY <1>5
    <2>2. QED
      BY <1>10, <1>11, <2>1 DEF d
  <1>17. \A k \in 1 .. l : a[k] = b[k]
    <2>1. \A k \in 1 .. l : k \in 1 .. l + 1
      BY <1>5
    <2>2. QED
      BY <1>11, <1>12, <1>13, <2>1
  <1> HIDE DEF D, a, b
  <1>18. a \in Seq(D) /\ Len(a) = l + 1 /\ b \in Seq(D) /\ Len(b) = l
    <2>1. l + 1 \in Nat
      BY <1>5
    <2>2. QED
      BY <1>5, <1>14, <1>15, <2>1, FunIsSeq
  <1>19. /\ Append(b, d) \in Seq(D) /\ Len(Append(b, d)) = l + 1
         /\ Append(b, d)[l + 1] = d
         /\ \A k \in 1 .. l : Append(b, d)[k] = b[k]
    BY <1>5, <1>16, <1>18
  <1>20. \A k \in 1 .. l + 1 : k \in 1 .. l \/ k = l + 1
    BY <1>5
  <1>21. \A k \in 1 .. l + 1 : a[k] = Append(b, d)[k]
    BY <1>16, <1>17, <1>19, <1>20
  <1>22. a = Append(b, d)
    BY <1>18, <1>19, <1>21, SeqEqual
  <1>23. QED
    BY <1>22 DEF a, b, d

-----------------------------------------------------------------------------
(* The upload parser.  What it holds is read off the words that the last    *)
(* upload command has had; the words of other commands in between are its   *)
(* own.                                                                      *)
Whole(p, v, bad) == Len(p) >= 2 /\ p[2] \notin bad /\ Len(p) >= 2 + v[2].val

Sent(f, p, v, bad) ==
    [cmd |-> f, to |-> p[1],
     body |-> IF v[2].val > 0 /\ p[2 + v[2].val] \in bad THEN <<>>
              ELSE SubSeq(p, 3, 2 + v[2].val)]

FeedOver(u, p, v, bad) ==
    u.cmd = "none" /\ Len(p) >= 2 /\ (p[2] \in bad \/ Len(p) >= 2 + v[2].val)

FeedBegins(u, f, p, v) == u.cmd = f /\ Len(p) < 2 /\ u.head = v /\ u.body = <<>>

FeedGoesOn(u, f, p, v, bad) ==
    /\ u.cmd = f /\ Len(p) >= 2 /\ p[2] \notin bad /\ Len(p) < 2 + v[2].val
    /\ u.head = <<v[1], v[2]>>
    /\ u.body = SubSeq(p, 3, Len(p))

FeedReads(u, f, p, v, bad) ==
    FeedOver(u, p, v, bad) \/ FeedBegins(u, f, p, v) \/ FeedGoesOn(u, f, p, v, bad)

UploadOK(u) ==
    /\ u = [cmd |-> u.cmd, head |-> u.head, body |-> u.body]
    /\ u.cmd \in UploadPorts \union {"none"}
    /\ u.head \in Seq(WordType) /\ u.body \in Seq(Nat)
    /\ u.cmd = "none" => u.head = <<>>

Feeds(u, log, bad) ==
    /\ Starts(log) = {} => u.cmd = "none"
    /\ \A m : IsLast(Starts(log), m) =>
          FeedReads(u, log[m].port, UploadWords(log, m), Valued(log, UploadWords(log, m)), bad)

UploadInv ==
    /\ writes \in Seq(Entry)
    /\ UploadOK(upload)
    /\ bufCap \in Nat
    /\ failed \in SUBSET (1 .. Len(writes))
    /\ Feeds(upload, writes, failed)
    /\ delivered = Uploads(writes, failed)

(* What the words of an upload command say of it. *)
LEMMA WholeIs ==
    ASSUME NEW log \in Seq(Entry), NEW bad, NEW m \in Starts(log), NEW p, NEW v,
           p = UploadWords(log, m), v = Valued(log, p)
    PROVE  /\ m \in Complete(log, bad) <=> Whole(p, v, bad)
           /\ Whole(p, v, bad) => Delivery(log, bad, m) = Sent(log[m].port, p, v, bad)
  <1>1. p \in Seq(1 .. Len(log)) /\ Len(p) \in Nat
    BY WordsType
  <1>2. ASSUME Len(p) >= 2 PROVE v[2].val = log[p[2]].val
    <2>1. 2 \in 1 .. Len(p)
      BY <1>1, <1>2
    <2> DEFINE a == p[2]
               b == log[p[2]].val
    <2>2. v[2] = Word(a, b)
      BY <2>1 DEF Valued
    <2> HIDE DEF a, b
    <2>3. v[2].val = b
      BY <2>2 DEF Word
    <2>4. QED
      BY <2>3 DEF b
  <1>3. m \in Complete(log, bad) <=> /\ Len(p) >= 2 /\ p[2] \notin bad
                                     /\ Len(p) >= 2 + log[p[2]].val
    BY DEF Complete
  <1>4. m \in Complete(log, bad) <=> Whole(p, v, bad)
    BY <1>2, <1>3 DEF Whole
  <1>5. ASSUME Whole(p, v, bad) PROVE Delivery(log, bad, m) = Sent(log[m].port, p, v, bad)
    <2>1. v[2].val = log[p[2]].val
      BY <1>2, <1>5 DEF Whole
    <2>2. Delivery(log, bad, m) =
            [cmd |-> log[m].port, to |-> p[1],
             body |-> IF log[p[2]].val > 0 /\ p[2 + log[p[2]].val] \in bad THEN <<>>
                      ELSE SubSeq(p, 3, 2 + log[p[2]].val)]
      BY DEF Delivery
    <2>3. QED
      BY <2>1, <2>2 DEF Sent
  <1>6. QED
    BY <1>4, <1>5

(* A word, e, follows in the log; m is the last upload command, p, v its words *)
(* before, q, x with the new one.                                              *)
Follows(log, e, longer, n, bad, worse, m, p, v, q, x) ==
    /\ Grown(log, e, longer, n) /\ Failures(log, bad, n, worse)
    /\ IsLast(Starts(log), m) /\ e.port = "data"
    /\ p = UploadWords(log, m) /\ v = Valued(log, p)
    /\ q = Append(p, n) /\ x = Append(v, Word(n, e.val))

(* A word completes the last upload, or says nothing new. *)
LEMMA UploadsAfter ==
    ASSUME NEW log, NEW e, NEW longer, NEW n, NEW bad, NEW worse, NEW m,
           NEW p, NEW v, NEW q, NEW x,
           Follows(log, e, longer, n, bad, worse, m, p, v, q, x)
    PROVE  /\ Starts(longer) = Starts(log) /\ longer[m] = log[m]
           /\ UploadWords(longer, m) = q /\ Valued(longer, q) = x
           /\ ~ Whole(q, x, worse) \/ Whole(p, v, bad) =>
                 Uploads(longer, worse) = Uploads(log, bad)
           /\ Whole(q, x, worse) /\ ~ Whole(p, v, bad) =>
                 Uploads(longer, worse)
                    = Append(Uploads(log, bad), Sent(log[m].port, q, x, worse))
  <1>0. /\ Grown(log, e, longer, n) /\ Failures(log, bad, n, worse)
        /\ IsLast(Starts(log), m) /\ e.port = "data"
        /\ p = UploadWords(log, m) /\ v = Valued(log, p)
        /\ q = Append(p, n) /\ x = Append(v, Word(n, e.val))
    BY DEF Follows
  <1>1. log \in Seq(Entry) /\ longer \in Seq(Entry) /\ Len(log) \in Nat
    BY <1>0, Ahead, LogGrows
  <1>2. Starts(log) \in SUBSET (1 .. Len(log)) /\ m \in Starts(log)
    BY <1>0, <1>1, Places DEF IsLast
  <1>3. Starts(longer) = Starts(log)
    <2>1. "data" \notin UploadPorts
      BY DEF UploadPorts
    <2>2. Starts(longer) = IF e.port \in UploadPorts THEN Starts(log) \cup {n} ELSE Starts(log)
      BY <1>0, LogGrows, SMTT(30)
    <2>3. QED
      BY <1>0, <2>1, <2>2
  <1>4. longer[m] = log[m]
    BY <1>0, <1>2, LogGrows
  <1>5. UploadWords(longer, m) = q
    BY <1>0, <1>2, UploadWordsAfter
  <1>6. Valued(longer, q) = x
    BY <1>0, <1>1, WordsType, ValuesGrow
  <1>7. m \in Complete(log, bad) <=> Whole(p, v, bad)
    BY <1>0, <1>1, <1>2, WholeIs
  <1>8. /\ m \in Complete(longer, worse) <=> Whole(q, x, worse)
        /\ Whole(q, x, worse) => Delivery(longer, worse, m) = Sent(longer[m].port, q, x, worse)
    BY <1>0, <1>1, <1>2, <1>3, <1>5, <1>6, WholeIs
  <1>9. ASSUME NEW i \in Complete(longer, worse), i \notin Complete(log, bad)
        PROVE  i = m
    <2>1. IsLast(Starts(log), i)
      BY <1>0, <1>9, NewlyComplete
    <2>2. QED
      BY <1>0, <1>1, <1>2, <2>1, LastIsOne
  <1>10. ASSUME ~ Whole(q, x, worse) \/ Whole(p, v, bad)
         PROVE  Uploads(longer, worse) = Uploads(log, bad)
    <2>1. \A i \in Complete(longer, worse) : i \in Complete(log, bad)
      BY <1>0, <1>7, <1>8, <1>9, <1>10
    <2>2. QED
      BY <1>0, <2>1, UploadsSame
  <1>11. ASSUME Whole(q, x, worse), ~ Whole(p, v, bad)
         PROVE  Uploads(longer, worse)
                   = Append(Uploads(log, bad), Sent(log[m].port, q, x, worse))
    <2>1. Uploads(longer, worse) = Append(Uploads(log, bad), Delivery(longer, worse, m))
      BY <1>0, <1>7, <1>8, <1>11, UploadsNew
    <2>2. QED
      BY <1>0, <1>4, <1>8, <1>11, <2>1
  <1>12. QED
    BY <1>0, <1>3, <1>4, <1>5, <1>6, <1>10, <1>11

(* What is no word completes no upload. *)
LEMMA UploadsStill ==
    ASSUME NEW log, NEW e, NEW longer, NEW n, Grown(log, e, longer, n),
           NEW bad, Failures(log, bad, n, bad),
           e.port # "data" \/ Starts(log) = {}
    PROVE  Uploads(longer, bad) = Uploads(log, bad)
  <1>1. ASSUME NEW i \in Complete(longer, bad) PROVE i \in Complete(log, bad)
    <2>1. CASE i \notin Complete(log, bad)
      <3>1. e.port = "data" /\ IsLast(Starts(log), i)
        BY <2>1, NewlyComplete
      <3>2. i \in Starts(log)
        BY <3>1 DEF IsLast
      <3>3. QED
        BY <3>1, <3>2
    <2>2. QED
      BY <2>1
  <1>2. QED
    BY <1>1, UploadsSame

(* A word n, w for a command that has had the words p, v. *)
Fed(l, p, v, n, w, bad, worse, q, x) ==
    /\ l \in Nat /\ n = l + 1 /\ p \in Seq(1 .. l)
    /\ v \in Seq(WordType) /\ Len(v) = Len(p)
    /\ \A k \in 1 .. Len(p) : v[k].at = p[k]
    /\ w \in WordType /\ w.at = n
    /\ bad \in SUBSET (1 .. l) /\ worse \in {bad, bad \cup {n}}
    /\ q = Append(p, n) /\ x = Append(v, w)

LEMMA FedMore ==
    ASSUME NEW l, NEW p, NEW v, NEW n, NEW w, NEW bad, NEW worse,
           NEW q, NEW x, Fed(l, p, v, n, w, bad, worse, q, x)
    PROVE  /\ Len(p) \in Nat /\ Len(v) = Len(p) /\ n \in Nat
           /\ Len(q) = Len(p) + 1 /\ q[Len(p) + 1] = n
           /\ Len(x) = Len(p) + 1 /\ x[Len(p) + 1] = w
           /\ v \in Seq(WordType) /\ x \in Seq(WordType) /\ q \in Seq(1 .. n)
           /\ w.val \in Nat
           /\ \A k \in 1 .. Len(p) : /\ q[k] = p[k] /\ x[k] = v[k] /\ v[k] \in WordType
                                     /\ v[k].val \in Nat /\ v[k].at = p[k]
                                     /\ p[k] \in 1 .. l
           /\ n \notin bad
  <1>1. /\ l \in Nat /\ n = l + 1 /\ p \in Seq(1 .. l)
        /\ v \in Seq(WordType) /\ Len(v) = Len(p)
        /\ \A k \in 1 .. Len(p) : v[k].at = p[k]
        /\ w \in WordType
        /\ bad \in SUBSET (1 .. l) /\ worse \in {bad, bad \cup {n}}
        /\ q = Append(p, n) /\ x = Append(v, w)
    BY DEF Fed
  <1>2. Len(p) \in Nat /\ n \in Nat /\ n \notin 1 .. l
    BY <1>1
  <1>3. Len(q) = Len(p) + 1 /\ q[Len(p) + 1] = n /\ \A k \in 1 .. Len(p) : q[k] = p[k]
    BY <1>1, SeqGrows
  <1>4. /\ Len(x) = Len(p) + 1 /\ x[Len(p) + 1] = w /\ x \in Seq(WordType)
        /\ \A k \in 1 .. Len(p) : x[k] = v[k] /\ v[k] \in WordType
    BY <1>1
  <1>5. q \in Seq(1 .. n)
    <2>1. 1 .. l \subseteq 1 .. n /\ n \in 1 .. n
      BY <1>1
    <2>2. p \in Seq(1 .. n)
      BY <1>1, <2>1, SeqOfMore
    <2>3. QED
      BY <1>1, <2>1, <2>2
  <1>6. \A y \in WordType : y.val \in Nat
    BY DEF WordType
  <1>7. \A k \in 1 .. Len(p) : p[k] \in 1 .. l
    BY <1>1
  <1>8. n \notin bad
    BY <1>1, <1>2
  <1>9. QED
    BY <1>1, <1>2, <1>3, <1>4, <1>5, <1>6, <1>7, <1>8

LEMMA FedBad ==
    ASSUME NEW l, NEW p, NEW v, NEW n, NEW w, NEW bad, NEW worse,
           NEW q, NEW x, Fed(l, p, v, n, w, bad, worse, q, x)
    PROVE  \A k \in 1 .. Len(p) : p[k] \in worse <=> p[k] \in bad
  <1>1. /\ l \in Nat /\ n = l + 1 /\ p \in Seq(1 .. l)
        /\ bad \in SUBSET (1 .. l) /\ worse \in {bad, bad \cup {n}}
    BY DEF Fed
  <1>2. ASSUME NEW k \in 1 .. Len(p) PROVE p[k] \in worse <=> p[k] \in bad
    <2>1. p[k] \in 1 .. l
      BY <1>1
    <2> DEFINE a == p[k]
    <2> HIDE DEF a
    <2>2. a # n
      BY <1>1, <2>1 DEF a
    <2>3. a \in worse <=> a \in bad
      BY <1>1, <2>2
    <2>4. QED
      BY <2>3 DEF a
  <1>3. QED
    BY <1>2

LEMMA IndexOneTwo ==
    ASSUME NEW l \in Nat
    PROVE  /\ l >= 1 => 1 \in 1 .. l
           /\ l >= 2 => 1 \in 1 .. l /\ 2 \in 1 .. l
  OBVIOUS

(* An upload that is over stays over. *)
LEMMA OverStays ==
    ASSUME NEW l, NEW p, NEW v, NEW n, NEW w, NEW bad,
           NEW q, NEW x, Fed(l, p, v, n, w, bad, bad, q, x),
           NEW u, FeedOver(u, p, v, bad)
    PROVE  /\ FeedOver(u, q, x, bad)
           /\ Whole(q, x, bad) => Whole(p, v, bad)
  <1>1. /\ Len(p) \in Nat /\ Len(q) = Len(p) + 1
        /\ \A k \in 1 .. Len(p) : q[k] = p[k] /\ x[k] = v[k] /\ v[k].val \in Nat
    BY FedMore
  <1>2. u.cmd = "none" /\ Len(p) >= 2 /\ (p[2] \in bad \/ Len(p) >= 2 + v[2].val)
    BY DEF FeedOver
  <1>3. 2 \in 1 .. Len(p)
    BY <1>1, <1>2, IndexOneTwo
  <1>4. q[2] = p[2] /\ x[2] = v[2] /\ v[2].val \in Nat
    BY <1>1, <1>3
  <1> DEFINE a == Len(p)
             b == Len(q)
             c == v[2].val
  <1> HIDE DEF a, b, c
  <1>5. a \in Nat /\ c \in Nat /\ b = a + 1
    BY <1>1, <1>4 DEF a, b, c
  <1>6. (a >= 2 => b >= 2) /\ (a >= 2 + c => b >= 2 + c)
    BY <1>5
  <1>7. FeedOver(u, q, x, bad)
    BY <1>2, <1>4, <1>6 DEF FeedOver, a, b, c
  <1>8. Whole(q, x, bad) => Whole(p, v, bad)
    BY <1>2, <1>4 DEF Whole
  <1>9. QED
    BY <1>7, <1>8

(* The first word. *)
LEMMA AddressReads ==
    ASSUME NEW l, NEW p, NEW v, NEW n, NEW w, NEW bad,
           NEW q, NEW x, Fed(l, p, v, n, w, bad, bad, q, x),
           NEW u, UploadOK(u), NEW f, FeedReads(u, f, p, v, bad),
           u.cmd # "none", u.head = <<>>
    PROVE  /\ UploadOK([u EXCEPT !.head = <<w>>])
           /\ FeedReads([u EXCEPT !.head = <<w>>], f, q, x, bad)
           /\ ~ Whole(q, x, bad)
  <1> DEFINE a == u.cmd
             b == u.head
             c == u.body
             h == <<w>>
             t == [u EXCEPT !.head = h]
  <1>1. /\ u = [cmd |-> a, head |-> b, body |-> c]
        /\ a \in UploadPorts \union {"none"} /\ c \in Seq(Nat)
    BY DEF UploadOK
  <1>2. FeedBegins(u, f, p, v)
    <2>1. <<>> # <<v[1], v[2]>>
      OBVIOUS
    <2>2. QED
      BY <2>1 DEF FeedReads, FeedOver, FeedGoesOn
  <1>3. a = f /\ v = <<>> /\ c = <<>>
    BY <1>2 DEF FeedBegins
  <1>4. x = h /\ Len(q) = 1 /\ x \in Seq(WordType)
    <2>1. Len(v) = Len(p) /\ Len(q) = Len(p) + 1 /\ x \in Seq(WordType)
      BY FedMore
    <2>2. Len(p) = 0
      BY <1>3, <2>1
    <2>3. x = Append(v, w)
      BY DEF Fed
    <2>4. QED
      BY <1>3, <2>1, <2>2, <2>3
  <1> HIDE DEF a, b, c, h
  <1>5. t = [cmd |-> a, head |-> h, body |-> c]
    BY <1>1
  <1> HIDE DEF t
  <1>6. t.cmd = a /\ t.head = h /\ t.body = c
    BY <1>5
  <1>7. UploadOK(t)
    BY <1>1, <1>3, <1>4, <1>5, <1>6 DEF UploadOK, a
  <1>8. FeedBegins(t, f, q, x)
    BY <1>3, <1>4, <1>6 DEF FeedBegins
  <1>9. ~ Whole(q, x, bad)
    BY <1>4 DEF Whole
  <1>10. QED
    BY <1>7, <1>8, <1>9 DEF FeedReads, t, h

LEMMA NoUploadOK == UploadOK(NoUpload) /\ NoUpload.cmd = "none"
  BY DEF UploadOK, NoUpload

LEMMA OneLong ==
    ASSUME NEW h, Len(h) = 1
    PROVE  h # <<>> /\ \A a, b : h # <<a, b>>
  <1>1. Len(<<>>) = 0 /\ \A a, b : Len(<<a, b>>) = 2
    OBVIOUS
  <1>2. 1 # 0 /\ 1 # 2
    OBVIOUS
  <1>3. QED
    BY <1>1, <1>2, Zenon

(* The second word: the count. *)
LEMMA CountReads ==
    ASSUME NEW l, NEW p, NEW v, NEW n, NEW w, NEW bad, NEW worse,
           NEW q, NEW x, Fed(l, p, v, n, w, bad, worse, q, x),
           NEW u, UploadOK(u), NEW f, FeedReads(u, f, p, v, bad), Len(u.head) = 1
    PROVE  /\ u.cmd = f /\ u.head = v /\ v[1].at = q[1] /\ Len(q) = 2 /\ q[2] = n /\ x[2] = w
           /\ u.body = <<>> /\ x = <<x[1], x[2]>> /\ Append(u.head, w) = x
           /\ x \in Seq(WordType) /\ w.val \in Nat
           /\ ~ Whole(p, v, bad)
  <1>1. Len(p) \in Nat /\ Len(v) = Len(p)
    BY FedMore
  <1>2. FeedBegins(u, f, p, v)
    <2>1. u.head # <<v[1], v[2]>> /\ u.head # <<>>
      BY OneLong, Zenon
    <2>2. ~ FeedGoesOn(u, f, p, v, bad)
      BY <2>1 DEF FeedGoesOn
    <2>3. u.cmd # "none"
      BY <2>1, Zenon DEF UploadOK
    <2>4. ~ FeedOver(u, p, v, bad)
      BY <2>3 DEF FeedOver
    <2>5. QED
      BY <2>2, <2>4 DEF FeedReads
  <1>3. u.cmd = f /\ u.head = v /\ u.body = <<>> /\ Len(p) = 1
    BY <1>1, <1>2 DEF FeedBegins
  <1>4. 1 \in 1 .. Len(p)
    BY <1>3
  <1>5. /\ Len(q) = 2 /\ q[2] = n /\ Len(x) = 2 /\ x[2] = w /\ x \in Seq(WordType)
        /\ v[1].at = q[1] /\ w.val \in Nat
    <2>1. /\ Len(q) = Len(p) + 1 /\ q[Len(p) + 1] = n
          /\ Len(x) = Len(p) + 1 /\ x[Len(p) + 1] = w /\ x \in Seq(WordType)
          /\ w.val \in Nat
      BY FedMore
    <2>2. v[1].at = p[1] /\ q[1] = p[1]
      BY <1>4, FedMore
    <2>3. QED
      BY <1>3, <2>1, <2>2
  <1>6. x = <<x[1], x[2]>>
    BY <1>5, PairIs
  <1>7. ~ Whole(p, v, bad)
    BY <1>3 DEF Whole
  <1>8. x = Append(v, w)
    BY DEF Fed
  <1>9. QED
    BY <1>3, <1>5, <1>6, <1>7, <1>8

(* ... of a body, or of none, which completes the upload; or too great. *)
LEMMA CountZero ==
    ASSUME NEW l, NEW p, NEW v, NEW n, NEW w, NEW bad, NEW q, NEW x,
           Fed(l, p, v, n, w, bad, bad, q, x), NEW f,
           Len(q) = 2, q[2] = n, x[2] = w, w.val = 0
    PROVE  /\ Whole(q, x, bad) /\ FeedReads(NoUpload, f, q, x, bad)
           /\ Sent(f, q, x, bad) = [cmd |-> f, to |-> q[1], body |-> <<>>]
  <1>0. n \in Nat /\ q \in Seq(1 .. n) /\ n \notin bad
    BY FedMore
  <1>1. SubSeq(q, 3, 2) = <<>>
    BY <1>0
  <1>2. Sent(f, q, x, bad) = [cmd |-> f, to |-> q[1], body |-> <<>>]
    BY <1>1 DEF Sent
  <1>3. Whole(q, x, bad)
    BY <1>0 DEF Whole
  <1>4. FeedOver(NoUpload, q, x, bad)
    BY NoUploadOK DEF FeedOver
  <1>5. QED
    BY <1>2, <1>3, <1>4 DEF FeedReads

LEMMA CountMore ==
    ASSUME NEW q, NEW x, NEW f \in UploadPorts, NEW bad, NEW n, NEW w,
           Len(q) = 2, q[2] = n, x[2] = w, x = <<x[1], x[2]>>, x \in Seq(WordType),
           w.val \in Nat, w.val > 0, n \notin bad, NEW l \in Nat, q \in Seq(1 .. l),
           NEW t, t = [cmd |-> f, head |-> x, body |-> <<>>]
    PROVE  UploadOK(t) /\ FeedReads(t, f, q, x, bad) /\ ~ Whole(q, x, bad)
  <1>1. SubSeq(q, 3, 2) = <<>>
    OBVIOUS
  <1>2. t.cmd = f /\ t.head = x /\ t.body = <<>>
    OBVIOUS
  <1>3. "none" \notin UploadPorts
    BY DEF UploadPorts
  <1>4. UploadOK(t)
    BY <1>2, <1>3 DEF UploadOK
  <1>5. 2 < 2 + w.val /\ ~ (2 >= 2 + w.val)
    OBVIOUS
  <1>6. FeedGoesOn(t, f, q, x, bad)
    BY <1>1, <1>2, <1>5 DEF FeedGoesOn
  <1>7. ~ Whole(q, x, bad)
    BY <1>5 DEF Whole
  <1>8. QED
    BY <1>4, <1>6, <1>7 DEF FeedReads

LEMMA CountFails ==
    ASSUME NEW q, NEW x, NEW f, NEW bad, NEW n, Len(q) = 2, q[2] = n, n \in bad
    PROVE  FeedReads(NoUpload, f, q, x, bad) /\ ~ Whole(q, x, bad)
  BY NoUploadOK DEF FeedReads, FeedOver, Whole

LEMMA TailGrows ==
    ASSUME NEW l \in Nat, NEW p \in Seq(1 .. l), NEW n \in Nat, Len(p) >= 2,
           NEW q, q = Append(p, n)
    PROVE  /\ Append(SubSeq(p, 3, Len(p)), n) = SubSeq(q, 3, Len(p) + 1)
           /\ Len(Append(SubSeq(p, 3, Len(p)), n)) = Len(p) - 1
           /\ Append(SubSeq(p, 3, Len(p)), n) \in Seq(Nat)
  <1> DEFINE k == Len(p)
             a == SubSeq(p, 3, k)
             b == Append(a, n)
             d == SubSeq(q, 3, k + 1)
  <1>1. k \in Nat /\ k >= 2 /\ p \in Seq(Nat)
    <2>1. 1 .. l \subseteq Nat
      OBVIOUS
    <2>2. p \in Seq(Nat)
      BY <2>1, SeqOfMore
    <2>3. QED
      BY <2>2
  <1>2. q \in Seq(Nat) /\ Len(q) = k + 1 /\ q[k + 1] = n /\ \A i \in 1 .. k : q[i] = p[i]
    BY <1>1
  <1> HIDE DEF k
  <1>3. a \in Seq(Nat) /\ Len(a) = k - 2 /\ \A i \in 1 .. k - 2 : a[i] = p[i + 2]
    <2>1. k - 2 \in Nat /\ 2 + (k - 2) = k /\ 2 + (k - 2) <= Len(p)
      BY <1>1 DEF k
    <2>2. QED
      BY <1>1, <2>1, TailIs
  <1>4. d \in Seq(Nat) /\ Len(d) = k - 1 /\ \A i \in 1 .. k - 1 : d[i] = q[i + 2]
    <2>1. k - 1 \in Nat /\ 2 + (k - 1) = k + 1 /\ 2 + (k - 1) <= Len(q)
      BY <1>1, <1>2
    <2>2. QED
      <3> DEFINE c == k - 1
      <3>1. c \in Nat /\ 2 + c = k + 1 /\ 2 + c <= Len(q)
        BY <2>1
      <3>2. /\ SubSeq(q, 3, 2 + c) \in Seq(Nat) /\ Len(SubSeq(q, 3, 2 + c)) = c
            /\ \A i \in 1 .. c : SubSeq(q, 3, 2 + c)[i] = q[i + 2]
        <4> HIDE DEF c
        <4>1. QED
          BY <1>2, <3>1, TailIs
      <3>3. QED
        BY <3>1, <3>2
  <1> HIDE DEF a, d
  <1>5. /\ b \in Seq(Nat) /\ Len(b) = k - 1 /\ b[k - 1] = n
        /\ \A i \in 1 .. k - 2 : b[i] = a[i]
    BY <1>1, <1>3
  <1>6. \A i \in 1 .. k - 1 : i \in 1 .. k - 2 \/ i = k - 1
    BY <1>1
  <1>7. /\ \A i \in 1 .. k - 2 : i + 2 \in 1 .. k /\ i \in 1 .. k - 1
        /\ k - 1 \in 1 .. k - 1 /\ (k - 1) + 2 = k + 1
    BY <1>1
  <1> HIDE DEF b
  <1>8. \A i \in 1 .. k - 2 : b[i] = d[i]
    BY <1>2, <1>3, <1>4, <1>5, <1>7
  <1>9. b[k - 1] = d[k - 1]
    BY <1>2, <1>4, <1>5, <1>7
  <1>10. b = d
    BY <1>4, <1>5, <1>6, <1>8, <1>9, SeqEqual
  <1>11. QED
    BY <1>5, <1>10 DEF b, a, d, k

(* A word of the body. *)
LEMMA BodyReads ==
    ASSUME NEW l, NEW p, NEW v, NEW n, NEW w, NEW bad, NEW worse,
           NEW q, NEW x, Fed(l, p, v, n, w, bad, worse, q, x),
           NEW u, UploadOK(u), NEW f, FeedReads(u, f, p, v, bad), Len(u.head) = 2
    PROVE  /\ u.cmd = f /\ u.cmd # "none" /\ u.head[2].val = x[2].val /\ u.head[1].at = q[1]
           /\ x[2].val \in Nat /\ Len(q) \in Nat /\ q[Len(q)] = n
           /\ Len(q) >= 3 /\ Len(q) <= 2 + x[2].val
           /\ q[2] \notin worse
           /\ u.head = <<x[1], x[2]>>
           /\ Append(u.body, w.at) = SubSeq(q, 3, Len(q))
           /\ Len(Append(u.body, w.at)) = Len(q) - 2
           /\ Append(u.body, w.at) \in Seq(Nat)
           /\ ~ Whole(p, v, bad)
           /\ n \notin bad
  <1>1. /\ l \in Nat /\ p \in Seq(1 .. l) /\ w.at = n /\ q = Append(p, n)
    BY DEF Fed
  <1>2. /\ Len(p) \in Nat /\ Len(v) = Len(p) /\ n \in Nat
        /\ Len(q) = Len(p) + 1 /\ q[Len(p) + 1] = n /\ n \notin bad
        /\ \A k \in 1 .. Len(p) : /\ q[k] = p[k] /\ x[k] = v[k] /\ v[k] \in WordType
                                  /\ v[k].val \in Nat /\ v[k].at = p[k]
                                  /\ (p[k] \in worse <=> p[k] \in bad)
    <2>1. /\ Len(p) \in Nat /\ Len(v) = Len(p) /\ n \in Nat
          /\ Len(q) = Len(p) + 1 /\ q[Len(p) + 1] = n /\ n \notin bad
      BY FedMore
    <2>2. \A k \in 1 .. Len(p) : /\ q[k] = p[k] /\ x[k] = v[k] /\ v[k] \in WordType
                                  /\ v[k].val \in Nat /\ v[k].at = p[k]
      BY FedMore
    <2>3. \A k \in 1 .. Len(p) : p[k] \in worse <=> p[k] \in bad
      BY FedBad
    <2>4. QED
      BY <2>1, <2>2, <2>3
  <1>3. u.cmd # "none"
    <2>1. Len(<<>>) # 2
      OBVIOUS
    <2>2. u.head # <<>>
      BY <2>1, Zenon
    <2>3. QED
      BY <2>2, Zenon DEF UploadOK
  <1>4. FeedGoesOn(u, f, p, v, bad)
    <2>1. ~ FeedBegins(u, f, p, v)
      <3>1. ASSUME FeedBegins(u, f, p, v) PROVE FALSE
        <4>1. u.head = v /\ Len(p) < 2
          BY <3>1 DEF FeedBegins
        <4>2. Len(v) = 2
          BY <4>1
        <4>3. QED
          BY <1>2, <4>1, <4>2
      <3>2. QED
        BY <3>1
    <2>2. QED
      BY <1>3, <2>1 DEF FeedReads, FeedOver
  <1>5. /\ u.cmd = f /\ Len(p) >= 2 /\ p[2] \notin bad /\ Len(p) < 2 + v[2].val
        /\ u.head = <<v[1], v[2]>>
        /\ u.body = SubSeq(p, 3, Len(p))
    BY <1>4 DEF FeedGoesOn
  <1>6. 1 \in 1 .. Len(p) /\ 2 \in 1 .. Len(p)
    BY <1>2, <1>5, IndexOneTwo
  <1>7. /\ q[1] = p[1] /\ q[2] = p[2] /\ x[1] = v[1] /\ x[2] = v[2]
        /\ v[2].val \in Nat /\ v[1].at = p[1]
        /\ p[2] \in worse <=> p[2] \in bad
    BY <1>2, <1>6
  <1>8. u.head[1] = v[1] /\ u.head[2] = v[2]
    BY <1>5
  <1>9. /\ Append(u.body, n) = SubSeq(q, 3, Len(p) + 1)
        /\ Len(Append(u.body, n)) = Len(p) - 1
        /\ Append(u.body, n) \in Seq(Nat)
    <2> DEFINE y == SubSeq(p, 3, Len(p))
    <2>1. /\ Append(y, n) = SubSeq(q, 3, Len(p) + 1)
          /\ Len(Append(y, n)) = Len(p) - 1
          /\ Append(y, n) \in Seq(Nat)
      <3>1. l \in Nat /\ p \in Seq(1 .. l) /\ n \in Nat /\ Len(p) >= 2
        BY <1>1, <1>2, <1>5
      <3>2. q = Append(p, n)
        BY <1>1
      <3>3. QED
        BY <3>1, <3>2, TailGrows, Zenon
    <2> HIDE DEF y
    <2>2. u.body = y
      BY <1>5 DEF y
    <2>3. QED
      BY <2>1, <2>2
  <1> DEFINE a == Len(p)
             b == Len(q)
             c == v[2].val
  <1> HIDE DEF a, b, c
  <1>10. a \in Nat /\ c \in Nat /\ b = a + 1 /\ a >= 2 /\ a < 2 + c
    BY <1>2, <1>5, <1>7 DEF a, b, c
  <1>11. b \in Nat /\ b >= 3 /\ b <= 2 + c /\ a - 1 = b - 2 /\ ~ (a >= 2 + c)
    BY <1>10
  <1>12. ~ Whole(p, v, bad)
    BY <1>11 DEF Whole, a, c
  <1>13. /\ Len(q) \in Nat /\ Len(q) >= 3 /\ Len(q) <= 2 + v[2].val
         /\ Len(p) - 1 = Len(q) - 2
    BY <1>11 DEF a, b, c
  <1>14. /\ u.cmd = f /\ u.cmd # "none" /\ u.head[2].val = x[2].val /\ u.head[1].at = q[1]
         /\ x[2].val \in Nat /\ q[Len(q)] = n
         /\ q[2] \notin worse /\ u.head = <<x[1], x[2]>>
    BY <1>2, <1>3, <1>5, <1>7, <1>8
  <1>15. /\ Append(u.body, w.at) = SubSeq(q, 3, Len(q))
         /\ Len(Append(u.body, w.at)) = Len(q) - 2
         /\ Append(u.body, w.at) \in Seq(Nat)
    BY <1>1, <1>2, <1>9, <1>13
  <1>16. QED
    BY <1>2, <1>7, <1>12, <1>13, <1>14, <1>15

LEMMA BodyMore ==
    ASSUME NEW q, NEW x, NEW f \in UploadPorts, NEW bad, NEW c \in Nat, x[2].val = c,
           Len(q) \in Nat, Len(q) >= 3, Len(q) - 2 < c, q[2] \notin bad,
           NEW h, h = <<x[1], x[2]>>, h \in Seq(WordType),
           NEW d \in Seq(Nat), d = SubSeq(q, 3, Len(q)),
           NEW t, t = [cmd |-> f, head |-> h, body |-> d]
    PROVE  UploadOK(t) /\ FeedReads(t, f, q, x, bad) /\ ~ Whole(q, x, bad)
  <1>1. t.cmd = f /\ t.head = h /\ t.body = d
    OBVIOUS
  <1>2. "none" \notin UploadPorts
    BY DEF UploadPorts
  <1>3. UploadOK(t)
    BY <1>1, <1>2 DEF UploadOK
  <1> DEFINE b == Len(q)
  <1> HIDE DEF b
  <1>4. b \in Nat /\ b >= 3 /\ b - 2 < c
    BY DEF b
  <1>5. b >= 2 /\ b < 2 + c /\ ~ (b >= 2 + c)
    BY <1>4
  <1>6. FeedGoesOn(t, f, q, x, bad)
    BY <1>1, <1>5 DEF FeedGoesOn, b
  <1>7. ~ Whole(q, x, bad)
    BY <1>5 DEF Whole, b
  <1>8. QED
    BY <1>3, <1>6, <1>7 DEF FeedReads

LastRead(q, x, bad) ==
    /\ x[2].val \in Nat /\ Len(q) \in Nat /\ Len(q) >= 3 /\ Len(q) <= 2 + x[2].val
    /\ ~ (Len(q) - 2 < x[2].val) /\ q[2] \notin bad

LEMMA BodyLast ==
    ASSUME NEW q, NEW x, NEW f, NEW bad, LastRead(q, x, bad)
    PROVE  /\ FeedReads(NoUpload, f, q, x, bad) /\ Whole(q, x, bad)
           /\ Sent(f, q, x, bad) =
                [cmd |-> f, to |-> q[1],
                 body |-> IF q[Len(q)] \in bad THEN <<>> ELSE SubSeq(q, 3, Len(q))]
  <1> DEFINE b == Len(q)
             c == x[2].val
  <1>1. /\ c \in Nat /\ b \in Nat /\ b >= 3 /\ b <= 2 + c /\ ~ (b - 2 < c)
        /\ q[2] \notin bad
    BY DEF LastRead
  <1> HIDE DEF b, c
  <1>2. 2 + c = b /\ c > 0 /\ b >= 2 /\ b >= 2 + c
    BY <1>1
  <1>3. Whole(q, x, bad)
    BY <1>1, <1>2 DEF Whole, b, c
  <1>4. FeedOver(NoUpload, q, x, bad)
    BY <1>2, NoUploadOK DEF FeedOver, b, c
  <1>5. Sent(f, q, x, bad) = [cmd |-> f, to |-> q[1],
           body |-> IF c > 0 /\ q[2 + c] \in bad THEN <<>> ELSE SubSeq(q, 3, 2 + c)]
    BY DEF Sent, c
  <1>6. Sent(f, q, x, bad) = [cmd |-> f, to |-> q[1],
           body |-> IF q[b] \in bad THEN <<>> ELSE SubSeq(q, 3, b)]
    BY <1>2, <1>5
  <1>7. QED
    BY <1>3, <1>4, <1>6 DEF FeedReads, b

(* After a word, the parser need only read the last command's words. *)
LEMMA FeedsAfter ==
    ASSUME NEW log, NEW e, NEW longer, NEW n, NEW bad, NEW worse, NEW m,
           NEW p, NEW v, NEW q, NEW x,
           Follows(log, e, longer, n, bad, worse, m, p, v, q, x),
           NEW t, FeedReads(t, log[m].port, q, x, worse)
    PROVE  Feeds(t, longer, worse)
  <1>1. /\ Starts(longer) = Starts(log) /\ longer[m] = log[m]
        /\ UploadWords(longer, m) = q /\ Valued(longer, q) = x
    BY UploadsAfter
  <1>2. /\ log \in Seq(Entry) /\ Len(log) \in Nat /\ Starts(log) \in SUBSET (1 .. Len(log))
        /\ IsLast(Starts(log), m)
    <2>1. Grown(log, e, longer, n) /\ IsLast(Starts(log), m)
      BY DEF Follows
    <2>2. log \in Seq(Entry) /\ Len(log) \in Nat
      BY <2>1, Ahead
    <2>3. QED
      BY <2>1, <2>2, Places
  <1>3. ASSUME NEW i, IsLast(Starts(longer), i) PROVE i = m
    BY <1>1, <1>2, <1>3, LastIsOne
  <1>4. Starts(longer) # {}
    BY <1>1, <1>2 DEF IsLast
  <1>5. QED
    BY <1>1, <1>3, <1>4 DEF Feeds

LEMMA LogIsFed ==
    ASSUME NEW log, NEW e, NEW longer, NEW n, NEW bad, NEW worse, NEW m,
           NEW p, NEW v, NEW q, NEW x,
           Follows(log, e, longer, n, bad, worse, m, p, v, q, x),
           NEW w, w = Word(n, e.val)
    PROVE  Fed(Len(log), p, v, n, w, bad, worse, q, x)
  <1>0. /\ Grown(log, e, longer, n) /\ Failures(log, bad, n, worse)
        /\ IsLast(Starts(log), m) /\ e.port = "data"
        /\ p = UploadWords(log, m) /\ v = Valued(log, p)
        /\ q = Append(p, n) /\ x = Append(v, Word(n, e.val))
    BY DEF Follows
  <1>1. log \in Seq(Entry) /\ n = Len(log) + 1 /\ Len(log) \in Nat /\ n \in Nat
    BY <1>0, Ahead
  <1>2. p \in Seq(1 .. Len(log))
    BY <1>0, <1>1, WordsType
  <1>3. /\ v \in Seq(WordType) /\ Len(v) = Len(p)
        /\ \A k \in 1 .. Len(p) : v[k] = Word(p[k], log[p[k]].val)
    BY <1>0, <1>2, ValuesGrow DEF WordType
  <1>4. \A k \in 1 .. Len(p) : v[k].at = p[k]
    <2>1. ASSUME NEW k \in 1 .. Len(p) PROVE v[k].at = p[k]
      <3> DEFINE a == p[k]
                 b == log[p[k]].val
      <3>1. v[k] = Word(a, b)
        BY <1>3
      <3> HIDE DEF a, b
      <3>2. v[k].at = a
        BY <3>1 DEF Word
      <3>3. QED
        BY <3>2 DEF a
    <2>2. QED
      BY <2>1
  <1>5. e.val \in Nat
    BY <1>0 DEF Grown, Entry
  <1>6. w \in WordType /\ w.at = n
    BY <1>0, <1>1, <1>5 DEF Word, WordType
  <1>7. bad \in SUBSET (1 .. Len(log)) /\ worse \in {bad, bad \cup {n}}
    BY <1>0 DEF Failures
  <1>8. QED
    BY <1>0, <1>1, <1>2, <1>3, <1>4, <1>6, <1>7 DEF Fed

LEMMA MaxNat ==
    ASSUME NEW a \in Nat, NEW b \in Nat
    PROVE  Max({a, b}) \in Nat
  <1>1. {a, b} \in SUBSET Nat /\ {a, b} # {} /\ a + b \in Nat /\ \A y \in {a, b} : y <= a + b
    OBVIOUS
  <1>2. Max({a, b}) \in {a, b}
    BY <1>1, MaxOf
  <1>3. QED
    BY <1>2

LEMMA WordUpload ==
    ASSUME UploadInv, NEW val \in Values, DataPort(val),
           NEW m, IsLast(Starts(writes), m)
    PROVE  UploadInv'
  <1> DEFINE e == [port |-> "data", val |-> val]
             n == Here
             w == Word(n, val)
             f == writes[m].port
             p == UploadWords(writes, m)
             q == Append(p, n)
             v == Valued(writes, p)
             x == Append(v, w)
             l == Len(writes)
  <1>1. val \in Nat /\ writes \in Seq(Entry)
    BY Sizes DEF UploadInv
  <1>2. Grown(writes, e, writes', n) /\ e.port = "data" /\ e.val = val
    BY <1>1, CommandGrows DEF DataPort
  <1>3. /\ UploadOK(upload) /\ bufCap \in Nat /\ failed \in SUBSET (1 .. l)
        /\ FeedReads(upload, f, p, v, failed)
        /\ delivered = Uploads(writes, failed)
    BY DEF UploadInv, Feeds
  <1>4. Feed(w)
    BY DEF DataPort
  <1>5. w.at = n /\ w.val = val
    BY DEF Word
  <1>6. writes' \in Seq(Entry)
    BY <1>2, LogGrows
  <1>7. f \in UploadPorts
    BY DEF IsLast, Starts
  <1> HIDE DEF e, n, w, f, p, q, v, x, l
  <1>8. ASSUME NEW worse \in {failed, failed \cup {n}}
        PROVE  /\ Follows(writes, e, writes', n, failed, worse, m, p, v, q, x)
               /\ Fed(l, p, v, n, w, failed, worse, q, x)
    <2>1. Failures(writes, failed, n, worse)
      BY <1>3 DEF Failures, l
    <2>2. w = Word(n, e.val)
      BY <1>2 DEF w
    <2>3. Follows(writes, e, writes', n, failed, worse, m, p, v, q, x)
      BY <1>2, <2>1, <2>2 DEF Follows, p, v, q, x
    <2>4. Fed(Len(writes), p, v, n, w, failed, worse, q, x)
      BY <2>2, <2>3, LogIsFed
    <2>5. QED
      BY <2>3, <2>4 DEF l
  <1>9. ASSUME failed' \in {failed, failed \cup {n}}, UploadOK(upload'), bufCap' \in Nat,
               FeedReads(upload', f, q, x, failed'),
               \/ /\ ~ Whole(q, x, failed') \/ Whole(p, v, failed)
                  /\ delivered' = delivered
               \/ /\ Whole(q, x, failed') /\ ~ Whole(p, v, failed)
                  /\ delivered' = Append(delivered, Sent(f, q, x, failed'))
        PROVE  UploadInv'
    <2>1. Follows(writes, e, writes', n, failed, failed', m, p, v, q, x)
      BY <1>8, <1>9
    <2>2. Failures(writes, failed, n, failed')
      BY <2>1 DEF Follows
    <2>3. FeedReads(upload', writes[m].port, q, x, failed')
      BY <1>9 DEF f
    <2>4. Feeds(upload', writes', failed')
      BY <2>1, <2>3, FeedsAfter
    <2>5. /\ ~ Whole(q, x, failed') \/ Whole(p, v, failed) =>
                 Uploads(writes', failed') = Uploads(writes, failed)
          /\ Whole(q, x, failed') /\ ~ Whole(p, v, failed) =>
                 Uploads(writes', failed')
                    = Append(Uploads(writes, failed), Sent(writes[m].port, q, x, failed'))
      BY <2>1, UploadsAfter
    <2>6. delivered' = Uploads(writes', failed')
      BY <1>3, <1>9, <2>5 DEF f
    <2>7. failed' \in SUBSET (1 .. Len(writes'))
      BY <1>2, <2>2, FailuresStay
    <2>8. QED
      BY <1>6, <1>9, <2>4, <2>6, <2>7 DEF UploadInv
  <1>10. Fed(l, p, v, n, w, failed, failed, q, x)
    BY <1>8
  <1>12. "none" \notin UploadPorts
    BY DEF UploadPorts
  <1>13. CASE FeedNothing
    <2>1. /\ upload.cmd = "none"
          /\ upload' = upload /\ bufCap' = bufCap /\ delivered' = delivered /\ failed' = failed
      BY <1>13 DEF FeedNothing
    <2>2. FeedOver(upload, p, v, failed)
      BY <1>3, <1>7, <1>12, <2>1 DEF FeedReads, FeedBegins, FeedGoesOn
    <2>3. /\ FeedOver(upload, q, x, failed)
          /\ Whole(q, x, failed) => Whole(p, v, failed)
      BY <1>10, <2>2, OverStays
    <2>4. FeedReads(upload, f, q, x, failed)
      BY <2>3 DEF FeedReads
    <2>5. QED
      BY <1>3, <1>9, <2>1, <2>3, <2>4
  <1>14. CASE FeedAddress(w)
    <2>1. /\ upload.cmd # "none" /\ upload.head = <<>>
          /\ upload' = [upload EXCEPT !.head = <<w>>]
          /\ bufCap' = bufCap /\ delivered' = delivered /\ failed' = failed
      BY <1>14 DEF FeedAddress
    <2>2. /\ UploadOK([upload EXCEPT !.head = <<w>>])
          /\ FeedReads([upload EXCEPT !.head = <<w>>], f, q, x, failed)
          /\ ~ Whole(q, x, failed)
      BY <1>3, <1>10, <2>1, AddressReads
    <2>3. QED
      BY <1>3, <1>9, <2>1, <2>2
  <1>15. n \notin failed /\ q \in Seq(1 .. n) /\ n \in Nat
    BY <1>10, FedMore
  <1>16. upload = [cmd |-> upload.cmd, head |-> upload.head, body |-> upload.body]
    BY <1>3 DEF UploadOK
  <1>17. CASE FeedCount(w)
    <2>1. Len(upload.head) = 1
      BY <1>17 DEF FeedCount
    <2>2. /\ upload.cmd = f /\ upload.head = v /\ v[1].at = q[1]
          /\ Len(q) = 2 /\ q[2] = n /\ x[2] = w
          /\ upload.body = <<>> /\ x = <<x[1], x[2]>> /\ Append(upload.head, w) = x
          /\ x \in Seq(WordType) /\ w.val \in Nat
          /\ ~ Whole(p, v, failed)
      BY <1>3, <1>10, <2>1, CountReads
    <2>3. CASE w.val = 0 /\ Deliver(<<>>) /\ UNCHANGED <<bufCap, failed>>
      <3>1. /\ upload' = NoUpload
            /\ delivered' = Append(delivered, [cmd |-> f, to |-> q[1], body |-> <<>>])
            /\ bufCap' = bufCap /\ failed' = failed
        BY <2>2, <2>3 DEF Deliver
      <3>2. /\ Whole(q, x, failed) /\ FeedReads(NoUpload, f, q, x, failed)
            /\ Sent(f, q, x, failed) = [cmd |-> f, to |-> q[1], body |-> <<>>]
        BY <1>10, <2>2, <2>3, CountZero
      <3>3. QED
        BY <1>3, <1>9, <2>2, <3>1, <3>2, NoUploadOK
    <2>4. CASE /\ w.val > 0
               /\ upload' = [upload EXCEPT !.head = Append(@, w)]
               /\ bufCap' = Max({w.val, bufCap})
               /\ UNCHANGED <<delivered, failed>>
      <3>1. bufCap' \in Nat
        BY <1>3, <2>2, <2>4, MaxNat
      <3>2. upload' = [cmd |-> f, head |-> x, body |-> <<>>]
        <4> DEFINE a == upload.cmd
                   b == upload.head
                   c == upload.body
        <4>1. upload' = [upload EXCEPT !.head = x]
          BY <2>2, <2>4
        <4>2. upload = [cmd |-> a, head |-> b, body |-> c]
          BY <1>16
        <4> HIDE DEF a, b, c
        <4>3. upload' = [cmd |-> a, head |-> x, body |-> c]
          BY <4>1, <4>2
        <4>4. QED
          BY <2>2, <4>3 DEF a, c
      <3>3. UploadOK(upload') /\ FeedReads(upload', f, q, x, failed) /\ ~ Whole(q, x, failed)
        BY <1>7, <1>15, <2>2, <2>4, <3>2, CountMore
      <3>4. QED
        BY <1>9, <2>4, <3>1, <3>3
    <2>5. CASE /\ w.val > bufCap
               /\ upload' = NoUpload
               /\ Fail(TRUE)
               /\ UNCHANGED <<bufCap, delivered>>
      <3>1. failed' = failed \cup {n}
        BY <2>5 DEF Fail, n
      <3>2. n \in failed'
        BY <3>1
      <3>3. FeedReads(NoUpload, f, q, x, failed') /\ ~ Whole(q, x, failed')
        BY <2>2, <3>2, CountFails
      <3>4. QED
        BY <1>3, <1>9, <2>5, <3>1, <3>3, NoUploadOK
    <2>6. QED
      BY <1>17, <2>3, <2>4, <2>5 DEF FeedCount
  <1>18. CASE FeedBody(w)
    <2> DEFINE body == Append(upload.body, w.at)
               c == x[2].val
    <2>1. Len(upload.head) = 2 /\ bufCap' = bufCap
      BY <1>18 DEF FeedBody
    <2>2. ASSUME NEW worse \in {failed, failed \cup {n}}
          PROVE  /\ upload.cmd = f /\ upload.head[2].val = c /\ upload.head[1].at = q[1]
                 /\ c \in Nat /\ Len(q) \in Nat /\ q[Len(q)] = n
                 /\ Len(q) >= 3 /\ Len(q) <= 2 + c
                 /\ q[2] \notin worse
                 /\ upload.head = <<x[1], x[2]>>
                 /\ body = SubSeq(q, 3, Len(q))
                 /\ Len(body) = Len(q) - 2
                 /\ body \in Seq(Nat)
                 /\ ~ Whole(p, v, failed)
      BY <1>3, <1>8, <2>1, BodyReads
    <2>3. failed \in {failed, failed \cup {n}}
      OBVIOUS
    <2>4. upload.head \in Seq(WordType)
      BY <1>3 DEF UploadOK
    <2>5. CASE /\ Len(body) < upload.head[2].val
               /\ upload' = [upload EXCEPT !.body = body]
               /\ UNCHANGED <<delivered, failed>>
      <3>1. upload' = [cmd |-> f, head |-> upload.head, body |-> body]
        <4> DEFINE a == upload.cmd
                   b == upload.head
                   d == upload.body
        <4>1. upload' = [upload EXCEPT !.body = body]
          BY <2>5
        <4>2. upload = [cmd |-> a, head |-> b, body |-> d]
          BY <1>16
        <4> HIDE DEF a, b, d, body
        <4>3. upload' = [cmd |-> a, head |-> b, body |-> body]
          BY <4>1, <4>2
        <4>4. a = f
          BY <2>2, <2>3 DEF a
        <4>5. QED
          BY <4>3, <4>4 DEF b
      <3> HIDE DEF body, c
      <3>2. Len(q) - 2 < c
        BY <2>2, <2>3, <2>5
      <3>3. UploadOK(upload') /\ FeedReads(upload', f, q, x, failed) /\ ~ Whole(q, x, failed)
        BY <1>7, <2>2, <2>3, <2>4, <3>1, <3>2, BodyMore DEF c
      <3>4. QED
        BY <1>3, <1>9, <2>1, <2>5, <3>3
    <2>6. CASE /\ Len(body) >= upload.head[2].val
               /\ \E lost \in BOOLEAN : Fail(lost) /\ Deliver(IF lost THEN <<>> ELSE body)
      <3>1. PICK lost \in BOOLEAN : Fail(lost) /\ Deliver(IF lost THEN <<>> ELSE body)
        BY <2>6
      <3> DEFINE copy == IF lost THEN <<>> ELSE body
      <3>2. failed' = (IF lost THEN failed \cup {n} ELSE failed) /\ upload' = NoUpload
            /\ delivered' = Append(delivered,
                  [cmd |-> upload.cmd, to |-> upload.head[1].at, body |-> copy])
        BY <3>1 DEF Fail, Deliver, n
      <3>3. failed' \in {failed, failed \cup {n}}
        BY <3>2
      <3>4. n \in failed' <=> lost
        BY <1>15, <3>2
      <3> HIDE DEF body, c, copy
      <3>5. /\ upload.cmd = f /\ upload.head[1].at = q[1] /\ x[2].val = c
            /\ c \in Nat /\ Len(q) \in Nat /\ q[Len(q)] = n
            /\ Len(q) >= 3 /\ Len(q) <= 2 + c
            /\ q[2] \notin failed'
            /\ body = SubSeq(q, 3, Len(q))
            /\ ~ Whole(p, v, failed)
        BY <2>2, <3>3 DEF c
      <3>6. ~ (Len(q) - 2 < c)
        <4>1. Len(body) = Len(q) - 2 /\ upload.head[2].val = c
          BY <2>2, <2>3
        <4>2. QED
          BY <2>6, <3>5, <4>1
      <3>7. /\ FeedReads(NoUpload, f, q, x, failed') /\ Whole(q, x, failed')
            /\ Sent(f, q, x, failed') =
                 [cmd |-> f, to |-> q[1],
                  body |-> IF q[Len(q)] \in failed' THEN <<>> ELSE SubSeq(q, 3, Len(q))]
        <4>1. LastRead(q, x, failed')
          BY <3>5, <3>6 DEF LastRead
        <4>2. QED
          BY <4>1, BodyLast
      <3>8. copy = IF q[Len(q)] \in failed' THEN <<>> ELSE SubSeq(q, 3, Len(q))
        BY <3>4, <3>5 DEF copy
      <3>9. delivered' = Append(delivered, Sent(f, q, x, failed'))
        BY <3>2, <3>5, <3>7, <3>8
      <3>10. QED
        BY <1>3, <1>9, <2>1, <3>2, <3>3, <3>5, <3>7, <3>9, NoUploadOK
    <2>7. QED
      BY <1>18, <2>5, <2>6 DEF FeedBody
  <1>19. QED
    BY <1>4, <1>13, <1>14, <1>17, <1>18 DEF Feed

LEMMA StartOK ==
    ASSUME NEW f \in UploadPorts, NEW bad
    PROVE  LET t == [NoUpload EXCEPT !.cmd = f]
           IN  UploadOK(t) /\ FeedReads(t, f, <<>>, <<>>, bad)
  <1> DEFINE t == [NoUpload EXCEPT !.cmd = f]
  <1>1. t = [cmd |-> f, head |-> <<>>, body |-> <<>>]
    BY DEF NoUpload
  <1>2. t.cmd = f /\ t.head = <<>> /\ t.body = <<>>
    BY <1>1
  <1>3. <<>> \in Seq(WordType) /\ <<>> \in Seq(Nat) /\ Len(<<>>) < 2
    OBVIOUS
  <1> HIDE DEF t
  <1>4. UploadOK(t)
    BY <1>1, <1>2, <1>3 DEF UploadOK
  <1>5. FeedReads(t, f, <<>>, <<>>, bad)
    BY <1>2, <1>3 DEF FeedReads, FeedBegins
  <1>6. QED
    BY <1>4, <1>5 DEF t

(* What is no word leaves the words of the last upload as they are. *)
LEMMA FeedsStill ==
    ASSUME NEW log, NEW e, NEW longer, NEW n, Grown(log, e, longer, n),
           NEW bad, NEW u, Feeds(u, log, bad), e.port # "data" \/ Starts(log) = {},
           Starts(longer) = Starts(log)
    PROVE  Feeds(u, longer, bad)
  <1>1. log \in Seq(Entry) /\ Len(log) \in Nat
    BY Ahead
  <1>2. ASSUME NEW m, IsLast(Starts(log), m)
        PROVE  /\ longer[m] = log[m] /\ UploadWords(longer, m) = UploadWords(log, m)
               /\ Valued(longer, UploadWords(log, m)) = Valued(log, UploadWords(log, m))
    <2> DEFINE p == UploadWords(log, m)
    <2>1. m \in Starts(log) /\ m \in 1 .. Len(log)
      BY <1>1, <1>2, Places DEF IsLast
    <2>2. longer[m] = log[m]
      BY <2>1, LogGrows
    <2>3. UploadWords(longer, m) = p
      BY <2>1, UploadWordsAfter
    <2>4. \A k \in 1 .. Len(p) : longer[p[k]] = log[p[k]]
      BY <1>1, WordsType, LogGrows
    <2> HIDE DEF p
    <2>5. Valued(longer, p) = Valued(log, p)
      BY <2>4 DEF Valued
    <2>6. QED
      BY <2>2, <2>3, <2>5 DEF p
  <1>3. QED
    BY <1>2 DEF Feeds

(* A write that is not read as an upload. *)
LEMMA OtherUploads ==
    ASSUME UploadInv, NEW e, Grown(writes, e, writes', Here),
           e.port # "data" \/ Starts(writes) = {}, e.port \notin UploadPorts,
           UNCHANGED <<upload, bufCap, delivered, failed>>
    PROVE  UploadInv'
  <1>1. writes' \in Seq(Entry) /\ Len(writes') = Here /\ Here = Len(writes) + 1
        /\ Len(writes) \in Nat
    BY LogGrows, Ahead
  <1>2. Starts(writes') = Starts(writes)
    <2>1. Starts(writes')
            = IF e.port \in UploadPorts THEN Starts(writes) \cup {Here} ELSE Starts(writes)
      BY LogGrows, SMTT(30)
    <2>2. QED
      BY <2>1
  <1>3. /\ UploadOK(upload) /\ bufCap \in Nat /\ failed \in SUBSET (1 .. Len(writes))
        /\ Feeds(upload, writes, failed) /\ delivered = Uploads(writes, failed)
    BY DEF UploadInv
  <1>4. Feeds(upload, writes', failed)
    BY <1>2, <1>3, FeedsStill
  <1>5. Uploads(writes', failed) = Uploads(writes, failed)
    <2>1. Failures(writes, failed, Here, failed)
      BY <1>3 DEF Failures
    <2>2. QED
      BY <2>1, UploadsStill
  <1>6. failed \in SUBSET (1 .. Len(writes'))
    BY <1>1, <1>3
  <1>7. QED
    BY <1>1, <1>3, <1>4, <1>5, <1>6 DEF UploadInv

LEMMA StartUpload ==
    ASSUME UploadInv, NEW f \in Ports, CommandPort(f)
    PROVE  UploadInv'
  <1> DEFINE e == [port |-> f, val |-> 0]
  <1>1. f \in AllPorts /\ f # "data"
    BY Sizes, Names
  <1>2. Grown(writes, e, writes', Here)
    BY <1>1, CommandGrows DEF UploadInv, CommandPort
  <1>3. e.port = f
    OBVIOUS
  <1> HIDE DEF e
  <1>4. /\ upload' = UploadStart(f) /\ bufCap' = bufCap /\ delivered' = delivered
        /\ failed' = failed
    BY DEF CommandPort
  <1>5. CASE f \notin UploadPorts
    BY <1>1, <1>2, <1>3, <1>4, <1>5, OtherUploads DEF UploadStart
  <1>6. CASE f \in UploadPorts
    <2>1. writes' \in Seq(Entry) /\ writes'[Here] = e /\ writes \in Seq(Entry) /\ Here \in Nat
          /\ Len(writes') = Here /\ Here = Len(writes) + 1 /\ Len(writes) \in Nat
      BY <1>2, LogGrows, Ahead
    <2>2. Starts(writes') = Starts(writes) \cup {Here}
      <3>1. Starts(writes')
              = IF e.port \in UploadPorts THEN Starts(writes) \cup {Here} ELSE Starts(writes)
        BY <1>2, LogGrows, SMTT(30)
      <3>2. QED
        BY <1>3, <1>6, <3>1
    <2>3. ASSUME NEW m, IsLast(Starts(writes'), m) PROVE m = Here
      <3>1. m \in Starts(writes') /\ Here <= m
        BY <2>2, <2>3 DEF IsLast
      <3>2. CASE m \in Starts(writes)
        <4>1. m \in Nat /\ m < Here
          BY <1>2, <2>1, <3>2, Places, Ahead
        <4>2. QED
          BY <2>1, <3>1, <4>1
      <3>3. QED
        BY <2>2, <3>1, <3>2
    <2>4. UploadWords(writes', Here) = <<>>
      BY <1>2, UploadWordsAfter
    <2>5. Valued(writes', <<>>) = <<>>
      BY DEF Valued
    <2>6. UploadOK(upload') /\ FeedReads(upload', f, <<>>, <<>>, failed')
      BY <1>4, <1>6, StartOK DEF UploadStart
    <2>7. Feeds(upload', writes', failed')
      BY <1>3, <2>1, <2>2, <2>3, <2>4, <2>5, <2>6 DEF Feeds
    <2>8. failed \in SUBSET (1 .. Len(writes)) /\ delivered = Uploads(writes, failed)
          /\ bufCap \in Nat
      BY DEF UploadInv
    <2>9. Uploads(writes', failed) = Uploads(writes, failed)
      <3>1. Failures(writes, failed, Here, failed)
        BY <2>8 DEF Failures
      <3>2. e.port # "data"
        BY <1>1, <1>3
      <3>3. QED
        BY <1>2, <3>1, <3>2, UploadsStill
    <2>10. failed \in SUBSET (1 .. Len(writes'))
      BY <2>1, <2>8
    <2>11. QED
      BY <1>4, <2>1, <2>6, <2>7, <2>8, <2>9, <2>10 DEF UploadInv
  <1>7. QED
    BY <1>5, <1>6

LEMMA ObjectUpload ==
    ASSUME UploadInv, ObjectPort
    PROVE  UploadInv'
  <1> DEFINE e == [port |-> "object", val |-> 0]
  <1>1. Grown(writes, e, writes', Here)
    BY CommandGrows DEF UploadInv, ObjectPort
  <1>2. e.port # "data" /\ e.port \notin UploadPorts
    BY DEF UploadPorts
  <1> HIDE DEF e
  <1>3. QED
    BY <1>1, <1>2, OtherUploads DEF ObjectPort

LEMMA DataUpload ==
    ASSUME UploadInv, NEW val \in Values, DataPort(val)
    PROVE  UploadInv'
  <1> DEFINE e == [port |-> "data", val |-> val]
  <1>1. val \in Nat /\ writes \in Seq(Entry)
    BY Sizes DEF UploadInv
  <1>2. Grown(writes, e, writes', Here) /\ e.port \notin UploadPorts
    BY <1>1, CommandGrows DEF DataPort, UploadPorts
  <1> HIDE DEF e
  <1>3. CASE Starts(writes) = {}
    <2>1. upload.cmd = "none" /\ upload.head = <<>>
      BY <1>3 DEF UploadInv, Feeds, UploadOK
    <2>2. Len(upload.head) = 0
      BY <2>1
    <2>3. UNCHANGED <<upload, bufCap, delivered, failed>>
      BY <2>1, <2>2 DEF DataPort, Feed, FeedNothing, FeedAddress, FeedCount, FeedBody
    <2>4. QED
      BY <1>2, <1>3, <2>3, OtherUploads
  <1>4. CASE Starts(writes) # {}
    <2>1. PICK m : IsLast(Starts(writes), m)
      BY <1>1, <1>4, Places, LastCommand
    <2>2. QED
      BY <2>1, WordUpload
  <1>5. QED
    BY <1>3, <1>4

LEMMA InitUpload == Init => UploadInv
  <1> SUFFICES ASSUME Init PROVE UploadInv
    OBVIOUS
  <1>1. /\ writes = <<>> /\ failed = {} /\ delivered = <<>> /\ upload = NoUpload /\ bufCap = 0
        /\ writes \in Seq(Entry)
    BY DEF Init
  <1>2. Starts(writes) = {} /\ Complete(writes, failed) = {}
    BY <1>1 DEF Starts, Complete
  <1>3. Feeds(upload, writes, failed)
    BY <1>1, <1>2, NoUploadOK DEF Feeds, IsLast
  <1>4. Uploads(writes, failed) = <<>>
    BY <1>2, InOrderNone DEF Uploads
  <1>5. QED
    BY <1>1, <1>3, <1>4, NoUploadOK DEF UploadInv

LEMMA NextUpload == UploadInv /\ [Next]_vars => UploadInv'
  <1> SUFFICES ASSUME UploadInv, [Next]_vars PROVE UploadInv'
    OBVIOUS
  <1>1. CASE UNCHANGED vars
    BY <1>1 DEF vars, UploadInv
  <1>2. ASSUME NEW f \in Ports, CommandPort(f) PROVE UploadInv'
    BY <1>2, StartUpload
  <1>3. CASE ObjectPort
    BY <1>3, ObjectUpload
  <1>4. ASSUME NEW val \in Values, DataPort(val) PROVE UploadInv'
    BY <1>4, DataUpload
  <1>5. QED
    BY <1>1, <1>2, <1>3, <1>4 DEF Next

(* The upload in progress is always what the words of the last upload       *)
(* command read as, and what was delivered is every upload before it.       *)
THEOREM UploadInvariance == Spec => []UploadInv
  BY InitUpload, NextUpload, PTL DEF Spec

(* The renderer gets every upload that was written whole, once and in       *)
(* order, for every log of writes and wherever an allocation failed.        *)
THEOREM UploadsFollowTheLog == Spec => []UploadsAsWritten
  <1>1. UploadInv => UploadsAsWritten
    BY DEF UploadInv, UploadsAsWritten
  <1>2. QED
    BY UploadInvariance, <1>1, PTL
=============================================================================
