--------------------------- MODULE ItemSequences ---------------------------
(***************************************************************************)
(* What the proofs about the data paths need to know about sequences: an   *)
(* item that moves from the head of one part to the end of the part before *)
(* it leaves the whole as it is, and what has come out is a first part of  *)
(* the whole.  The proofs instantiate the module for the items of a path.  *)
(***************************************************************************)
EXTENDS SequenceTheorems, TLAPS

CONSTANT Item

\* An item moves from the head of t to the end of s.
LEMMA MoveHead ==
    \A s, t \in Seq(Item) : t # <<>> => Append(s, Head(t)) \o Tail(t) = s \o t
  <1> SUFFICES ASSUME NEW s \in Seq(Item), NEW t \in Seq(Item), t # <<>>
               PROVE  Append(s, Head(t)) \o Tail(t) = s \o t
    OBVIOUS
  <1>1. Head(t) \in Item /\ Tail(t) \in Seq(Item) /\ <<Head(t)>> \in Seq(Item)
    BY HeadTailProperties
  <1>2. Append(s, Head(t)) = s \o <<Head(t)>>
    BY <1>1, AppendIsConcat
  <1>3. <<Head(t)>> \o Tail(t) = t
    BY <1>1
  <1> QED
    BY <1>1, <1>2, <1>3, ConcatAssociative

\* Parts with the same whole have the same whole with a third part behind.
LEMMA Regroup ==
    \A a, b, s, t, r \in Seq(Item) :
        a \o b = s \o t => a \o (b \o r) = s \o (t \o r)
  <1> SUFFICES ASSUME NEW a \in Seq(Item), NEW b \in Seq(Item),
                      NEW s \in Seq(Item), NEW t \in Seq(Item),
                      NEW r \in Seq(Item)
               PROVE  a \o b = s \o t => a \o (b \o r) = s \o (t \o r)
    OBVIOUS
  <1>1. (a \o b) \o r = a \o (b \o r)
    BY ConcatAssociative, SMTT(30)
  <1>2. (s \o t) \o r = s \o (t \o r)
    BY ConcatAssociative, SMTT(30)
  <1> QED
    BY <1>1, <1>2

\* An item moves from the head of t to the end of s, with r behind them.
LEMMA MoveHeadBefore ==
    \A s, t, r \in Seq(Item) :
        t # <<>> => Append(s, Head(t)) \o (Tail(t) \o r) = s \o (t \o r)
  <1> SUFFICES ASSUME NEW s \in Seq(Item), NEW t \in Seq(Item),
                      NEW r \in Seq(Item), t # <<>>
               PROVE  Append(s, Head(t)) \o (Tail(t) \o r) = s \o (t \o r)
    OBVIOUS
  <1>1. Append(s, Head(t)) \in Seq(Item) /\ Tail(t) \in Seq(Item)
    BY HeadTailProperties, AppendProperties
  <1>2. Append(s, Head(t)) \o Tail(t) = s \o t
    BY MoveHead
  <1> QED
    BY <1>1, <1>2, Regroup, SMTT(30)

\* An item that is appended to the second part is appended to the whole.
LEMMA AppendSecond ==
    \A s, t \in Seq(Item), x \in Item :
        Append(s \o t, x) = s \o Append(t, x)
  <1> SUFFICES ASSUME NEW s \in Seq(Item), NEW t \in Seq(Item), NEW x \in Item
               PROVE  Append(s \o t, x) = s \o Append(t, x)
    OBVIOUS
  <1>1. <<x>> \in Seq(Item) /\ s \o t \in Seq(Item)
    BY ConcatProperties
  <1>2. Append(s \o t, x) = (s \o t) \o <<x>>
    BY <1>1, AppendIsConcat
  <1>3. Append(t, x) = t \o <<x>>
    BY AppendIsConcat
  <1> QED
    BY <1>1, <1>2, <1>3, ConcatAssociative

\* A first part of a sequence, by its length.
LEMMA FirstPart ==
    \A s, t \in Seq(Item) :
        /\ Len(s) \in Nat /\ Len(s) <= Len(s \o t)
        /\ s = SubSeq(s \o t, 1, Len(s))
  <1> SUFFICES ASSUME NEW s \in Seq(Item), NEW t \in Seq(Item)
               PROVE  /\ Len(s) \in Nat /\ Len(s) <= Len(s \o t)
                      /\ s = SubSeq(s \o t, 1, Len(s))
    OBVIOUS
  <1> DEFINE w == SubSeq(s \o t, 1, Len(s))
  <1>1. /\ s \o t \in Seq(Item)
        /\ Len(s \o t) = Len(s) + Len(t)
        /\ \A i \in 1 .. Len(s) : (s \o t)[i] = s[i]
    BY ConcatProperties
  <1>2. Len(s) \in Nat /\ Len(t) \in Nat
    BY LenProperties
  <1>3. w \in Seq(Item) /\ Len(w) = Len(s)
        /\ \A i \in 1 .. Len(s) : w[i] = (s \o t)[i]
    BY <1>1, <1>2, SubSeqProperties
  <1>4. s = w
    BY <1>1, <1>3, SeqEqual
  <1> QED
    BY <1>1, <1>2, <1>4

\* When the head of the rest comes out, a longer first part has come out.
LEMMA NextPart ==
    \A s, t \in Seq(Item) :
        t # <<>> => \E n \in Len(s) + 1 .. Len(s \o t) :
                        Append(s, Head(t)) = SubSeq(s \o t, 1, n)
  <1> SUFFICES ASSUME NEW s \in Seq(Item), NEW t \in Seq(Item), t # <<>>
               PROVE  \E n \in Len(s) + 1 .. Len(s \o t) :
                          Append(s, Head(t)) = SubSeq(s \o t, 1, n)
    OBVIOUS
  <1> DEFINE a == Append(s, Head(t))
             b == Tail(t)
             w == s \o t
  <1>1. a \in Seq(Item) /\ b \in Seq(Item) /\ Len(a) = Len(s) + 1
    BY HeadTailProperties, AppendProperties
  <1>2. w \in Seq(Item) /\ a \o b = w
    BY MoveHead, ConcatProperties
  <1>3. Len(w) \in Nat /\ Len(s) \in Nat
    BY <1>2, LenProperties
  <1> SUFFICES \E n \in Len(s) + 1 .. Len(w) : a = SubSeq(w, 1, n)
    OBVIOUS
  <1> HIDE DEF a, b, w
  <1>4. Len(a) <= Len(w) /\ a = SubSeq(w, 1, Len(a))
    BY <1>1, <1>2, FirstPart
  <1>5. Len(a) \in Len(s) + 1 .. Len(w)
    BY <1>1, <1>3, <1>4
  <1> QED
    BY <1>4, <1>5, Zenon

\* What continues v by y is v with y appended.
LEMMA IsAppend ==
    \A v, w \in Seq(Item), y \in Item :
        /\ Len(w) = Len(v) + 1
        /\ \A k \in 1 .. Len(v) : w[k] = v[k]
        /\ w[Len(v) + 1] = y
        => w = Append(v, y)
  <1> SUFFICES ASSUME NEW v \in Seq(Item), NEW w \in Seq(Item), NEW y \in Item,
                      Len(w) = Len(v) + 1,
                      \A k \in 1 .. Len(v) : w[k] = v[k],
                      w[Len(v) + 1] = y
               PROVE  w = Append(v, y)
    OBVIOUS
  <1> DEFINE a == Append(v, y)
  <1>1. /\ a \in Seq(Item) /\ Len(a) = Len(v) + 1
        /\ \A k \in 1 .. Len(v) : a[k] = v[k]
        /\ a[Len(v) + 1] = y
    BY AppendProperties
  <1>2. Len(v) \in Nat
    BY LenProperties
  <1> SUFFICES w = a
    OBVIOUS
  <1> HIDE DEF a
  <1>3. ASSUME NEW k \in 1 .. Len(v) + 1 PROVE w[k] = a[k]
    <2>1. k \in 1 .. Len(v) \/ k = Len(v) + 1
      BY <1>2
    <2> QED
      BY <1>1, <2>1
  <1> QED
    BY <1>1, <1>3, SeqEqual

\* What is u without its first item is the tail of u.
LEMMA IsTail ==
    \A v, u \in Seq(Item) :
        /\ u # <<>>
        /\ Len(v) = Len(u) - 1
        /\ \A k \in 1 .. Len(v) : v[k] = u[k + 1]
        => v = Tail(u)
  <1> SUFFICES ASSUME NEW v \in Seq(Item), NEW u \in Seq(Item), u # <<>>,
                      Len(v) = Len(u) - 1,
                      \A k \in 1 .. Len(v) : v[k] = u[k + 1]
               PROVE  v = Tail(u)
    OBVIOUS
  <1> DEFINE a == Tail(u)
  <1>1. /\ a \in Seq(Item) /\ Len(a) = Len(u) - 1
        /\ \A k \in 1 .. Len(a) : a[k] = u[k + 1]
    BY HeadTailProperties
  <1> SUFFICES v = a
    OBVIOUS
  <1> HIDE DEF a
  <1> QED
    BY <1>1, SeqEqual

\* What is in a sequence with an item more.
LEMMA RangeAppend ==
    \A s \in Seq(Item), x \in Item : Range(Append(s, x)) = Range(s) \cup {x}
  <1> SUFFICES ASSUME NEW s \in Seq(Item), NEW x \in Item
               PROVE  Range(Append(s, x)) = Range(s) \cup {x}
    OBVIOUS
  <1> DEFINE a == Append(s, x)
  <1>1. /\ a \in Seq(Item) /\ Len(s) \in Nat
        /\ DOMAIN s = 1 .. Len(s) /\ DOMAIN a = 1 .. Len(s) + 1
        /\ \A k \in 1 .. Len(s) : a[k] = s[k]
        /\ a[Len(s) + 1] = x
    BY AppendProperties, LenProperties
  <1> HIDE DEF a
  <1>2. /\ \A k \in 1 .. Len(s) + 1 : k \in 1 .. Len(s) \/ k = Len(s) + 1
        /\ \A k \in 1 .. Len(s) : k \in 1 .. Len(s) + 1
        /\ Len(s) + 1 \in 1 .. Len(s) + 1
    BY <1>1
  <1>3. Range(a) \subseteq Range(s) \cup {x}
    BY <1>1, <1>2, Zenon DEF Range
  <1>4. Range(s) \subseteq Range(a)
    BY <1>1, <1>2, Zenon DEF Range
  <1>5. x \in Range(a)
    BY <1>1, <1>2, Zenon DEF Range
  <1> QED
    BY <1>3, <1>4, <1>5 DEF a

\* What comes behind a first part.
LEMMA LastPart ==
    \A s, t \in Seq(Item) : SubSeq(s \o t, Len(s) + 1, Len(s \o t)) = t
  <1> SUFFICES ASSUME NEW s \in Seq(Item), NEW t \in Seq(Item)
               PROVE  SubSeq(s \o t, Len(s) + 1, Len(s \o t)) = t
    OBVIOUS
  <1> DEFINE c == s \o t
             m == Len(s) + 1
             n == Len(c)
             w == SubSeq(c, m, n)
  <1>1. /\ c \in Seq(Item) /\ n = Len(s) + Len(t)
        /\ \A i \in 1 .. Len(t) : c[Len(s) + i] = t[i]
    BY ConcatProperties
  <1>2. Len(s) \in Nat /\ Len(t) \in Nat
    BY LenProperties
  <1> HIDE DEF c
  <1>3. \A i \in m .. n : c[i] \in Item
    BY <1>1, <1>2, ElementOfSeq
  <1>4. /\ w \in Seq(Item) /\ Len(w) = IF m <= n THEN n - m + 1 ELSE 0
        /\ \A i \in 1 .. n - m + 1 : w[i] = c[m + i - 1]
    <2>1. m \in Int /\ n \in Int
      BY <1>1, <1>2
    <2> HIDE DEF m, n
    <2> QED
      BY <1>3, <2>1, SubSeqProperties
  <1> HIDE DEF w
  <1>5. Len(w) = Len(t)
    BY <1>1, <1>2, <1>4
  <1>6. ASSUME NEW i \in 1 .. Len(t) PROVE w[i] = t[i]
    <2>1. i \in 1 .. n - m + 1 /\ m + i - 1 = Len(s) + i
      BY <1>1, <1>2
    <2>2. w[i] = c[m + i - 1]
      BY <1>4, <2>1
    <2> QED
      BY <1>1, <2>1, <2>2
  <1>7. w = t
    BY <1>4, <1>5, <1>6, SeqEqual
  <1> QED
    BY <1>7 DEF w, c

\* No item comes twice.
Once(s) == \A i, j \in DOMAIN s : s[i] = s[j] => i = j

\* An item of a first part is at none of the places behind it.
LEMMA InFirstPart ==
    \A s, t \in Seq(Item) :
        Once(s \o t) => \A k \in DOMAIN (s \o t) :
                            (s \o t)[k] \in Range(s) <=> k <= Len(s)
  <1> SUFFICES ASSUME NEW s \in Seq(Item), NEW t \in Seq(Item), Once(s \o t),
                      NEW k \in DOMAIN (s \o t)
               PROVE  (s \o t)[k] \in Range(s) <=> k <= Len(s)
    OBVIOUS
  <1> DEFINE c == s \o t
  <1>1. /\ c \in Seq(Item) /\ Len(c) = Len(s) + Len(t)
        /\ \A i \in 1 .. Len(s) : c[i] = s[i]
    BY ConcatProperties
  <1>2. /\ Len(s) \in Nat /\ Len(t) \in Nat
        /\ DOMAIN s = 1 .. Len(s) /\ DOMAIN c = 1 .. Len(c)
    BY <1>1, LenProperties
  <1>3. \A i, j \in DOMAIN c : c[i] = c[j] => i = j
    BY DEF Once
  <1>4. k \in DOMAIN c
    OBVIOUS
  <1> SUFFICES c[k] \in Range(s) <=> k <= Len(s)
    OBVIOUS
  <1> HIDE DEF c
  <1>5. ASSUME k <= Len(s) PROVE c[k] \in Range(s)
    <2>1. k \in DOMAIN s /\ c[k] = s[k]
      BY <1>1, <1>2, <1>4, <1>5
    <2> QED
      BY <2>1, Zenon DEF Range
  <1>6. ASSUME c[k] \in Range(s) PROVE k <= Len(s)
    <2>1. PICK i \in DOMAIN s : c[k] = s[i]
      BY <1>6, Zenon DEF Range
    <2>2. i \in DOMAIN c /\ c[k] = c[i]
      BY <1>1, <1>2, <2>1
    <2>3. k = i
      BY <1>3, <1>4, <2>2, Zenon
    <2> QED
      BY <1>2, <2>3
  <1> QED
    BY <1>5, <1>6

\* Parts of what has no item twice have none twice and none in common.
LEMMA OnceParts ==
    \A s, t \in Seq(Item) :
        Once(s \o t) => Once(s) /\ Once(t) /\ Range(s) \cap Range(t) = {}
  <1> SUFFICES ASSUME NEW s \in Seq(Item), NEW t \in Seq(Item), Once(s \o t)
               PROVE  Once(s) /\ Once(t) /\ Range(s) \cap Range(t) = {}
    OBVIOUS
  <1> DEFINE c == s \o t
             m == Len(s)
             n == Len(t)
  <1>1. /\ c \in Seq(Item) /\ Len(c) = m + n
        /\ \A i \in 1 .. m : c[i] = s[i]
        /\ \A i \in 1 .. n : c[m + i] = t[i]
    BY ConcatProperties
  <1>2. /\ m \in Nat /\ n \in Nat /\ DOMAIN s = 1 .. m /\ DOMAIN t = 1 .. n
        /\ DOMAIN c = 1 .. m + n
    BY <1>1, LenProperties
  <1>3. \A i, j \in 1 .. m + n : c[i] = c[j] => i = j
    BY <1>2 DEF Once
  <1> HIDE DEF c, m, n
  <1>4. ASSUME NEW i \in 1 .. m, NEW j \in 1 .. m, s[i] = s[j] PROVE i = j
    <2>1. i \in 1 .. m + n /\ j \in 1 .. m + n /\ c[i] = c[j]
      BY <1>1, <1>2, <1>4
    <2> QED
      BY <1>3, <2>1
  <1>5. ASSUME NEW i \in 1 .. n, NEW j \in 1 .. n, t[i] = t[j] PROVE i = j
    <2>1. m + i \in 1 .. m + n /\ m + j \in 1 .. m + n /\ c[m + i] = c[m + j]
      BY <1>1, <1>2, <1>5
    <2>2. m + i = m + j
      BY <1>3, <2>1
    <2> QED
      BY <1>2, <2>2
  <1>6. ASSUME NEW i \in 1 .. m, NEW j \in 1 .. n PROVE s[i] # t[j]
    <2>1. i \in 1 .. m + n /\ m + j \in 1 .. m + n /\ i # m + j
      BY <1>2
    <2>2. c[i] = s[i] /\ c[m + j] = t[j]
      BY <1>1
    <2> QED
      BY <1>3, <2>1, <2>2
  <1>7. Once(s) /\ Once(t)
    BY <1>2, <1>4, <1>5, Zenon DEF Once
  <1>8. Range(s) \cap Range(t) = {}
    BY <1>2, <1>6, Zenon DEF Range
  <1> QED
    BY <1>7, <1>8

\* A new item makes none come twice.
LEMMA OnceAppend ==
    \A s \in Seq(Item), x \in Item :
        Once(s) /\ x \notin Range(s) => Once(Append(s, x))
  <1> SUFFICES ASSUME NEW s \in Seq(Item), NEW x \in Item, Once(s),
                      x \notin Range(s)
               PROVE  Once(Append(s, x))
    OBVIOUS
  <1> DEFINE a == Append(s, x)
             m == Len(s)
  <1>1. /\ m \in Nat /\ DOMAIN s = 1 .. m /\ DOMAIN a = 1 .. m + 1
        /\ \A k \in 1 .. m : a[k] = s[k]
        /\ a[m + 1] = x
    BY AppendProperties, LenProperties
  <1>2. \A k \in 1 .. m : s[k] # x
    BY <1>1, Zenon DEF Range
  <1>3. \A i, j \in 1 .. m : s[i] = s[j] => i = j
    BY <1>1, Zenon DEF Once
  <1> HIDE DEF a, m
  <1>4. ASSUME NEW i \in 1 .. m + 1, NEW j \in 1 .. m + 1, a[i] = a[j]
        PROVE  i = j
    <2>1. /\ i \in 1 .. m \/ i = m + 1
          /\ j \in 1 .. m \/ j = m + 1
      BY <1>1
    <2> QED
      BY <1>1, <1>2, <1>3, <1>4, <2>1
  <1>5. Once(a)
    BY <1>1, <1>4, Zenon DEF Once
  <1> QED
    BY <1>5 DEF a
=============================================================================
