---------------------------- MODULE ProfilesProofs ----------------------------
(***************************************************************************)
(* What Profiles promises of every list of profiles and every file, with   *)
(* proofs: names identify profiles, the active one is there, what is saved *)
(* is what the next run reads, a stream keeps its caster and a dialog its  *)
(* profile.                                                                *)
(*                                                                         *)
(* The invariant, Held, says of the list and of the file's that they are   *)
(* Kept; that the snapshot is what the file boots to; and LiveInv and      *)
(* PendingInv.  A list is compared with the one it was made from place by  *)
(* place, so the first half of the module says, once per operation of      *)
(* profiles.rs, which profile is where afterwards.                         *)
(***************************************************************************)
EXTENDS Profiles, SequenceTheorems, NaturalsInduction, WellFoundedInduction, TLAPS

(* Sequences *)

\* A set of numbers has a least one; the induction that this prover can do.
LEMMA LeastNumber ==
  ASSUME NEW T \in SUBSET Nat, T # {}
  PROVE  \E m \in T : \A k \in T : m <= k
<1>1. PICK m \in T : \A k \in T : ~(<<k, m>> \in OpToRel(<, Nat))
  BY NatLessThanWellFounded, WFMin, Zenon
<1>2. \A k \in T : ~(k < m)
  BY <1>1, Zenon DEF OpToRel
<1> QED BY <1>2

\* t is s with e put in at i, or with its i-th element left out
Inserted(t, s, i, e) ==
  /\ Len(t) = Len(s) + 1
  /\ \A j \in 1 .. Len(s) + 1 : t[j] = IF j < i THEN s[j] ELSE IF j = i THEN e ELSE s[j - 1]
Removed(t, s, i) ==
  /\ Len(t) = Len(s) - 1
  /\ \A j \in 1 .. Len(s) - 1 : t[j] = IF j < i THEN s[j] ELSE s[j + 1]

LEMMA InsertIs ==
  ASSUME NEW S, NEW s \in Seq(S), NEW i \in 1 .. Len(s) + 1, NEW e \in S
  PROVE  InsertAt(s, i, e) \in Seq(S) /\ Inserted(InsertAt(s, i, e), s, i, e)
<1> DEFINE a == SubSeq(s, 1, i - 1)
           b == <<e>>
           c == SubSeq(s, i, Len(s))
<1>0. Len(s) \in Nat /\ \A k \in 1 .. Len(s) : s[k] \in S
  BY LenProperties, ElementOfSeq
<1>1. /\ a \in Seq(S) /\ Len(a) = i - 1
      /\ \A k \in 1 .. i - 1 : a[k] = s[k]
  BY <1>0, SubSeqProperties
<1>2. b \in Seq(S) /\ Len(b) = 1 /\ b[1] = e
  OBVIOUS
<1>3. /\ c \in Seq(S) /\ Len(c) = Len(s) - i + 1
      /\ \A k \in 1 .. Len(s) - i + 1 : c[k] = s[i + k - 1]
  <2>1. \A k \in i .. Len(s) : s[k] \in S
    BY <1>0
  <2>2. /\ c \in Seq(S)
        /\ Len(c) = IF i <= Len(s) THEN Len(s) - i + 1 ELSE 0
        /\ \A k \in 1 .. Len(s) - i + 1 : c[k] = s[i + k - 1]
    BY <1>0, <2>1, SubSeqProperties
  <2> QED BY <1>0, <2>2
<1> HIDE DEF a, b, c
<1>4. /\ a \o b \in Seq(S) /\ Len(a \o b) = i
      /\ \A k \in 1 .. i : (a \o b)[k] = IF k <= i - 1 THEN a[k] ELSE b[k - (i - 1)]
  <2>1. /\ a \o b \in Seq(S) /\ Len(a \o b) = Len(a) + Len(b)
        /\ \A k \in 1 .. Len(a) + Len(b) : (a \o b)[k] = IF k <= Len(a) THEN a[k] ELSE b[k - Len(a)]
    BY <1>1, <1>2, ConcatProperties
  <2> QED BY <1>1, <1>2, <2>1
<1> DEFINE ab == a \o b
<1> HIDE DEF ab
<1>5. /\ ab \o c \in Seq(S) /\ Len(ab \o c) = Len(s) + 1
      /\ \A k \in 1 .. Len(s) + 1 : (ab \o c)[k] = IF k <= i THEN ab[k] ELSE c[k - i]
  <2>0. ab \in Seq(S) /\ Len(ab) = i
    BY <1>4 DEF ab
  <2>1. /\ ab \o c \in Seq(S) /\ Len(ab \o c) = Len(ab) + Len(c)
        /\ \A k \in 1 .. Len(ab) + Len(c) : (ab \o c)[k] = IF k <= Len(ab) THEN ab[k] ELSE c[k - Len(ab)]
    BY <2>0, <1>3, ConcatProperties
  <2> QED BY <1>0, <1>3, <2>0, <2>1
<1>6. InsertAt(s, i, e) = ab \o c
  BY DEF InsertAt, ab, a, b, c
<1>7. \A k \in 1 .. i : ab[k] = IF k <= i - 1 THEN a[k] ELSE b[k - (i - 1)]
  BY <1>4 DEF ab
<1>8. ASSUME NEW j \in 1 .. Len(s) + 1
      PROVE  (ab \o c)[j] = IF j < i THEN s[j] ELSE IF j = i THEN e ELSE s[j - 1]
  <2>1. CASE j < i
    <3>1. ab[j] = a[j]
      BY <1>7, <2>1
    <3>2. (ab \o c)[j] = ab[j]
      BY <1>5, <2>1
    <3> QED BY <1>1, <2>1, <3>1, <3>2
  <2>2. CASE j = i
    <3>1. ab[j] = b[1]
      BY <1>7, <2>2
    <3> QED BY <1>2, <1>5, <2>2, <3>1
  <2>3. CASE j > i
    <3>1. (ab \o c)[j] = c[j - i]
      BY <1>5, <2>3
    <3>2. c[j - i] = s[i + (j - i) - 1]
      BY <1>0, <1>3, <2>3
    <3> QED BY <1>0, <2>3, <3>1, <3>2
  <2>4. j < i \/ j = i \/ j > i
    BY <1>0
  <2> QED BY <2>1, <2>2, <2>3, <2>4, Zenon
<1> QED BY <1>5, <1>6, <1>8 DEF Inserted

LEMMA RemoveIs ==
  ASSUME NEW S, NEW s \in Seq(S), NEW i \in 1 .. Len(s)
  PROVE  RemoveAt(s, i) \in Seq(S) /\ Removed(RemoveAt(s, i), s, i)
<1> DEFINE a == SubSeq(s, 1, i - 1)
           c == SubSeq(s, i + 1, Len(s))
<1>0. Len(s) \in Nat /\ \A k \in 1 .. Len(s) : s[k] \in S
  BY LenProperties, ElementOfSeq
<1>1. /\ a \in Seq(S) /\ Len(a) = i - 1
      /\ \A k \in 1 .. i - 1 : a[k] = s[k]
  BY <1>0, SubSeqProperties
<1>2. /\ c \in Seq(S) /\ Len(c) = Len(s) - i
      /\ \A k \in 1 .. Len(s) - i : c[k] = s[i + k]
  <2>1. \A k \in i + 1 .. Len(s) : s[k] \in S
    BY <1>0
  <2>2. /\ c \in Seq(S)
        /\ Len(c) = IF i + 1 <= Len(s) THEN Len(s) - (i + 1) + 1 ELSE 0
        /\ \A k \in 1 .. Len(s) - (i + 1) + 1 : c[k] = s[(i + 1) + k - 1]
    BY <1>0, <2>1, SubSeqProperties
  <2>3. \A k \in 1 .. Len(s) - i : k \in 1 .. Len(s) - (i + 1) + 1 /\ (i + 1) + k - 1 = i + k
    BY <1>0
  <2>4. \A k \in 1 .. Len(s) - i : c[k] = s[i + k]
    BY <2>2, <2>3
  <2> QED BY <1>0, <2>2, <2>4
<1> HIDE DEF a, c
<1>3. /\ a \o c \in Seq(S) /\ Len(a \o c) = Len(a) + Len(c)
      /\ \A k \in 1 .. Len(a) + Len(c) : (a \o c)[k] = IF k <= Len(a) THEN a[k] ELSE c[k - Len(a)]
  BY <1>1, <1>2, ConcatProperties
<1>4. RemoveAt(s, i) = a \o c
  BY DEF RemoveAt, a, c
<1>5. ASSUME NEW j \in 1 .. Len(s) - 1
      PROVE  (a \o c)[j] = IF j < i THEN s[j] ELSE s[j + 1]
  <2>1. CASE j < i
    BY <1>1, <1>2, <1>3, <2>1
  <2>2. CASE j >= i
    <3>1. (a \o c)[j] = c[j - (i - 1)]
      BY <1>0, <1>1, <1>2, <1>3, <2>2
    <3>2. c[j - (i - 1)] = s[i + (j - (i - 1))]
      BY <1>0, <1>2, <2>2
    <3> QED BY <1>0, <2>2, <3>1, <3>2
  <2>3. j < i \/ j >= i
    BY <1>0
  <2> QED BY <2>1, <2>2, <2>3, Zenon
<1> QED BY <1>0, <1>1, <1>2, <1>3, <1>4, <1>5 DEF Removed
-------------------------------------------------------------------------------
(* The rows to be added, in their order *)

Enumeration(s, A) == ToSet(s) = A /\ \A i, j \in DOMAIN s : i < j => s[i] < s[j]

LEMMA OneMoreNumber ==
  ASSUME NEW m \in Nat, NEW A \in SUBSET (1 .. m + 1),
         \A B \in SUBSET (1 .. m) : \E s \in SeqOf(B, m) : Enumeration(s, B)
  PROVE  \E s \in SeqOf(A, m + 1) : Enumeration(s, A)
<1> DEFINE B == A \ {m + 1}
<1>1. B \in SUBSET (1 .. m)
  OBVIOUS
<1>2. PICK s \in SeqOf(B, m) : Enumeration(s, B)
  BY <1>1
<1>3. PICK k \in 0 .. m : s \in [1 .. k -> B]
  BY <1>2 DEF SeqOf
<1>4. {s[i] : i \in 1 .. k} = B /\ \A i, j \in 1 .. k : i < j => s[i] < s[j]
  BY <1>2, <1>3 DEF Enumeration, ToSet
<1>5. CASE m + 1 \notin A
  <2>1. B = A
    BY <1>5
  <2>2. s \in SeqOf(A, m + 1)
    BY <1>3, <2>1 DEF SeqOf
  <2> QED BY <1>2, <2>1, <2>2
<1>6. CASE m + 1 \in A
  <2> DEFINE t == [i \in 1 .. k + 1 |-> IF i = k + 1 THEN m + 1 ELSE s[i]]
  <2>0. k \in Nat /\ k + 1 \in 0 .. m + 1
    OBVIOUS
  <2>1. \A i \in 1 .. k : t[i] = s[i] /\ s[i] \in B
    BY <1>3
  <2>2. t[k + 1] = m + 1
    OBVIOUS
  <2>3. DOMAIN t = 1 .. k + 1
    OBVIOUS
  <2>4. t \in [1 .. k + 1 -> A]
    BY <1>3, <1>6, <2>0
  <2>5. t \in SeqOf(A, m + 1)
    BY <2>0, <2>4 DEF SeqOf
  <2> HIDE DEF t
  <2>6. {t[i] : i \in 1 .. k + 1} = A
    <3>1. ASSUME NEW x \in A PROVE \E i \in 1 .. k + 1 : t[i] = x
      <4>1. CASE x = m + 1
        BY <2>0, <2>2, <4>1
      <4>2. CASE x # m + 1
        BY <1>4, <2>0, <2>1, <4>2
      <4> QED BY <4>1, <4>2
    <3>2. \A i \in 1 .. k + 1 : t[i] \in A
      BY <2>4
    <3> QED BY <3>1, <3>2
  <2>7. \A i, j \in 1 .. k + 1 : i < j => t[i] < t[j]
    <3> SUFFICES ASSUME NEW i \in 1 .. k + 1, NEW j \in 1 .. k + 1, i < j
                 PROVE  t[i] < t[j]
      OBVIOUS
    <3>1. i \in 1 .. k
      BY <2>0
    <3>2. CASE j = k + 1
      <4>1. t[i] \in 1 .. m
        BY <1>1, <2>1, <3>1
      <4> QED BY <2>2, <3>2, <4>1
    <3>3. CASE j \in 1 .. k
      BY <1>4, <2>1, <3>1, <3>3
    <3> QED BY <2>0, <3>2, <3>3
  <2>8. Enumeration(t, A)
    BY <2>3, <2>6, <2>7 DEF Enumeration, ToSet
  <2> QED BY <2>5, <2>8
<1> QED BY <1>5, <1>6

LEMMA InOrderIs ==
  ASSUME NEW n \in Nat, NEW A \in SUBSET (1 .. n)
  PROVE  InOrder(A, n) \in SeqOf(A, n) /\ Enumeration(InOrder(A, n), A)
<1> DEFINE Fine(m) == \A B \in SUBSET (1 .. m) : \E s \in SeqOf(B, m) : Enumeration(s, B)
           T == {m \in Nat : ~Fine(m)}
<1>1. Fine(0)
  <2>1. \A B \in SUBSET (1 .. 0) : B = {}
    OBVIOUS
  <2>2. <<>> \in [1 .. 0 -> {}]
    OBVIOUS
  <2>3. <<>> \in SeqOf({}, 0)
    BY <2>2 DEF SeqOf
  <2>4. Enumeration(<<>>, {})
    BY DEF Enumeration, ToSet
  <2> QED BY <2>1, <2>3, <2>4
<1>2. \A m \in Nat : Fine(m) => Fine(m + 1)
  BY OneMoreNumber
<1>3. T = {}
  <2> SUFFICES ASSUME T # {} PROVE FALSE
    OBVIOUS
  <2> HIDE DEF Fine
  <2>1. PICK m \in T : \A k \in T : m <= k
    BY LeastNumber
  <2>2. m \in Nat /\ ~Fine(m)
    OBVIOUS
  <2>3. m # 0
    BY <1>1, <2>2
  <2>4. m - 1 \in Nat /\ m - 1 \notin T
    BY <2>1, <2>2, <2>3
  <2>5. Fine(m - 1)
    BY <2>4
  <2>6. Fine((m - 1) + 1)
    BY <1>2, <2>4, <2>5
  <2> QED BY <2>2, <2>6
<1>4. \E s \in SeqOf(A, n) : Enumeration(s, A)
  <2>1. Fine(n)
    BY <1>3
  <2> QED BY <2>1
<1> QED BY <1>4 DEF InOrder, Enumeration

-------------------------------------------------------------------------------
(* Lists of profiles *)

Distinct(s) == \A i, j \in DOMAIN s : s[i].name = s[j].name => i = j

\* a list that may be settings.profiles, with a as its active profile
Kept(s, a) == /\ s \in Seq(ProfileType) /\ Len(s) \in 1 .. MaxProfiles
              /\ Distinct(s)
              /\ a \in NamesOf(s)

LEMMA Places ==
  ASSUME NEW s \in Seq(ProfileType)
  PROVE  /\ Len(s) \in Nat /\ DOMAIN s = 1 .. Len(s)
         /\ \A i \in 1 .. Len(s) : s[i] \in ProfileType
BY LenProperties, ElementOfSeq

LEMMA PositionIs ==
  ASSUME NEW s \in Seq(ProfileType), Distinct(s), NEW i \in DOMAIN s
  PROVE  PositionOf(s, s[i].name) = i
<1>1. DOMAIN s = 1 .. Len(s) /\ Len(s) \in Nat
  BY Places
<1>2. \A j \in DOMAIN s : s[j].name = s[i].name => j = i
  BY DEF Distinct
<1>3. \A j \in 1 .. i - 1 : s[j].name # s[i].name
  BY <1>1, <1>2
<1> QED BY <1>2, <1>3 DEF PositionOf

LEMMA SameNames ==
  ASSUME NEW s, NEW a, Kept(s, a), NEW t \in Seq(ProfileType), Len(t) = Len(s),
         \A i \in 1 .. Len(s) : t[i].name = s[i].name
  PROVE  Kept(t, a)
<1>1. /\ DOMAIN s = 1 .. Len(s) /\ DOMAIN t = 1 .. Len(s)
      /\ Len(s) \in 1 .. MaxProfiles
  BY Places DEF Kept
<1>2. Distinct(t)
  BY <1>1 DEF Kept, Distinct
<1>3. a \in NamesOf(t)
  BY <1>1 DEF Kept, NamesOf
<1> QED BY <1>1, <1>2, <1>3 DEF Kept

LEMMA PointSet ==
  ASSUME NEW s \in Seq(ProfileType), NEW i \in 1 .. Len(s), NEW p \in Points
  PROVE  /\ [s EXCEPT ![i].point = p] \in Seq(ProfileType)
         /\ Len([s EXCEPT ![i].point = p]) = Len(s)
         /\ \A j \in 1 .. Len(s) :
              /\ [s EXCEPT ![i].point = p][j].name = s[j].name
              /\ [s EXCEPT ![i].point = p][j].point = IF j = i THEN p ELSE s[j].point
<1> DEFINE e == [s[i] EXCEPT !.point = p]
<1>1. e \in ProfileType /\ e.name = s[i].name /\ e.point = p
  BY Places DEF ProfileType
<1>2. [s EXCEPT ![i].point = p] = [s EXCEPT ![i] = e]
  OBVIOUS
<1> HIDE DEF e
<1>3. /\ [s EXCEPT ![i] = e] \in Seq(ProfileType) /\ Len([s EXCEPT ![i] = e]) = Len(s)
      /\ \A j \in 1 .. Len(s) : [s EXCEPT ![i] = e][j] = IF j = i THEN e ELSE s[j]
  BY <1>1, ExceptSeq
<1> QED BY <1>1, <1>2, <1>3

LEMMA WrittenIs ==
  ASSUME NEW s \in Seq(ProfileType)
  PROVE  /\ Written(s) \in Seq(ProfileType) /\ Len(Written(s)) = Len(s)
         /\ \A i \in 1 .. Len(s) : /\ Written(s)[i].name = s[i].name
                                   /\ Written(s)[i].point = s[i].point
<1>1. CASE ~Traced
  BY <1>1 DEF Written
<1>2. CASE Traced
  <2> DEFINE e(i) == [s[i] EXCEPT !.was = s[i].name]
  <2>1. /\ Len(s) \in Nat /\ DOMAIN s = 1 .. Len(s)
        /\ \A i \in 1 .. Len(s) : s[i] \in ProfileType
    BY Places
  <2>2. \A i \in 1 .. Len(s) : e(i) \in ProfileType /\ e(i).name = s[i].name
                               /\ e(i).point = s[i].point
    BY <2>1 DEF ProfileType, Origin
  <2>3. Written(s) = [i \in 1 .. Len(s) |-> e(i)]
    BY <1>2, <2>1 DEF Written
  <2> HIDE DEF e
  <2>4. [i \in 1 .. Len(s) |-> e(i)] \in Seq(ProfileType)
    BY <2>1, <2>2, IsASeq
  <2>5. Len([i \in 1 .. Len(s) |-> e(i)]) = Len(s)
    BY <2>1
  <2> QED BY <2>2, <2>3, <2>4, <2>5
<1> QED BY <1>1, <1>2, BoundsAssumption

LEMMA WrittenKept ==
  ASSUME NEW s, NEW a, Kept(s, a)
  PROVE  Kept(Written(s), a)
BY WrittenIs, SameNames DEF Kept

LEMMA RenameKept ==
  ASSUME NEW s, NEW a, Kept(s, a), NEW i \in 1 .. Len(s), NEW n \in Names,
         \A j \in 1 .. Len(s) : j # i => s[j].name # n
  PROVE  /\ Kept([s EXCEPT ![i].name = n], IF a = s[i].name THEN n ELSE a)
         /\ Len([s EXCEPT ![i].name = n]) = Len(s)
         /\ \A j \in 1 .. Len(s) :
              /\ [s EXCEPT ![i].name = n][j].name = IF j = i THEN n ELSE s[j].name
              /\ [s EXCEPT ![i].name = n][j].point = s[j].point
<1> DEFINE e == [s[i] EXCEPT !.name = n]
           t == [s EXCEPT ![i] = e]
           b == IF a = s[i].name THEN n ELSE a
<1>0. s \in Seq(ProfileType) /\ Len(s) \in 1 .. MaxProfiles /\ DOMAIN s = 1 .. Len(s)
  BY Places DEF Kept
<1>1. e \in ProfileType /\ e.name = n /\ e.point = s[i].point
  BY <1>0, Places DEF ProfileType
<1>2. [s EXCEPT ![i].name = n] = t
  OBVIOUS
<1> HIDE DEF e
<1>3. /\ t \in Seq(ProfileType) /\ Len(t) = Len(s)
      /\ \A j \in 1 .. Len(s) : t[j] = IF j = i THEN e ELSE s[j]
  BY <1>0, <1>1, ExceptSeq
<1> HIDE DEF t
<1>4. DOMAIN t = 1 .. Len(s)
  BY <1>0, <1>3, Places
<1>5. Distinct(t)
  <2>1. \A j, k \in 1 .. Len(s) : s[j].name = s[k].name => j = k
    BY <1>0 DEF Kept, Distinct
  <2> QED BY <1>1, <1>3, <1>4, <2>1 DEF Distinct
<1>6. b \in NamesOf(t)
  <2>1. PICK k \in 1 .. Len(s) : s[k].name = a
    BY <1>0 DEF Kept, NamesOf
  <2>2. \A j, k2 \in 1 .. Len(s) : s[j].name = s[k2].name => j = k2
    BY <1>0 DEF Kept, Distinct
  <2>3. t[k].name = b
    BY <1>1, <1>3, <2>1, <2>2
  <2> QED BY <1>4, <2>3 DEF NamesOf
<1>7. Kept(t, b)
  BY <1>0, <1>3, <1>5, <1>6 DEF Kept
<1>8. \A j \in 1 .. Len(s) : t[j].name = (IF j = i THEN n ELSE s[j].name) /\ t[j].point = s[j].point
  BY <1>1, <1>3
<1> QED BY <1>2, <1>3, <1>7, <1>8

\* A profile of a new name, wherever it is put: Save As, Duplicate, and New.
LEMMA InsertKept ==
  ASSUME NEW s, NEW a, Kept(s, a), Len(s) < MaxProfiles,
         NEW i \in 1 .. Len(s) + 1, NEW e \in ProfileType,
         \A j \in 1 .. Len(s) : s[j].name # e.name
  PROVE  Kept(InsertAt(s, i, e), a) /\ Kept(InsertAt(s, i, e), e.name)
<1> DEFINE t == InsertAt(s, i, e)
<1>0. s \in Seq(ProfileType) /\ Len(s) \in 1 .. MaxProfiles /\ DOMAIN s = 1 .. Len(s)
  BY Places DEF Kept
<1>t. t \in Seq(ProfileType) /\ Inserted(t, s, i, e)
  BY <1>0, InsertIs
<1>1. /\ t \in Seq(ProfileType) /\ Len(t) = Len(s) + 1
      /\ \A j \in 1 .. Len(s) + 1 : t[j] = IF j < i THEN s[j] ELSE IF j = i THEN e ELSE s[j - 1]
  BY <1>t DEF Inserted
<1> HIDE DEF t
<1>2. DOMAIN t = 1 .. Len(s) + 1
  BY <1>0, <1>1, Places
<1>3. Distinct(t)
  <2>1. \A j, k \in 1 .. Len(s) : s[j].name = s[k].name => j = k
    BY <1>0 DEF Kept, Distinct
  <2> SUFFICES ASSUME NEW j \in 1 .. Len(s) + 1, NEW k \in 1 .. Len(s) + 1, j < k
               PROVE  t[j].name # t[k].name
    BY <1>2 DEF Distinct
  <2>2. CASE k = i
    <3>1. t[j] = s[j] /\ t[k] = e /\ j \in 1 .. Len(s)
      BY <1>0, <1>1, <2>2
    <3> QED BY <3>1
  <2>3. CASE j = i
    <3>1. t[k] = s[k - 1] /\ t[j] = e /\ k - 1 \in 1 .. Len(s)
      BY <1>0, <1>1, <2>3
    <3> QED BY <3>1
  <2>4. CASE j # i /\ k # i
    <3>1. PICK x \in 1 .. Len(s), y \in 1 .. Len(s) : x < y /\ t[j] = s[x] /\ t[k] = s[y]
      <4>1. CASE k < i
        BY <1>0, <1>1, <4>1
      <4>2. CASE k > i /\ j < i
        <5>1. t[j] = s[j] /\ t[k] = s[k - 1] /\ j < k - 1 /\ j \in 1 .. Len(s) /\ k - 1 \in 1 .. Len(s)
          BY <1>0, <1>1, <4>2
        <5> QED BY <5>1
      <4>3. CASE j > i
        <5>1. t[j] = s[j - 1] /\ t[k] = s[k - 1] /\ j - 1 < k - 1 /\ j - 1 \in 1 .. Len(s) /\ k - 1 \in 1 .. Len(s)
          BY <1>0, <1>1, <4>3
        <5> QED BY <5>1
      <4> QED BY <1>0, <2>4, <4>1, <4>2, <4>3
    <3> QED BY <2>1, <3>1
  <2> QED BY <2>2, <2>3, <2>4
<1>4. a \in NamesOf(t)
  <2>1. PICK k \in 1 .. Len(s) : s[k].name = a
    BY <1>0 DEF Kept, NamesOf
  <2>2. CASE k < i
    BY <1>0, <1>1, <1>2, <2>1, <2>2 DEF NamesOf
  <2>3. CASE k >= i
    <3>1. k + 1 \in 1 .. Len(s) + 1 /\ t[k + 1] = s[k]
      BY <1>0, <1>1, <2>3
    <3> QED BY <1>2, <2>1, <3>1 DEF NamesOf
  <2> QED BY <1>0, <2>2, <2>3
<1>5. e.name \in NamesOf(t)
  BY <1>0, <1>1, <1>2 DEF NamesOf
<1>6. Len(t) \in 1 .. MaxProfiles
  BY <1>0, <1>1, BoundsAssumption
<1> QED BY <1>1, <1>3, <1>4, <1>5, <1>6 DEF Kept, t

LEMMA AppendIsInsert ==
  ASSUME NEW s \in Seq(ProfileType), NEW e \in ProfileType
  PROVE  Append(s, e) = InsertAt(s, Len(s) + 1, e)
<1> DEFINE t == InsertAt(s, Len(s) + 1, e)
<1>0. Len(s) \in Nat /\ Len(s) + 1 \in 1 .. Len(s) + 1
  BY Places
<1>1. t \in Seq(ProfileType) /\ Inserted(t, s, Len(s) + 1, e)
  BY <1>0, InsertIs
<1> HIDE DEF t
<1> DEFINE u == Append(s, e)
<1>2. /\ u \in Seq(ProfileType) /\ Len(u) = Len(s) + 1
      /\ \A j \in 1 .. Len(s) : u[j] = s[j]
      /\ u[Len(s) + 1] = e
  BY AppendProperties
<1> HIDE DEF u
<1>3. Len(t) = Len(u) /\ \A j \in 1 .. Len(u) : u[j] = t[j]
  BY <1>0, <1>1, <1>2 DEF Inserted
<1>4. u = t
  BY <1>1, <1>2, <1>3, SeqEqual
<1> QED BY <1>4 DEF u, t
\* every profile of t is one of s
From(t, s) == \A j \in 1 .. Len(t) : \E k \in 1 .. Len(s) : t[j] = s[k]

LEMMA RemoveKept ==
  ASSUME NEW s, NEW a, Kept(s, a), Len(s) > 1, NEW i \in 1 .. Len(s)
  PROVE  /\ Kept(RemoveAt(s, i), IF a = s[i].name THEN RemoveAt(s, i)[1].name ELSE a)
         /\ Len(RemoveAt(s, i)) = Len(s) - 1 /\ From(RemoveAt(s, i), s)
         /\ \A j \in 1 .. Len(s) - 1 : RemoveAt(s, i)[j].name # s[i].name
<1> DEFINE t == RemoveAt(s, i)
           b == IF a = s[i].name THEN t[1].name ELSE a
<1>0. s \in Seq(ProfileType) /\ Len(s) \in 1 .. MaxProfiles /\ DOMAIN s = 1 .. Len(s)
  BY Places DEF Kept
<1>1. \A j, k \in 1 .. Len(s) : s[j].name = s[k].name => j = k
  BY <1>0 DEF Kept, Distinct
<1>t. t \in Seq(ProfileType) /\ Removed(t, s, i)
  BY <1>0, RemoveIs
<1>2. /\ t \in Seq(ProfileType) /\ Len(t) = Len(s) - 1
      /\ \A j \in 1 .. Len(s) - 1 : t[j] = IF j < i THEN s[j] ELSE s[j + 1]
  BY <1>t DEF Removed
<1> HIDE DEF t
<1>3. DOMAIN t = 1 .. Len(s) - 1
  BY <1>0, <1>2, Places
<1> DEFINE At(j) == IF j < i THEN j ELSE j + 1
<1>4. \A j \in 1 .. Len(s) - 1 : At(j) \in 1 .. Len(s) /\ At(j) # i /\ t[j] = s[At(j)]
  BY <1>0, <1>2
<1>5. \A j, k \in 1 .. Len(s) - 1 : At(j) = At(k) => j = k
  BY <1>0
<1> HIDE DEF At
<1>6. Distinct(t)
  <2> SUFFICES ASSUME NEW j \in 1 .. Len(s) - 1, NEW k \in 1 .. Len(s) - 1,
                      t[j].name = t[k].name
               PROVE  j = k
    BY <1>3 DEF Distinct
  <2>1. At(j) \in 1 .. Len(s) /\ At(k) \in 1 .. Len(s) /\ s[At(j)].name = s[At(k)].name
    BY <1>4
  <2> QED BY <1>1, <1>5, <2>1
<1>7. \A j \in 1 .. Len(s) - 1 : t[j].name # s[i].name
  BY <1>1, <1>4
<1>8. From(t, s)
  BY <1>2, <1>4 DEF From
<1>9. b \in NamesOf(t)
  <2>1. CASE a = s[i].name
    <3>1. 1 \in 1 .. Len(s) - 1
      BY <1>0
    <3> QED BY <1>3, <2>1, <3>1 DEF NamesOf
  <2>2. CASE a # s[i].name
    <3>1. PICK k \in 1 .. Len(s) : s[k].name = a
      BY <1>0 DEF Kept, NamesOf
    <3>2. PICK j \in 1 .. Len(s) - 1 : At(j) = k
      <4>1. k # i
        BY <2>2, <3>1
      <4>2. CASE k < i
        <5>1. k \in 1 .. Len(s) - 1 /\ At(k) = k
          BY <1>0, <4>2 DEF At
        <5> QED BY <5>1
      <4>3. CASE k > i
        <5>1. k - 1 \in 1 .. Len(s) - 1 /\ At(k - 1) = k
          BY <1>0, <4>3 DEF At
        <5> QED BY <5>1
      <4> QED BY <1>0, <4>1, <4>2, <4>3
    <3>3. t[j].name = a
      BY <1>4, <3>1, <3>2
    <3> QED BY <1>3, <2>2, <3>3 DEF NamesOf
  <2> QED BY <2>1, <2>2
<1>10. Len(t) \in 1 .. MaxProfiles
  BY <1>0, <1>2, BoundsAssumption
<1>11. Kept(t, b)
  BY <1>2, <1>6, <1>9, <1>10 DEF Kept
<1> QED BY <1>2, <1>7, <1>8, <1>11 DEF t

LEMMA MoveKept ==
  ASSUME NEW s, NEW a, Kept(s, a), NEW i \in 1 .. Len(s), NEW j \in 1 .. Len(s), i # j
  PROVE  /\ Kept(InsertAt(RemoveAt(s, i), j, s[i]), a)
         /\ From(InsertAt(RemoveAt(s, i), j, s[i]), s)
<1> DEFINE r == RemoveAt(s, i)
           b == IF a = s[i].name THEN r[1].name ELSE a
           e == s[i]
<1>0. /\ s \in Seq(ProfileType) /\ Len(s) \in 1 .. MaxProfiles /\ Len(s) > 1
      /\ e \in ProfileType
  BY Places DEF Kept
<1>1. /\ Kept(r, b) /\ Len(r) = Len(s) - 1 /\ From(r, s)
      /\ \A k \in 1 .. Len(s) - 1 : r[k].name # e.name
  BY <1>0, RemoveKept
<1> HIDE DEF r, e
<1>2. r \in Seq(ProfileType) /\ Len(r) < MaxProfiles /\ j \in 1 .. Len(r) + 1
      /\ \A k \in 1 .. Len(r) : r[k].name # e.name
  <2>1. r \in Seq(ProfileType)
    BY <1>1 DEF Kept
  <2> QED BY <1>0, <1>1, <2>1, BoundsAssumption
<1> DEFINE t == InsertAt(r, j, e)
<1>3. Kept(t, b) /\ Kept(t, e.name)
  BY <1>0, <1>1, <1>2, InsertKept
<1>4. Kept(t, a)
  <2>1. CASE a = e.name
    BY <1>3, <2>1
  <2>2. CASE a # e.name
    BY <1>3, <2>2 DEF e
  <2> QED BY <2>1, <2>2
<1>5. Inserted(t, r, j, e)
  BY <1>0, <1>2, InsertIs
<1> HIDE DEF t
<1>6. From(t, s)
  <2> SUFFICES ASSUME NEW k \in 1 .. Len(t)
               PROVE  \E x \in 1 .. Len(s) : t[k] = s[x]
    BY DEF From
  <2>0. Len(t) = Len(s) /\ t[k] = IF k < j THEN r[k] ELSE IF k = j THEN e ELSE r[k - 1]
    BY <1>0, <1>1, <1>5 DEF Inserted
  <2>1. CASE k < j
    <3>1. k \in 1 .. Len(r) /\ t[k] = r[k]
      BY <1>0, <1>1, <2>0, <2>1
    <3> QED BY <1>1, <3>1 DEF From
  <2>2. CASE k = j
    <3>1. t[k] = s[i]
      BY <1>0, <2>0, <2>2 DEF e
    <3> QED BY <3>1
  <2>3. CASE k > j
    <3>1. k - 1 \in 1 .. Len(r) /\ t[k] = r[k - 1]
      BY <1>0, <1>1, <2>0, <2>3
    <3> QED BY <1>1, <3>1 DEF From
  <2> QED BY <1>0, <2>0, <2>1, <2>2, <2>3
<1> QED BY <1>4, <1>6 DEF t, r, e
-------------------------------------------------------------------------------
(* Imports *)

LEMMA AddedIs ==
  ASSUME NEW rows \in Files
  PROVE  /\ Added(rows) \in Seq(ProfileType)
         /\ \E at \in [1 .. Len(Added(rows)) -> DOMAIN rows] :
              /\ \A i \in 1 .. Len(Added(rows)) :
                   Added(rows)[i].name = rows[at[i]].name /\ ~Replaces(rows[at[i]])
              /\ \A i, j \in 1 .. Len(Added(rows)) : at[i] = at[j] => i = j
<1> DEFINE A == {i \in DOMAIN rows : ~Replaces(rows[i])}
           new == InOrder(A, Len(rows))
<1>1. PICK m \in Nat : rows \in [1 .. m -> Rows]
  BY BoundsAssumption DEF Files, SeqOf
<1>2. Len(rows) = m /\ DOMAIN rows = 1 .. m
  BY <1>1
<1>3. new \in SeqOf(A, m) /\ Enumeration(new, A)
  BY <1>2, InOrderIs
<1> HIDE DEF new
<1>4. PICK k \in 0 .. m : new \in [1 .. k -> A]
  BY <1>3 DEF SeqOf
<1>5. \A i, j \in 1 .. k : i < j => new[i] < new[j]
  BY <1>3, <1>4 DEF Enumeration
<1> DEFINE e(i) == Profile(rows[new[i]].name, rows[new[i]].point)
<1>6. \A i \in 1 .. k : /\ new[i] \in DOMAIN rows /\ ~Replaces(rows[new[i]])
                        /\ rows[new[i]] \in Rows
  BY <1>1, <1>2, <1>4
<1>7. \A i \in 1 .. k : e(i) \in ProfileType /\ e(i).name = rows[new[i]].name
  <2>1. FilePoints \subseteq Points
    BY PointsAssumption
  <2> QED BY <1>6, <2>1 DEF Rows, Profile, ProfileType, Origin
<1>8. Added(rows) = [i \in 1 .. k |-> e(i)]
  BY <1>4 DEF Added, new
<1> HIDE DEF e
<1>9. [i \in 1 .. k |-> e(i)] \in Seq(ProfileType) /\ Len([i \in 1 .. k |-> e(i)]) = k
  <2>1. k \in Nat
    OBVIOUS
  <2>2. [i \in 1 .. k |-> e(i)] \in Seq(ProfileType)
    BY <1>7, <2>1, IsASeq
  <2> QED BY <2>1, <2>2
<1>10. new \in [1 .. k -> DOMAIN rows]
  BY <1>4, <1>6
<1>11. \A i, j \in 1 .. k : new[i] = new[j] => i = j
  <2>1. \A i \in 1 .. k : new[i] \in Int
    BY <1>2, <1>6
  <2> QED BY <1>5, <2>1
<1> QED BY <1>6, <1>7, <1>8, <1>9, <1>10, <1>11

LEMMA ReplacedIs ==
  ASSUME NEW rows \in Files, NEW p \in ProfileType
  PROVE  /\ Replaced(rows, p) \in ProfileType
         /\ Replaced(rows, p).name = p.name
         /\ (\A r \in ToSet(rows) : Replaces(r) => r.name # p.name) => Replaced(rows, p) = p
<1>1. CASE Replacement(rows, p) = {}
  BY <1>1 DEF Replaced
<1>2. CASE Replacement(rows, p) # {}
  <2> DEFINE r == CHOOSE r \in Replacement(rows, p) : TRUE
  <2>1. r \in Replacement(rows, p)
    BY <1>2
  <2>2. r \in ToSet(rows) /\ Replaces(r) /\ r.name = p.name
    BY <2>1 DEF Replacement
  <2>3. r.point \in Points
    <3>1. PICK m \in Nat : rows \in [1 .. m -> Rows]
      BY BoundsAssumption DEF Files, SeqOf
    <3>2. r \in Rows
      BY <2>2, <3>1 DEF ToSet
    <3>3. FilePoints \subseteq Points
      BY PointsAssumption
    <3> QED BY <3>2, <3>3 DEF Rows
  <2> HIDE DEF r
  <2>4. Replaced(rows, p) = [p EXCEPT !.point = r.point]
    BY <1>2 DEF Replaced, r
  <2> QED BY <2>2, <2>3, <2>4 DEF ProfileType
<1> QED BY <1>1, <1>2

LEMMA ImportedIs ==
  ASSUME Kept(profiles, active), NEW rows \in Files,
         \A i \in DOMAIN rows : RowFine(rows, i), Len(Imported(rows)) <= MaxProfiles
  PROVE  /\ Kept(Imported(rows), active)
         /\ Len(Imported(rows)) >= Len(profiles)
         /\ \A i \in 1 .. Len(profiles) :
              /\ Imported(rows)[i].name = profiles[i].name
              /\ Busy /\ profiles[i].name = active => Imported(rows)[i] = profiles[i]
         /\ \A i \in 1 .. Len(Imported(rows)) : i > Len(profiles) => Imported(rows)[i].name # active
<1> DEFINE b == [i \in DOMAIN profiles |-> Replaced(rows, profiles[i])]
           n == Len(profiles)
           u == Added(rows)
<1>0. /\ profiles \in Seq(ProfileType) /\ n \in 1 .. MaxProfiles /\ DOMAIN profiles = 1 .. n
      /\ \A i \in 1 .. n : profiles[i] \in ProfileType
      /\ \A i, j \in 1 .. n : profiles[i].name = profiles[j].name => i = j
  BY Places DEF Kept, Distinct
<1>1. \A i \in 1 .. n : Replaced(rows, profiles[i]) \in ProfileType
                        /\ Replaced(rows, profiles[i]).name = profiles[i].name
  BY <1>0, ReplacedIs
<1>2. b \in Seq(ProfileType) /\ Len(b) = n
  <2> DEFINE e(i) == Replaced(rows, profiles[i])
  <2>1. \A i \in 1 .. n : e(i) \in ProfileType
    BY <1>1
  <2>2. b = [i \in 1 .. n |-> e(i)]
    BY <1>0
  <2> HIDE DEF e
  <2>3. n \in Nat
    BY <1>0
  <2>4. [i \in 1 .. n |-> e(i)] \in Seq(ProfileType)
    BY <2>1, <2>3, IsASeq
  <2> QED BY <2>2, <2>3, <2>4
<1>3. \A i \in 1 .. n : b[i] = Replaced(rows, profiles[i])
  BY <1>0
<1>4. u \in Seq(ProfileType)
  BY AddedIs
<1>5. PICK at \in [1 .. Len(u) -> DOMAIN rows] :
        /\ \A i \in 1 .. Len(u) : u[i].name = rows[at[i]].name /\ ~Replaces(rows[at[i]])
        /\ \A i, j \in 1 .. Len(u) : at[i] = at[j] => i = j
  BY AddedIs
<1>6. Imported(rows) = b \o u
  BY DEF Imported
<1> HIDE DEF b, u
<1>7. Len(u) \in Nat /\ DOMAIN u = 1 .. Len(u)
  BY <1>4, Places
<1>8. /\ b \o u \in Seq(ProfileType) /\ Len(b \o u) = n + Len(u)
      /\ \A i \in 1 .. n + Len(u) : (b \o u)[i] = IF i <= n THEN b[i] ELSE u[i - n]
  <2>1. /\ b \o u \in Seq(ProfileType) /\ Len(b \o u) = Len(b) + Len(u)
        /\ \A i \in 1 .. Len(b) + Len(u) : (b \o u)[i] = IF i <= Len(b) THEN b[i] ELSE u[i - Len(b)]
    BY <1>2, <1>4, ConcatProperties
  <2> QED BY <1>2, <2>1
<1> DEFINE t == b \o u
<1>9. \A i \in 1 .. n : t[i] = b[i] /\ t[i].name = profiles[i].name
  BY <1>0, <1>1, <1>3, <1>7, <1>8
<1>10. ASSUME NEW k \in 1 .. Len(u)
       PROVE  /\ t[n + k].name = u[k].name
              /\ \A i \in 1 .. n : profiles[i].name # u[k].name
  <2>1. t[n + k] = u[k]
    BY <1>0, <1>7, <1>8
  <2>2. at[k] \in DOMAIN rows /\ u[k].name = rows[at[k]].name /\ ~Replaces(rows[at[k]])
    BY <1>5
  <2>3. CheckName(0, rows[at[k]].name)
    BY <2>2 DEF RowFine
  <2> QED BY <1>0, <2>1, <2>2, <2>3 DEF CheckName
<1>11. \A j, k \in 1 .. Len(u) : u[j].name = u[k].name => j = k
  <2> SUFFICES ASSUME NEW j \in 1 .. Len(u), NEW k \in 1 .. Len(u), u[j].name = u[k].name
               PROVE  j = k
    OBVIOUS
  <2>1. rows[at[j]].name = rows[at[k]].name /\ at[j] \in DOMAIN rows /\ at[k] \in DOMAIN rows
    BY <1>5
  <2>2. at[j] = at[k]
    BY <2>1 DEF RowFine
  <2> QED BY <1>5, <2>2
<1> HIDE DEF t
<1>12. DOMAIN t = 1 .. n + Len(u) /\ t \in Seq(ProfileType) /\ Len(t) = n + Len(u)
  BY <1>8, Places DEF t
<1>13. Distinct(t)
  <2> SUFFICES ASSUME NEW i \in 1 .. n + Len(u), NEW j \in 1 .. n + Len(u), i < j,
                      t[i].name = t[j].name
               PROVE  FALSE
    BY <1>0, <1>7, <1>12 DEF Distinct
  <2>1. CASE j <= n
    BY <1>0, <1>9, <2>1
  <2>2. CASE i <= n /\ j > n
    <3>1. j - n \in 1 .. Len(u) /\ n + (j - n) = j
      BY <1>0, <1>7, <2>2
    <3>2. t[j].name = u[j - n].name /\ profiles[i].name # u[j - n].name
      BY <1>0, <1>10, <2>2, <3>1
    <3> QED BY <1>0, <1>9, <2>2, <3>2
  <2>3. CASE i > n
    <3>1. /\ j - n \in 1 .. Len(u) /\ n + (j - n) = j
          /\ i - n \in 1 .. Len(u) /\ n + (i - n) = i /\ i - n # j - n
      BY <1>0, <1>7, <2>3
    <3>2. t[j].name = u[j - n].name /\ t[i].name = u[i - n].name
      BY <1>10, <3>1
    <3> QED BY <1>11, <3>1, <3>2
  <2> QED BY <1>0, <1>7, <2>1, <2>2, <2>3
<1>14. active \in NamesOf(t)
  <2>1. PICK i \in 1 .. n : profiles[i].name = active
    BY <1>0 DEF Kept, NamesOf
  <2> QED BY <1>0, <1>7, <1>9, <1>12, <2>1 DEF NamesOf
<1>15. Kept(t, active)
  <2>1. Len(t) <= MaxProfiles
    BY <1>6 DEF t
  <2>2. Len(t) \in 1 .. MaxProfiles
    BY <1>0, <1>7, <1>12, <2>1, BoundsAssumption
  <2> QED BY <1>12, <1>13, <1>14, <2>2 DEF Kept
<1>16. ASSUME NEW i \in 1 .. n, Busy, profiles[i].name = active
       PROVE  t[i] = profiles[i]
  <2>1. \A r \in ToSet(rows) : Replaces(r) => r.name # active
    BY <1>16 DEF ToSet, RowFine
  <2>2. Replaced(rows, profiles[i]) = profiles[i]
    BY <1>0, <1>16, <2>1, ReplacedIs
  <2> QED BY <1>3, <1>9, <2>2
<1>17. ASSUME NEW i \in 1 .. n + Len(u), i > n
       PROVE  t[i].name # active
  <2>1. i - n \in 1 .. Len(u) /\ n + (i - n) = i
    BY <1>0, <1>7, <1>17
  <2>2. t[i].name = u[i - n].name
    BY <1>10, <2>1
  <2>3. PICK k \in 1 .. n : profiles[k].name = active
    BY <1>0 DEF Kept, NamesOf
  <2> QED BY <1>10, <2>1, <2>2, <2>3
<1> QED BY <1>0, <1>6, <1>7, <1>9, <1>12, <1>15, <1>16, <1>17 DEF t
-------------------------------------------------------------------------------
(* Save As *)

SettingsInv == Kept(profiles, active)
DiskInv     == saved = Boot(file) /\ Kept(saved.profiles, saved.active)

Casters    == {p.caster : p \in Points}
SessionInv == live.caster \in Casters /\ table \in Casters \cup {NoTable}
DialogInv  == /\ window \in BOOLEAN
              /\ pending.kind \in {"none", "SaveAs", "New", "Duplicate", "rename", "delete"}

LiveInv == Busy => \A i \in 1 .. Len(profiles) :
                     profiles[i].name = active => profiles[i].point.caster = live.caster

Held == /\ SettingsInv /\ DiskInv /\ SessionInv /\ DialogInv
        /\ LiveInv /\ PendingHitsItsTarget

LEMMA ActiveIs ==
  ASSUME SettingsInv
  PROVE  /\ ActiveIndex \in 1 .. Len(profiles) /\ profiles[ActiveIndex].name = active
         /\ \A i \in 1 .. Len(profiles) : profiles[i].name = active => i = ActiveIndex
         /\ ActivePoint \in Points
<1>1. /\ profiles \in Seq(ProfileType) /\ DOMAIN profiles = 1 .. Len(profiles)
      /\ \A i \in 1 .. Len(profiles) : profiles[i] \in ProfileType
      /\ Distinct(profiles) /\ active \in NamesOf(profiles)
  BY Places DEF SettingsInv, Kept
<1>2. PICK i \in 1 .. Len(profiles) : profiles[i].name = active
  BY <1>1 DEF NamesOf
<1>3. ActiveIndex = i
  BY <1>1, <1>2, PositionIs DEF ActiveIndex
<1>4. \A j \in 1 .. Len(profiles) : profiles[j].name = active => j = i
  BY <1>1, <1>2 DEF Distinct
<1> QED BY <1>1, <1>2, <1>3, <1>4 DEF ActivePoint, ProfileType

LEMMA SourceIs ==
  ASSUME DiskInv, NEW p \in ProfileType
  PROVE  SourceAfter(p) \in ProfileType /\ SourceAfter(p).name = p.name
<1>1. CASE p.name \notin NamesOf(saved.profiles)
  BY <1>1 DEF SourceAfter
<1>2. CASE p.name \in NamesOf(saved.profiles)
  <2> DEFINE s == saved.profiles
  <2>1. /\ s \in Seq(ProfileType) /\ DOMAIN s = 1 .. Len(s) /\ Distinct(s)
        /\ \A i \in 1 .. Len(s) : s[i] \in ProfileType
    BY Places DEF DiskInv, Kept
  <2>2. PICK i \in 1 .. Len(s) : s[i].name = p.name
    BY <1>2, <2>1 DEF NamesOf
  <2>3. PositionOf(s, p.name) = i
    BY <2>1, <2>2, PositionIs
  <2>4. SourceAfter(p) = s[i]
    BY <1>2, <2>3 DEF SourceAfter
  <2> QED BY <2>1, <2>2, <2>4
<1> QED BY <1>1, <1>2

LEMMA SavedAsIs ==
  ASSUME SettingsInv, DiskInv, NEW n \in Names, CheckName(0, n), Room
  PROVE  /\ Kept(SavedAs(n), n)
         /\ \A i \in 1 .. Len(SavedAs(n)) : SavedAs(n)[i].name = n => SavedAs(n)[i].point = ActivePoint
<1> DEFINE a == ActiveIndex
           p == SourceAfter(profiles[a])
           s == [profiles EXCEPT ![a] = p]
           e == Profile(n, profiles[a].point)
           t == InsertAt(s, a + 1, e)
<1>0. /\ profiles \in Seq(ProfileType) /\ Len(profiles) \in 1 .. MaxProfiles
      /\ DOMAIN profiles = 1 .. Len(profiles)
      /\ \A i \in 1 .. Len(profiles) : profiles[i] \in ProfileType
  BY Places DEF SettingsInv, Kept
<1>1. a \in 1 .. Len(profiles)
  BY ActiveIs
<1>2. SavedAs(n) = t
  BY DEF SavedAs
<1>3. p \in ProfileType /\ p.name = profiles[a].name
  BY <1>0, <1>1, SourceIs
<1>4. e \in ProfileType /\ e.name = n /\ e.point = ActivePoint
  <2>1. profiles[a].point \in Points
    BY <1>0, <1>1 DEF ProfileType
  <2> QED BY <2>1 DEF Profile, ProfileType, Origin, ActivePoint
<1> HIDE DEF p, e, a
<1>5. /\ s \in Seq(ProfileType) /\ Len(s) = Len(profiles)
      /\ \A i \in 1 .. Len(profiles) : s[i] = IF i = a THEN p ELSE profiles[i]
  BY <1>0, <1>1, <1>3, ExceptSeq
<1> HIDE DEF s
<1>6. Kept(s, active)
  <2>1. \A i \in 1 .. Len(profiles) : s[i].name = profiles[i].name
    BY <1>3, <1>5
  <2> QED BY <1>5, <2>1, SameNames DEF SettingsInv
<1>7. \A i \in 1 .. Len(s) : s[i].name # n
  BY <1>0, <1>3, <1>5 DEF CheckName
<1>8. Len(s) < MaxProfiles /\ a + 1 \in 1 .. Len(s) + 1
  BY <1>0, <1>1, <1>5 DEF Room
<1>9. Kept(t, n)
  BY <1>4, <1>6, <1>7, <1>8, InsertKept
<1>10. Inserted(t, s, a + 1, e)
  BY <1>4, <1>5, <1>8, InsertIs
<1> HIDE DEF t
<1>11. a + 1 \in 1 .. Len(t) /\ t[a + 1] = e /\ DOMAIN t = 1 .. Len(t)
  <2>1. DOMAIN t = 1 .. Len(t)
    BY <1>9, Places DEF Kept
  <2> QED BY <1>0, <1>1, <1>5, <1>10, <2>1 DEF Inserted
<1>12. \A i \in 1 .. Len(t) : t[i].name = n => i = a + 1
  BY <1>4, <1>9, <1>11 DEF Kept, Distinct
<1> QED BY <1>2, <1>4, <1>9, <1>11, <1>12

-------------------------------------------------------------------------------
(* Steps that leave the list and the file alone *)

LEMMA QuietStep ==
  ASSUME Held, UNCHANGED <<settings, disk>>,
         SessionInv', DialogInv',
         Busy' => (live' = live /\ Busy) \/ live'.caster = ActivePoint.caster,
         \/ pending' = pending
         \/ pending'.kind \notin {"rename", "delete", "Duplicate"}
         \/ pending'.at \in DOMAIN profiles /\ profiles[pending'.at].name = pending'.name
  PROVE  Held'
<1>1. /\ profiles' = profiles /\ active' = active /\ saved' = saved /\ file' = file
  BY DEF settings, disk
<1>2. SettingsInv' /\ DiskInv'
  BY <1>1 DEF Held, SettingsInv, DiskInv
<1>3. LiveInv'
  <2> SUFFICES ASSUME Busy', NEW i \in 1 .. Len(profiles), profiles[i].name = active
               PROVE  profiles[i].point.caster = live'.caster
    BY <1>1 DEF LiveInv
  <2>1. CASE live' = live /\ Busy
    BY <2>1 DEF Held, LiveInv
  <2>2. CASE live'.caster = ActivePoint.caster
    <3>1. i = ActiveIndex
      BY ActiveIs DEF Held
    <3> QED BY <2>2, <3>1 DEF ActivePoint
  <2> QED BY <2>1, <2>2
<1>4. PendingHitsItsTarget'
  BY <1>1 DEF Held, PendingHitsItsTarget
<1> QED BY <1>2, <1>3, <1>4 DEF Held
LEMMA NoPendingKind == NoPending.kind = "none"
BY DEF NoPending, Prompt

LEMMA ConnectStep ==
  ASSUME Held, NEW b \in BOOLEAN, Connect(b)
  PROVE  Held'
<1>1. ActivePoint \in Points /\ ActivePoint \in [caster : STRING, mount : STRING]
  BY ActiveIs, PointsAssumption DEF Held
<1>2. live'.caster = ActivePoint.caster
  <2>1. [ActivePoint EXCEPT !.mount = ""].caster = ActivePoint.caster
    BY <1>1
  <2> QED BY <2>1 DEF Connect
<1>3. SessionInv' /\ DialogInv'
  <2>1. live'.caster \in Casters
    BY <1>1, <1>2 DEF Casters
  <2> QED BY <2>1 DEF Connect, Held, SessionInv, DialogInv, Casters
<1>4. UNCHANGED <<settings, disk>> /\ pending' = pending
  BY DEF Connect
<1> QED BY <1>2, <1>3, <1>4, QuietStep

LEMMA WorkerStep ==
  ASSUME Held, TableReady \/ Stopped
  PROVE  Held'
<1>1. UNCHANGED <<settings, disk>> /\ pending' = pending /\ window' = window
  BY DEF TableReady, Stopped
<1>2. DialogInv'
  BY <1>1 DEF Held, DialogInv
<1>3. CASE TableReady
  <2>1. live' = live /\ table' = live.caster
    BY <1>3 DEF TableReady
  <2>2. SessionInv'
    BY <2>1 DEF Held, SessionInv, Casters
  <2>3. Busy' => live' = live /\ Busy
    BY <2>1 DEF Busy, NotLive
  <2> QED BY <1>1, <1>2, <2>2, <2>3, QuietStep
<1>4. CASE Stopped
  <2>1. live' = NotLive /\ table' = table
    BY <1>4 DEF Stopped
  <2>2. "" \in Casters
    BY PointsAssumption DEF Casters
  <2>3. SessionInv'
    BY <2>1, <2>2 DEF Held, SessionInv, Casters, NotLive
  <2>4. ~Busy'
    BY <2>1 DEF Busy, NotLive
  <2> QED BY <1>1, <1>2, <2>3, <2>4, QuietStep
<1> QED BY <1>3, <1>4

\* What opens or closes a dialog, or asks a question on the Profiles window.
LEMMA DialogStep ==
  ASSUME Held,
         \/ OpenSaveAs \/ OpenWindow \/ Cancel \/ OpenNew \/ CloseWindow
         \/ \E i \in DOMAIN profiles : AskDuplicate(i) \/ BeginRename(i) \/ AskDelete(i)
  PROVE  Held'
<1>1. /\ UNCHANGED <<settings, disk, session>>
      /\ window' \in {window, TRUE, FALSE}
      /\ \/ pending' \in {pending, NoPending, Prompt("SaveAs"), Prompt("New")}
         \/ \E i \in DOMAIN profiles, k \in {"Duplicate", "rename", "delete"} : Ask(k, i)
  BY DEF OpenSaveAs, OpenWindow, Cancel, OpenNew, CloseWindow, AskDuplicate, BeginRename,
         AskDelete, Abandon
<1>2. SessionInv' /\ (Busy' => live' = live /\ Busy)
  BY <1>1 DEF Held, SessionInv, session, Busy, Casters, NotLive
<1>3. CASE pending' \in {pending, NoPending, Prompt("SaveAs"), Prompt("New")}
  <2>1. pending' = pending \/ pending'.kind \in {"none", "SaveAs", "New"}
    BY <1>3 DEF NoPending, Prompt
  <2>2. DialogInv'
    BY <1>1, <2>1 DEF Held, DialogInv
  <2> QED BY <1>1, <1>2, <2>1, <2>2, QuietStep
<1>4. CASE \E i \in DOMAIN profiles, k \in {"Duplicate", "rename", "delete"} : Ask(k, i)
  <2>1. PICK i \in DOMAIN profiles, k \in {"Duplicate", "rename", "delete"} : Ask(k, i)
    BY <1>4
  <2>2. pending'.kind = k /\ pending'.at = i /\ pending'.name = profiles[i].name
    BY <2>1 DEF Ask
  <2>3. DialogInv'
    BY <1>1, <2>2 DEF Held, DialogInv
  <2>4. pending'.at \in DOMAIN profiles /\ profiles[pending'.at].name = pending'.name
    BY <2>2
  <2> QED BY <1>1, <1>2, <2>3, <2>4, QuietStep
<1> QED BY <1>1, <1>3, <1>4

-------------------------------------------------------------------------------
(* Steps of the main window and of the Profiles window *)

LEMMA PointStep ==
  ASSUME Held, NEW p \in Points, Edit(p) \/ UseMount(p)
  PROVE  Held'
<1>1. /\ UNCHANGED <<active, disk, session, window, pending>>
      /\ profiles' = [profiles EXCEPT ![ActiveIndex].point = p]
      /\ OnSurface /\ (Busy => p.caster = ActivePoint.caster)
  BY DEF Edit, UseMount
<1>2. ActiveIndex \in 1 .. Len(profiles) /\ profiles \in Seq(ProfileType)
  BY ActiveIs DEF Held, SettingsInv, Kept
<1>3. /\ profiles' \in Seq(ProfileType) /\ Len(profiles') = Len(profiles)
      /\ \A j \in 1 .. Len(profiles) :
           /\ profiles'[j].name = profiles[j].name
           /\ profiles'[j].point = IF j = ActiveIndex THEN p ELSE profiles[j].point
  BY <1>1, <1>2, PointSet
<1>4. SettingsInv'
  <2>1. Kept(profiles', active)
    BY <1>3, SameNames DEF Held, SettingsInv
  <2> QED BY <1>1, <2>1 DEF SettingsInv
<1>5. DiskInv' /\ SessionInv' /\ DialogInv'
  BY <1>1 DEF Held, DiskInv, SessionInv, DialogInv, disk, session, Casters
<1>6. LiveInv'
  <2> SUFFICES ASSUME Busy, NEW i \in 1 .. Len(profiles), profiles[i].name = active
               PROVE  profiles'[i].point.caster = live.caster
    BY <1>1, <1>3 DEF LiveInv, Busy, session, NotLive
  <2>1. i = ActiveIndex
    BY ActiveIs DEF Held
  <2>2. profiles[i].point.caster = live.caster
    BY DEF Held, LiveInv
  <2> QED BY <1>1, <1>3, <2>1, <2>2 DEF ActivePoint
<1>7. PendingHitsItsTarget'
  BY <1>1 DEF OnSurface, PendingHitsItsTarget
<1> QED BY <1>4, <1>5, <1>6, <1>7 DEF Held

LEMMA ActivateStep ==
  ASSUME Held, NEW i \in DOMAIN profiles, Select(i) \/ Activate(i)
  PROVE  Held'
<1>1. /\ UNCHANGED <<profiles, disk, live, window>>
      /\ (pending' = pending /\ OnSurface) \/ pending' = NoPending
      /\ \/ active' = active /\ table' = table
         \/ active' = profiles[i].name /\ ~Busy /\ table' = NoTable
  BY DEF Select, Activate, Abandon, DropTable
<1>2. SettingsInv'
  <2>1. profiles[i].name \in NamesOf(profiles)
    BY DEF NamesOf
  <2> QED BY <1>1, <2>1 DEF Held, SettingsInv, Kept
<1>3. pending'.kind \in {"none", pending.kind} /\ (pending'.kind = "none" \/ pending' = pending)
  BY <1>1, NoPendingKind
<1>4. DiskInv' /\ SessionInv' /\ DialogInv'
  BY <1>1, <1>3 DEF Held, DiskInv, SessionInv, DialogInv, disk, Casters
<1>5. LiveInv'
  BY <1>1 DEF Held, LiveInv, Busy, NotLive
<1>6. PendingHitsItsTarget'
  BY <1>1, <1>3 DEF Held, PendingHitsItsTarget
<1> QED BY <1>2, <1>4, <1>5, <1>6 DEF Held

\* What the file is after an attempt to write the list it should have.
LEMMA SaveToIs ==
  ASSUME DiskInv, NEW s, NEW a, Kept(s, a), NEW ok \in BOOLEAN, SaveTo(Settings(s, a), ok)
  PROVE  DiskInv'
<1>1. CASE ok
  <2>1. file' = Settings(s, a) /\ saved' = Settings(s, a)
    BY <1>1 DEF SaveTo
  <2>2. Settings(s, a).profiles = Written(s) /\ Settings(s, a).active = a
    BY DEF Settings
  <2>3. Kept(Written(s), a)
    BY WrittenKept
  <2>4. Settings(s, a) # NoFile
    <3>1. Len(Written(s)) # 0
      BY <2>3 DEF Kept
    <3> QED BY <2>2, <3>1 DEF NoFile
  <2> QED BY <2>1, <2>2, <2>3, <2>4 DEF DiskInv, Boot
<1>2. CASE ~ok
  BY <1>2 DEF SaveTo, DiskInv, Boot
<1> QED BY <1>1, <1>2

LEMMA SaveStep ==
  ASSUME Held, NEW ok \in BOOLEAN, Save(ok)
  PROVE  Held'
<1>0. /\ UNCHANGED <<active, session, window, pending>>
      /\ profiles' = IF ok THEN Written(profiles) ELSE profiles
      /\ SaveTo(Settings(profiles, active), ok)
  BY DEF Save
<1>1. profiles \in Seq(ProfileType) /\ Kept(profiles, active)
  BY DEF Held, SettingsInv, Kept
<1>2. /\ profiles' \in Seq(ProfileType) /\ Len(profiles') = Len(profiles)
      /\ \A i \in 1 .. Len(profiles) : /\ profiles'[i].name = profiles[i].name
                                       /\ profiles'[i].point = profiles[i].point
  BY <1>0, <1>1, WrittenIs
<1>3. DiskInv'
  BY <1>0, <1>1, SaveToIs DEF Held
<1>4. SettingsInv'
  <2>1. Kept(profiles', active)
    BY <1>1, <1>2, SameNames
  <2> QED BY <1>0, <2>1 DEF SettingsInv
<1>5. SessionInv' /\ DialogInv'
  BY <1>0 DEF Held, SessionInv, DialogInv, session, Casters
<1>6. LiveInv'
  BY <1>0, <1>2 DEF Held, LiveInv, Busy, session, NotLive
<1>7. PendingHitsItsTarget'
  <2>1. DOMAIN profiles = 1 .. Len(profiles) /\ DOMAIN profiles' = 1 .. Len(profiles)
    BY <1>1, <1>2, Places
  <2> QED BY <1>0, <1>2, <2>1 DEF Held, PendingHitsItsTarget
<1> QED BY <1>3, <1>4, <1>5, <1>6, <1>7 DEF Held
\* A profile of a new name is not the active one, and the others are there.
LEMMA InsertLive ==
  ASSUME Held, NEW i \in 1 .. Len(profiles) + 1, NEW e \in ProfileType,
         \A j \in 1 .. Len(profiles) : profiles[j].name # e.name, Room,
         profiles' = InsertAt(profiles, i, e), active' = active, live' = live
  PROVE  LiveInv'
<1>1. profiles \in Seq(ProfileType) /\ Len(profiles) \in Nat /\ active \in NamesOf(profiles)
      /\ DOMAIN profiles = 1 .. Len(profiles)
  BY Places DEF Held, SettingsInv, Kept
<1>2. Inserted(profiles', profiles, i, e)
  BY <1>1, InsertIs
<1>3. e.name # active
  BY <1>1 DEF NamesOf
<1>4. ASSUME Busy, NEW k \in 1 .. Len(profiles'), profiles'[k].name = active
      PROVE  profiles'[k].point.caster = live.caster
  <2>0. profiles'[k] = IF k < i THEN profiles[k] ELSE IF k = i THEN e ELSE profiles[k - 1]
    BY <1>1, <1>2 DEF Inserted
  <2>1. PICK x \in 1 .. Len(profiles) : profiles'[k] = profiles[x]
    <3>1. k # i
      BY <1>3, <1>4, <2>0
    <3>2. k \in 1 .. Len(profiles) + 1
      BY <1>1, <1>2 DEF Inserted
    <3>3. CASE k < i
      BY <1>1, <2>0, <3>2, <3>3
    <3>4. CASE k > i
      <4>1. k - 1 \in 1 .. Len(profiles) /\ profiles'[k] = profiles[k - 1]
        BY <1>1, <2>0, <3>2, <3>4
      <4> QED BY <4>1
    <3> QED BY <1>1, <3>1, <3>2, <3>3, <3>4
  <2> QED BY <1>4, <2>1 DEF Held, LiveInv
<1> QED BY <1>4 DEF LiveInv, Busy, NotLive

LEMMA SaveAsStep ==
  ASSUME Held, NEW n \in Names, NEW ok \in BOOLEAN, SaveAs(n, ok)
  PROVE  Held'
<1>0. /\ CheckName(0, n) /\ Room /\ active' = n /\ pending' = NoPending
      /\ SaveTo(Settings(SavedAs(n), n), ok)
      /\ profiles' = IF ok THEN Written(SavedAs(n)) ELSE SavedAs(n)
      /\ UNCHANGED <<session, window>>
  BY DEF SaveAs
<1> DEFINE s == SavedAs(n)
<1>1. /\ Kept(s, n)
      /\ \A i \in 1 .. Len(s) : s[i].name = n => s[i].point = ActivePoint
  BY <1>0, SavedAsIs DEF Held
<1>2. DiskInv'
  BY <1>0, <1>1, SaveToIs DEF Held
<1> HIDE DEF s
<1>3. /\ Kept(profiles', n)
      /\ \A i \in 1 .. Len(profiles') : profiles'[i].name = n => profiles'[i].point = ActivePoint
  <2>1. profiles' = IF ok THEN Written(s) ELSE s
    BY <1>0 DEF s
  <2>2. /\ Kept(Written(s), n) /\ Len(Written(s)) = Len(s)
        /\ \A i \in 1 .. Len(s) : /\ Written(s)[i].name = s[i].name
                                  /\ Written(s)[i].point = s[i].point
    BY <1>1, WrittenKept, WrittenIs DEF Kept
  <2> QED BY <1>1, <2>1, <2>2
<1>4. SettingsInv'
  BY <1>0, <1>3 DEF SettingsInv
<1>5. SessionInv' /\ DialogInv' /\ PendingHitsItsTarget'
  BY <1>0, NoPendingKind
     DEF Held, SessionInv, DialogInv, PendingHitsItsTarget, session, Casters
<1>6. LiveInv'
  <2>1. live' = live
    BY <1>0 DEF session
  <2>2. Busy => ActivePoint.caster = live.caster
    BY ActiveIs DEF Held, LiveInv, ActivePoint
  <2> QED BY <1>0, <1>3, <2>1, <2>2 DEF LiveInv, Busy, NotLive
<1> QED BY <1>2, <1>4, <1>5, <1>6 DEF Held

LEMMA NewStep ==
  ASSUME Held, NEW n \in Names, New(n)
  PROVE  Held'
<1> DEFINE e == Profile(n, Nowhere)
<1>0. /\ CheckName(0, n) /\ Room /\ pending' = NoPending
      /\ profiles' = Append(profiles, e)
      /\ \/ Busy /\ active' = active /\ table' = table
         \/ ~Busy /\ active' = n /\ table' = NoTable
      /\ UNCHANGED <<disk, live, window>>
  BY DEF New, DropTable
<1>1. /\ Kept(profiles, active) /\ profiles \in Seq(ProfileType)
      /\ DOMAIN profiles = 1 .. Len(profiles) /\ Len(profiles) \in Nat
      /\ Len(profiles) < MaxProfiles
  BY <1>0, Places DEF Held, SettingsInv, Kept, Room
<1>2. e \in ProfileType /\ e.name = n
  BY PointsAssumption DEF Profile, ProfileType, Origin
<1> HIDE DEF e
<1>3. profiles' = InsertAt(profiles, Len(profiles) + 1, e)
  BY <1>0, <1>1, <1>2, AppendIsInsert
<1>4. \A j \in 1 .. Len(profiles) : profiles[j].name # e.name
  BY <1>0, <1>1, <1>2 DEF CheckName
<1>5. Kept(profiles', active) /\ Kept(profiles', n)
  <2>1. Len(profiles) + 1 \in 1 .. Len(profiles) + 1
    BY <1>1
  <2> QED BY <1>1, <1>2, <1>3, <1>4, <2>1, InsertKept
<1>6. SettingsInv'
  BY <1>0, <1>5 DEF SettingsInv
<1>7. DiskInv' /\ SessionInv' /\ DialogInv' /\ PendingHitsItsTarget'
  BY <1>0, NoPendingKind
     DEF Held, DiskInv, SessionInv, DialogInv, PendingHitsItsTarget, disk, Casters
<1>8. LiveInv'
  <2>1. CASE Busy
    <3>1. Len(profiles) + 1 \in 1 .. Len(profiles) + 1
      BY <1>1
    <3> QED BY <1>0, <1>2, <1>3, <1>4, <2>1, <3>1, InsertLive
  <2>2. CASE ~Busy
    BY <1>0, <2>2 DEF LiveInv, Busy, NotLive
  <2> QED BY <2>1, <2>2
<1> QED BY <1>6, <1>7, <1>8 DEF Held

LEMMA DuplicateStep ==
  ASSUME Held, NEW n \in Names, Duplicate(n)
  PROVE  Held'
<1> DEFINE at == pending.at
           e == Profile(n, profiles[at].point)
<1>0. /\ CheckName(0, n) /\ Room /\ pending' = NoPending /\ at \in DOMAIN profiles
      /\ profiles' = InsertAt(profiles, at + 1, e)
      /\ UNCHANGED <<active, disk, session, window>>
  BY DEF Duplicate
<1>1. /\ Kept(profiles, active) /\ profiles \in Seq(ProfileType)
      /\ DOMAIN profiles = 1 .. Len(profiles) /\ Len(profiles) \in Nat
      /\ Len(profiles) < MaxProfiles /\ profiles[at] \in ProfileType
  BY <1>0, Places DEF Held, SettingsInv, Kept, Room
<1>2. e \in ProfileType /\ e.name = n
  BY <1>1 DEF Profile, ProfileType, Origin
<1> HIDE DEF e
<1>3. \A j \in 1 .. Len(profiles) : profiles[j].name # e.name
  BY <1>0, <1>1, <1>2 DEF CheckName
<1>4. at + 1 \in 1 .. Len(profiles) + 1
  BY <1>0, <1>1
<1> HIDE DEF at
<1>5. Kept(profiles', active)
  BY <1>0, <1>1, <1>2, <1>3, <1>4, InsertKept
<1>6. SettingsInv'
  BY <1>0, <1>5 DEF SettingsInv
<1>7. DiskInv' /\ SessionInv' /\ DialogInv' /\ PendingHitsItsTarget'
  BY <1>0, NoPendingKind
     DEF Held, DiskInv, SessionInv, DialogInv, PendingHitsItsTarget, disk, session, Casters
<1>8. LiveInv'
  <2>1. live' = live
    BY <1>0 DEF session
  <2> QED BY <1>0, <1>2, <1>3, <1>4, <2>1, InsertLive
<1> QED BY <1>6, <1>7, <1>8 DEF Held
-------------------------------------------------------------------------------
(* Steps of the Profiles window, imports and restarts *)

LEMMA RenameStep ==
  ASSUME Held, NEW n \in Names, CommitRename(n)
  PROVE  Held'
<1> DEFINE at == pending.at
<1>0. /\ pending.kind = "rename" /\ CheckName(at, n) /\ pending' = NoPending
      /\ profiles' = [profiles EXCEPT ![at].name = n]
      /\ active' = IF active = profiles[at].name THEN n ELSE active
      /\ UNCHANGED <<disk, session, window>>
  BY DEF CommitRename, Asked, Rename
<1>1. /\ at \in DOMAIN profiles /\ Kept(profiles, active) /\ profiles \in Seq(ProfileType)
      /\ DOMAIN profiles = 1 .. Len(profiles)
  BY <1>0, Places DEF Held, PendingHitsItsTarget, SettingsInv, Kept
<1>2. \A j \in 1 .. Len(profiles) : j # at => profiles[j].name # n
  BY <1>0, <1>1 DEF CheckName
<1> HIDE DEF at
<1>3. /\ Kept(profiles', active') /\ Len(profiles') = Len(profiles)
      /\ \A j \in 1 .. Len(profiles) :
           /\ profiles'[j].name = IF j = at THEN n ELSE profiles[j].name
           /\ profiles'[j].point = profiles[j].point
  <2> DEFINE t == [profiles EXCEPT ![at].name = n]
  <2>1. at \in 1 .. Len(profiles)
    BY <1>1
  <2>2. /\ Kept(t, IF active = profiles[at].name THEN n ELSE active)
        /\ Len(t) = Len(profiles)
        /\ \A j \in 1 .. Len(profiles) : /\ t[j].name = IF j = at THEN n ELSE profiles[j].name
                                         /\ t[j].point = profiles[j].point
    BY <1>1, <1>2, <2>1, RenameKept, ZenonT(30)
  <2> HIDE DEF t
  <2>3. profiles' = t
    BY <1>0 DEF t
  <2> QED BY <1>0, <2>2, <2>3
<1>4. SettingsInv'
  BY <1>3 DEF SettingsInv
<1>5. DiskInv' /\ SessionInv' /\ DialogInv' /\ PendingHitsItsTarget'
  BY <1>0, NoPendingKind
     DEF Held, DiskInv, SessionInv, DialogInv, PendingHitsItsTarget, disk, session, Casters
<1>6. LiveInv'
  <2> SUFFICES ASSUME Busy, NEW i \in 1 .. Len(profiles), profiles'[i].name = active'
               PROVE  profiles'[i].point.caster = live.caster
    BY <1>0, <1>3 DEF LiveInv, Busy, session, NotLive
  <2>1. profiles[i].name = active
    <3>1. CASE i = at
      <4>1. active' = n
        BY <1>3, <3>1
      <4>2. CASE active = profiles[at].name
        BY <3>1, <4>2
      <4>3. CASE active # profiles[at].name
        <5>1. active = n
          BY <1>0, <4>1, <4>3
        <5>2. PICK k \in 1 .. Len(profiles) : profiles[k].name = active
          BY <1>1 DEF Kept, NamesOf
        <5> QED BY <1>2, <4>3, <5>1, <5>2
      <4> QED BY <4>2, <4>3
    <3>2. CASE i # at
      BY <1>0, <1>2, <1>3, <3>2
    <3> QED BY <3>1, <3>2
  <2> QED BY <1>3, <2>1 DEF Held, LiveInv
<1> QED BY <1>4, <1>5, <1>6 DEF Held

LEMMA DeleteStep ==
  ASSUME Held, ConfirmDelete
  PROVE  Held'
<1> DEFINE at == pending.at
<1>0. /\ pending.kind = "delete" /\ Len(profiles) > 1 /\ ~Busy /\ pending' = NoPending
      /\ profiles' = RemoveAt(profiles, at)
      /\ active' = IF active = profiles[at].name THEN profiles'[1].name ELSE active
      /\ table' \in {table, NoTable}
      /\ UNCHANGED <<disk, live, window>>
  BY DEF ConfirmDelete, Asked, MayDelete, RemoveProfile, DropTable
<1>1. at \in 1 .. Len(profiles) /\ Kept(profiles, active)
  BY <1>0, Places DEF Held, PendingHitsItsTarget, SettingsInv, Kept
<1> HIDE DEF at
<1>2. Kept(profiles', active')
  BY <1>0, <1>1, RemoveKept
<1>3. SettingsInv'
  BY <1>2 DEF SettingsInv
<1>4. DiskInv' /\ SessionInv' /\ DialogInv' /\ PendingHitsItsTarget'
  BY <1>0, NoPendingKind
     DEF Held, DiskInv, SessionInv, DialogInv, PendingHitsItsTarget, disk, Casters
<1>5. LiveInv'
  BY <1>0 DEF LiveInv, Busy, NotLive
<1> QED BY <1>3, <1>4, <1>5 DEF Held

LEMMA MoveStep ==
  ASSUME Held, NEW i \in DOMAIN profiles, NEW j \in DOMAIN profiles, Move(i, j)
  PROVE  Held'
<1>0. /\ i # j /\ pending' = NoPending
      /\ profiles' = InsertAt(RemoveAt(profiles, i), j, profiles[i])
      /\ UNCHANGED <<active, disk, session, window>>
  <2>1. DOMAIN profiles \subseteq Nat
    BY Places DEF Held, SettingsInv, Kept
  <2> QED BY <2>1 DEF Move, Abandon
<1>1. Kept(profiles, active) /\ i \in 1 .. Len(profiles) /\ j \in 1 .. Len(profiles)
  BY Places DEF Held, SettingsInv, Kept
<1>2. Kept(profiles', active) /\ From(profiles', profiles)
  BY <1>0, <1>1, MoveKept
<1>3. SettingsInv'
  BY <1>0, <1>2 DEF SettingsInv
<1>4. DiskInv' /\ SessionInv' /\ DialogInv' /\ PendingHitsItsTarget'
  BY <1>0, NoPendingKind
     DEF Held, DiskInv, SessionInv, DialogInv, PendingHitsItsTarget, disk, session, Casters
<1>5. LiveInv'
  BY <1>0, <1>2 DEF Held, LiveInv, From, Busy, session, NotLive
<1> QED BY <1>3, <1>4, <1>5 DEF Held

LEMMA ImportStep ==
  ASSUME Held, NEW rows \in Files, Import(rows)
  PROVE  Held'
<1>0. /\ \A i \in DOMAIN rows : RowFine(rows, i)
      /\ Len(Imported(rows)) <= MaxProfiles /\ profiles' = Imported(rows)
      /\ table' \in {table, NoTable} /\ window' = TRUE
      /\ UNCHANGED <<active, disk, live, pending>>
  BY DEF Import, DropTable
<1>1. Kept(profiles, active) /\ DOMAIN profiles = 1 .. Len(profiles) /\ Len(profiles) \in Nat
  BY Places DEF Held, SettingsInv, Kept
<1>2. /\ Kept(profiles', active)
      /\ Len(profiles') >= Len(profiles)
      /\ \A i \in 1 .. Len(profiles) :
           /\ profiles'[i].name = profiles[i].name
           /\ Busy /\ profiles[i].name = active => profiles'[i] = profiles[i]
      /\ \A i \in 1 .. Len(profiles') : i > Len(profiles) => profiles'[i].name # active
  BY <1>0, <1>1, ImportedIs
<1>3. DOMAIN profiles' = 1 .. Len(profiles') /\ Len(profiles') \in Nat
  BY <1>2, Places DEF Kept
<1>4. SettingsInv'
  BY <1>0, <1>2 DEF SettingsInv
<1>5. DiskInv' /\ SessionInv' /\ DialogInv'
  BY <1>0 DEF Held, DiskInv, SessionInv, DialogInv, disk, Casters
<1>6. LiveInv'
  <2> SUFFICES ASSUME Busy, NEW i \in 1 .. Len(profiles'), profiles'[i].name = active
               PROVE  profiles'[i].point.caster = live.caster
    BY <1>0 DEF LiveInv, Busy, NotLive
  <2>1. i \in 1 .. Len(profiles)
    BY <1>1, <1>2, <1>3
  <2> QED BY <1>2, <2>1 DEF Held, LiveInv
<1>7. PendingHitsItsTarget'
  <2> SUFFICES ASSUME pending.kind \in {"rename", "delete", "Duplicate"}
               PROVE  pending.at \in DOMAIN profiles' /\ profiles'[pending.at].name = pending.name
    BY <1>0 DEF PendingHitsItsTarget
  <2>1. pending.at \in 1 .. Len(profiles) /\ profiles[pending.at].name = pending.name
    BY <1>1 DEF Held, PendingHitsItsTarget
  <2> QED BY <1>1, <1>2, <1>3, <2>1
<1> QED BY <1>4, <1>5, <1>6, <1>7 DEF Held

LEMMA BootIs ==
  ASSUME NEW f, f = NoFile \/ Kept(f.profiles, f.active)
  PROVE  Kept(Boot(f).profiles, Boot(f).active)
<1>1. CASE f # NoFile
  BY <1>1 DEF Boot
<1>2. CASE f = NoFile
  <2> DEFINE p == Profile(Default, Nowhere)
             s == <<p>>
  <2>1. Boot(f) = Settings(s, Default)
    BY <1>2 DEF Boot
  <2>2. p \in ProfileType /\ p.name = Default
    BY NamesAssumption, PointsAssumption DEF Profile, ProfileType, Origin
  <2> HIDE DEF p
  <2>3. s \in Seq(ProfileType) /\ Len(s) = 1 /\ DOMAIN s = {1} /\ s[1] = p
    BY <2>2
  <2>4. Kept(s, Default)
    <3>1. Len(s) \in 1 .. MaxProfiles
      BY <2>3, BoundsAssumption
    <3>2. Distinct(s) /\ Default \in NamesOf(s)
      BY <2>2, <2>3 DEF Distinct, NamesOf
    <3> QED BY <2>3, <3>1, <3>2 DEF Kept
  <2>5. Kept(Written(s), Default)
    BY <2>4, WrittenKept
  <2> QED BY <2>1, <2>5 DEF Settings
<1> QED BY <1>1, <1>2

LEMMA RestartStep ==
  ASSUME Held, NEW f, Restart(f)
  PROVE  Held'
<1>0. /\ f \in {file, Settings(profiles, active)}
      /\ file' = f /\ saved' = Boot(f) /\ profiles' = Boot(f).profiles /\ active' = Boot(f).active
      /\ live' = NotLive /\ table' = NoTable /\ window' = FALSE /\ pending' = NoPending
  BY DEF Restart
<1>1. Kept(Boot(f).profiles, Boot(f).active)
  <2>1. CASE f = file
    BY <2>1 DEF Held, DiskInv
  <2>2. CASE f = Settings(profiles, active)
    <3>1. Kept(f.profiles, f.active)
      BY <2>2, WrittenKept DEF Held, SettingsInv, Settings
    <3> QED BY <3>1, BootIs
  <2> QED BY <1>0, <2>1, <2>2
<1>2. SettingsInv' /\ DiskInv'
  BY <1>0, <1>1 DEF SettingsInv, DiskInv, Boot
<1>3. "" \in Casters
  BY PointsAssumption DEF Casters
<1>4. SessionInv' /\ DialogInv' /\ LiveInv' /\ PendingHitsItsTarget'
  BY <1>0, <1>3, NoPendingKind
     DEF SessionInv, DialogInv, LiveInv, PendingHitsItsTarget, Busy, NotLive, Casters
<1> QED BY <1>2, <1>4 DEF Held
-------------------------------------------------------------------------------
(* The invariant, and what it says *)

LEMMA HeldInit == Init => Held
<1> SUFFICES ASSUME Init PROVE Held
  OBVIOUS
<1>0. /\ file = NoFile /\ saved = Boot(file) /\ profiles = saved.profiles
      /\ active = saved.active /\ live = NotLive /\ table = NoTable
      /\ window = FALSE /\ pending = NoPending
  BY DEF Init
<1>1. Kept(Boot(file).profiles, Boot(file).active)
  BY <1>0, BootIs
<1>2. SettingsInv /\ DiskInv
  BY <1>0, <1>1 DEF SettingsInv, DiskInv
<1>3. "" \in Casters
  BY PointsAssumption DEF Casters
<1>4. SessionInv /\ DialogInv /\ LiveInv /\ PendingHitsItsTarget
  BY <1>0, <1>3, NoPendingKind
     DEF SessionInv, DialogInv, LiveInv, PendingHitsItsTarget, Busy, NotLive
<1> QED BY <1>2, <1>4 DEF Held

LEMMA HeldStep == Held /\ [Next]_vars => Held'
<1> SUFFICES ASSUME Held, [Next]_vars PROVE Held'
  OBVIOUS
<1>1. CASE \E p \in Points : Edit(p) \/ UseMount(p)
  BY <1>1, PointStep
<1>2. CASE \E b \in BOOLEAN : Connect(b) \/ Save(b)
  BY <1>2, ConnectStep, SaveStep
<1>3. CASE TableReady \/ Stopped
  BY <1>3, WorkerStep
<1>4. CASE \/ OpenSaveAs \/ OpenWindow \/ Cancel \/ OpenNew \/ CloseWindow
           \/ \E i \in DOMAIN profiles : AskDuplicate(i) \/ BeginRename(i) \/ AskDelete(i)
  BY <1>4, DialogStep
<1>5. CASE \E i \in DOMAIN profiles : Select(i) \/ Activate(i)
  BY <1>5, ActivateStep
<1>6. CASE \E n \in Names : New(n) \/ Duplicate(n) \/ CommitRename(n)
  BY <1>6, NewStep, DuplicateStep, RenameStep
<1>7. CASE \E n \in Names, ok \in BOOLEAN : SaveAs(n, ok)
  BY <1>7, SaveAsStep
<1>8. CASE ConfirmDelete
  BY <1>8, DeleteStep
<1>9. CASE \E i, j \in DOMAIN profiles : Move(i, j)
  BY <1>9, MoveStep
<1>10. CASE \E rows \in Files : Import(rows)
  BY <1>10, ImportStep
<1>11. CASE \E f \in {file, Settings(profiles, active)} : Restart(f)
  BY <1>11, RestartStep
<1>12. CASE UNCHANGED vars
  BY <1>12 DEF vars, settings, disk, session, Held, SettingsInv, DiskInv, SessionInv, DialogInv,
               LiveInv, PendingHitsItsTarget, Busy, NotLive, Casters
<1>13. CASE Next
  <2>1. CASE Surface
    BY <2>1, <1>1, <1>2, <1>3, <1>4, <1>5 DEF Surface
  <2>2. CASE NamePrompt
    BY <2>2, <1>4, <1>6, <1>7 DEF NamePrompt
  <2>3. CASE Window
    BY <2>3, <1>4, <1>5, <1>6, <1>8, <1>9 DEF Window
  <2> QED BY <1>10, <1>11, <1>13, <2>1, <2>2, <2>3 DEF Next
<1> QED BY <1>12, <1>13

LEMMA HeldAlways == Spec => []Held
<1> QED BY HeldInit, HeldStep, PTL DEF Spec

LEMMA HeldIsKept == Held => ProfilesKept
<1> SUFFICES ASSUME Held PROVE ProfilesKept
  OBVIOUS
<1>0. /\ Kept(profiles, active) /\ Kept(saved.profiles, saved.active) /\ saved = Boot(file)
  BY DEF Held, SettingsInv, DiskInv
<1>1. TypeOK
  <2>1. \A s \in Seq(ProfileType) : \A i \in DOMAIN s : s[i].name \in Names
    BY Places DEF ProfileType
  <2>2. active \in Names /\ saved.active \in Names
    BY <1>0, <2>1 DEF Kept, NamesOf
  <2>3. file \in {NoFile, saved}
    BY <1>0 DEF Boot
  <2> QED BY <1>0, <2>2, <2>3 DEF TypeOK, Kept, Held, SessionInv, DialogInv, Casters
<1>2. ActiveIsOne
  <2>1. Current.profiles = profiles /\ Current.active = active
    BY DEF Current
  <2>2. \A s \in {Current, saved, Boot(file)} : Kept(s.profiles, s.active)
    BY <1>0, <2>1
  <2> QED BY <2>2 DEF ActiveIsOne, Kept, Distinct
<1>3. SavedSurvives
  BY <1>0 DEF SavedSurvives, Unsaved, PersistableEq
<1> QED BY <1>1, <1>2, <1>3 DEF ProfilesKept

\* profiles.rs, settings.rs: whatever is created, renamed, moved, replaced,
\* deleted, imported or reverted, and whether the file is written or not,
\* profiles differ by their names, the active one is among them, the list is
\* neither empty nor too long, and "Saved" is said of what the next run reads.
THEOREM ProfilesAlwaysKept == Spec => []ProfilesKept
<1> QED BY HeldAlways, HeldIsKept, PTL

\* "nothing relabels a stream with another caster": as long as a worker is
\* live, the profile that is active, by whatever name and at whatever place,
\* points at the caster that the worker was sent to.
THEOREM StreamKeepsItsCaster == Spec => []LiveCasterKept
<1>1. Held => LiveCasterKept
  BY ActiveIs DEF Held, LiveInv, LiveCasterKept, ActivePoint
<1> QED BY <1>1, HeldAlways, PTL

\* profiles_dialog.rs: what a rename, a delete question or a duplicate was
\* opened on is what it acts on, though an import came between.
THEOREM DialogKeepsItsProfile == Spec => []PendingHitsItsTarget
<1>1. Held => PendingHitsItsTarget
  BY DEF Held
<1> QED BY <1>1, HeldAlways, PTL
===============================================================================
