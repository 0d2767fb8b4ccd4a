-------------------------- MODULE RedemptionsProofs --------------------------
(***************************************************************************)
(* Proofs about Redemptions: its types, that the eCash shown is a hold at  *)
(* the wallet, that the vouchers posted are those shown, and that the form *)
(* adds up with fixed and percentage fees.                                 *)
(*                                                                         *)
(* The sums of vouchers are recursive, so their properties need induction. *)
(* No prover here instantiates an induction theorem whose parameter is an  *)
(* operator; but WFMin speaks of sets, and from it follows an induction    *)
(* principle for a set of naturals, Induction below.                       *)
(***************************************************************************)
EXTENDS Redemptions, WellFoundedInduction, NaturalsInduction, SequenceTheorems, TLAPS

------------------------------------------------------------------------------
(* Induction. *)

LEMMA NatMinimum ==
  ASSUME NEW T, T \subseteq Nat, T # {}
  PROVE  \E n \in T : \A m \in T : n <= m
<1>1. IsWellFoundedOn(OpToRel(<, Nat), Nat)
  BY NatLessThanWellFounded
<1>2. PICK n \in T : \A m \in T : ~(<<m, n>> \in OpToRel(<, Nat))
  BY <1>1, WFMin
<1>3. \A m \in T : ~(m < n)
  BY <1>2 DEF OpToRel
<1> QED
  BY <1>3

(* A set that holds 0 and, with a number, the next, holds all up to n.     *)
LEMMA Induction ==
  ASSUME NEW n \in Nat, NEW S, 0 \in S, \A i \in 1..n : i - 1 \in S => i \in S
  PROVE  \A i \in 0..n : i \in S
<1> DEFINE Bad == (0..n) \ S
<1>1. Bad \subseteq Nat
  OBVIOUS
<1> SUFFICES ASSUME Bad # {} PROVE FALSE
  OBVIOUS
<1>2. PICK m \in Bad : \A k \in Bad : m <= k
  BY <1>1, NatMinimum
<1>3. m \in 1..n /\ m - 1 \notin Bad
  BY <1>1, <1>2
<1> QED
  BY <1>2, <1>3

------------------------------------------------------------------------------
(* Sums. *)

LEMMA SumsDef ==
  ASSUME NEW ns \in Seq(Nat)
  PROVE  Sums(ns) = [i \in 0..Len(ns) |-> IF i = 0 THEN 0 ELSE Sums(ns)[i - 1] + ns[i]]
<1> DEFINE Good(n, f) == f = [i \in 0..n |-> IF i = 0 THEN 0 ELSE f[i - 1] + ns[i]]
           Fine == {n \in 0..Len(ns) : \E f : Good(n, f)}
<1>1. Good(0, [i \in 0..0 |-> 0])
  OBVIOUS
<1>2. ASSUME NEW n \in 1..Len(ns), NEW f, Good(n - 1, f)
      PROVE  Good(n, [i \in 0..n |-> IF i = n THEN f[n - 1] + ns[n] ELSE f[i]])
  BY <1>2
<1>3. Len(ns) \in Nat
  OBVIOUS
<1> HIDE DEF Good
<1>4. 0 \in Fine
  <2>1. \E f : Good(0, f)
    BY <1>1
  <2> QED
    BY <1>3, <2>1
<1>5. ASSUME NEW n \in 1..Len(ns), n - 1 \in Fine PROVE n \in Fine
  <2>1. PICK f : Good(n - 1, f)
    BY <1>5
  <2>2. \E g : Good(n, g)
    BY <1>2, <2>1
  <2> QED
    BY <1>3, <2>2
<1> HIDE DEF Fine
<1>6. Len(ns) \in Fine
  <2>1. \A i \in 0..Len(ns) : i \in Fine
    BY <1>3, <1>4, <1>5, Induction
  <2> QED
    BY <1>3, <2>1
<1>7. \E f : Good(Len(ns), f)
  BY <1>6 DEF Fine
<1> QED
  BY <1>7 DEF Good, Sums

LEMMA SumsNext ==
  ASSUME NEW ns \in Seq(Nat)
  PROVE  /\ Sums(ns)[0] = 0
         /\ \A i \in 1..Len(ns) : Sums(ns)[i] = Sums(ns)[i - 1] + ns[i]
<1> DEFINE s == Sums(ns)
<1>1. s = [i \in 0..Len(ns) |-> IF i = 0 THEN 0 ELSE s[i - 1] + ns[i]]
  BY SumsDef
<1>2. Len(ns) \in Nat
  OBVIOUS
<1> HIDE DEF s
<1>3. s[0] = 0 /\ \A i \in 1..Len(ns) : s[i] = s[i - 1] + ns[i]
  BY <1>1, <1>2
<1> QED
  BY <1>3 DEF s

LEMMA SumsTyped ==
  ASSUME NEW ns \in Seq(Nat)
  PROVE  \A i \in 0..Len(ns) : Sums(ns)[i] \in Nat
<1> DEFINE S == {i \in 0..Len(ns) : Sums(ns)[i] \in Nat}
<1>1. Len(ns) \in Nat /\ \A i \in 1..Len(ns) : ns[i] \in Nat
  OBVIOUS
<1>2. 0 \in S
  BY <1>1, SumsNext
<1>3. ASSUME NEW i \in 1..Len(ns), i - 1 \in S PROVE i \in S
  <2>1. Sums(ns)[i] = Sums(ns)[i - 1] + ns[i] /\ ns[i] \in Nat
    BY <1>1, SumsNext
  <2>2. Sums(ns)[i - 1] \in Nat
    BY <1>3
  <2>3. Sums(ns)[i] \in Nat /\ i \in 0..Len(ns)
    BY <1>1, <2>1, <2>2
  <2> QED
    BY <2>3
<1> HIDE DEF S
<1>4. \A i \in 0..Len(ns) : i \in S
  BY <1>1, <1>2, <1>3, Induction
<1> QED
  BY <1>4 DEF S

(* Numbers that are nowhere larger have nowhere larger sums.               *)
LEMMA SumsBelow ==
  ASSUME NEW a \in Seq(Nat), NEW b \in Seq(Nat), NEW n \in Nat, n <= Len(a), n <= Len(b),
         \A i \in 1..n : a[i] <= b[i]
  PROVE  \A i \in 0..n : Sums(a)[i] <= Sums(b)[i]
<1> DEFINE S == {i \in 0..n : Sums(a)[i] <= Sums(b)[i]}
<1>1. /\ \A i \in 1..n : a[i] \in Nat /\ b[i] \in Nat
      /\ \A i \in 0..n : Sums(a)[i] \in Nat /\ Sums(b)[i] \in Nat
  BY SumsTyped
<1>2. /\ Sums(a)[0] = 0 /\ Sums(b)[0] = 0
      /\ \A i \in 1..n : /\ Sums(a)[i] = Sums(a)[i - 1] + a[i]
                         /\ Sums(b)[i] = Sums(b)[i - 1] + b[i]
  BY SumsNext
<1>3. 0 \in S
  BY <1>2
<1>4. ASSUME NEW i \in 1..n, i - 1 \in S PROVE i \in S
  <2>1. /\ i \in 0..n /\ i - 1 \in 0..n
        /\ Sums(a)[i - 1] <= Sums(b)[i - 1] /\ a[i] <= b[i]
    BY <1>4
  <2>2. /\ Sums(a)[i] = Sums(a)[i - 1] + a[i]
        /\ Sums(b)[i] = Sums(b)[i - 1] + b[i]
    BY <1>2
  <2>3. /\ Sums(a)[i - 1] \in Nat /\ a[i] \in Nat
        /\ Sums(b)[i - 1] \in Nat /\ b[i] \in Nat
    BY <1>1, <2>1
  <2>4. Sums(a)[i] <= Sums(b)[i]
    <3>1. ASSUME NEW x \in Nat, NEW y \in Nat, NEW u \in Nat, NEW v \in Nat, x <= y, u <= v
          PROVE  x + u <= y + v
      BY <3>1
    <3>2. Sums(a)[i - 1] + a[i] <= Sums(b)[i - 1] + b[i]
      BY <2>1, <2>3, <3>1
    <3> QED
      BY <2>2, <3>2
  <2> QED
    BY <2>1, <2>4
<1> HIDE DEF S
<1>5. \A i \in 0..n : i \in S
  BY <1>3, <1>4, Induction
<1> QED
  BY <1>5 DEF S

(* The sums depend on no later number. *)
LEMMA SumsAgree ==
  ASSUME NEW a \in Seq(Nat), NEW b \in Seq(Nat), NEW n \in Nat, n <= Len(a), n <= Len(b),
         \A i \in 1..n : a[i] = b[i]
  PROVE  \A i \in 0..n : Sums(a)[i] = Sums(b)[i]
<1>1. \A i \in 1..n : a[i] <= b[i] /\ b[i] <= a[i]
  OBVIOUS
<1>2. \A i \in 0..n : Sums(a)[i] <= Sums(b)[i] /\ Sums(b)[i] <= Sums(a)[i]
  BY <1>1, SumsBelow
<1>3. \A i \in 0..n : Sums(a)[i] \in Nat /\ Sums(b)[i] \in Nat
  BY SumsTyped
<1> QED
  BY <1>2, <1>3

(* No number is more than what the sum of all grows by behind it. *)
LEMMA SumsGrow ==
  ASSUME NEW ns \in Seq(Nat)
  PROVE  \A i \in 1..Len(ns) : Sums(ns)[i - 1] + ns[i] <= Sums(ns)[Len(ns)]
<1> DEFINE S == {k \in 0..Len(ns) : \A j \in 0..k : Sums(ns)[j] <= Sums(ns)[k]}
<1>1. Len(ns) \in Nat /\ \A i \in 1..Len(ns) : ns[i] \in Nat
  OBVIOUS
<1>2. \A i \in 0..Len(ns) : Sums(ns)[i] \in Nat
  BY SumsTyped
<1>3. \A i \in 1..Len(ns) : Sums(ns)[i] = Sums(ns)[i - 1] + ns[i]
  BY SumsNext
<1>4. 0 \in S
  <2>1. 0 \in 0..Len(ns) /\ Sums(ns)[0] \in Nat
    BY <1>1, <1>2
  <2>2. \A j \in 0..0 : j = 0
    OBVIOUS
  <2> QED
    BY <2>1, <2>2
<1>5. ASSUME NEW k \in 1..Len(ns), k - 1 \in S PROVE k \in S
  <2>1. k \in 0..Len(ns) /\ k - 1 \in 0..Len(ns)
    BY <1>1
  <2>2. /\ Sums(ns)[k] = Sums(ns)[k - 1] + ns[k]
        /\ Sums(ns)[k - 1] \in Nat /\ ns[k] \in Nat /\ Sums(ns)[k] \in Nat
    BY <1>1, <1>2, <1>3, <2>1
  <2>3. Sums(ns)[k - 1] <= Sums(ns)[k]
    BY <2>2
  <2>4. ASSUME NEW j \in 0..k PROVE Sums(ns)[j] <= Sums(ns)[k]
    <3>1. CASE j = k
      BY <2>2, <3>1
    <3>2. CASE j # k
      <4>1. j \in 0..(k - 1) /\ j \in 0..Len(ns)
        BY <2>1, <3>2
      <4>2. Sums(ns)[j] <= Sums(ns)[k - 1] /\ Sums(ns)[j] \in Nat
        BY <1>2, <1>5, <4>1
      <4>3. ASSUME NEW x \in Nat, NEW y \in Nat, NEW z \in Nat, x <= y, y <= z PROVE x <= z
        BY <4>3
      <4> QED
        BY <2>2, <2>3, <4>2, <4>3
    <3> QED
      BY <3>1, <3>2
  <2> QED
    BY <2>1, <2>4
<1> HIDE DEF S
<1>6. Len(ns) \in S
  <2>1. \A i \in 0..Len(ns) : i \in S
    BY <1>1, <1>4, <1>5, Induction
  <2> QED
    BY <1>1, <2>1
<1>7. \A j \in 0..Len(ns) : Sums(ns)[j] <= Sums(ns)[Len(ns)]
  BY <1>6 DEF S
<1>8. \A i \in 1..Len(ns) : i \in 0..Len(ns)
  OBVIOUS
<1> QED
  BY <1>3, <1>7, <1>8

(* A place of the shorter of two lists, and those beside it in the longer. *)
LEMMA PlacesBeside ==
  ASSUME NEW n \in Nat, NEW m \in Nat, m = n - 1, NEW j \in 1..m
  PROVE  /\ j \in Nat /\ j - 1 \in 0..m /\ j \in 0..m
         /\ j \in 1..n /\ j + 1 \in 1..n /\ j - 1 \in 0..n /\ j \in 0..n
  OBVIOUS

(* Adding a natural number makes nothing smaller. *)
LEMMA MoreOrSame ==
  ASSUME NEW x \in Nat, NEW y \in Nat
  PROVE  x <= x + y
  OBVIOUS

(* A sum without one of its numbers is no larger. *)
LEMMA SumsCut ==
  ASSUME NEW a \in Seq(Nat), NEW b \in Seq(Nat), NEW k \in 1..Len(a), Len(b) = Len(a) - 1,
         \A i \in 1..(k - 1) : b[i] = a[i], \A i \in k..Len(b) : b[i] = a[i + 1]
  PROVE  Sums(b)[Len(b)] <= Sums(a)[Len(a)]
<1> DEFINE S == {j \in 0..Len(b) : IF j < k THEN Sums(b)[j] = Sums(a)[j]
                                             ELSE Sums(b)[j] <= Sums(a)[j + 1]}
<1>1. Len(a) \in Nat /\ Len(b) \in Nat /\ k \in Nat /\ 1 <= k /\ k <= Len(a)
  OBVIOUS
<1>2. /\ \A i \in 0..Len(a) : Sums(a)[i] \in Nat
      /\ \A i \in 0..Len(b) : Sums(b)[i] \in Nat
  BY SumsTyped
<1>num. /\ \A i \in 1..Len(a) : a[i] \in Nat
        /\ \A i \in 1..Len(b) : b[i] \in Nat
  OBVIOUS
<1>3. /\ Sums(a)[0] = 0 /\ Sums(b)[0] = 0
      /\ \A i \in 1..Len(a) : Sums(a)[i] = Sums(a)[i - 1] + a[i]
      /\ \A i \in 1..Len(b) : Sums(b)[i] = Sums(b)[i - 1] + b[i]
  BY SumsNext
<1>4. 0 \in S
  BY <1>1, <1>3
<1>5. ASSUME NEW j \in 1..Len(b), j - 1 \in S PROVE j \in S
  <2>1. /\ j \in Nat /\ j - 1 \in 0..Len(b) /\ j \in 0..Len(b)
        /\ j \in 1..Len(a) /\ j + 1 \in 1..Len(a) /\ j - 1 \in 0..Len(a) /\ j \in 0..Len(a)
    BY <1>1, PlacesBeside
  <2>2. /\ Sums(b)[j] = Sums(b)[j - 1] + b[j]
        /\ Sums(a)[j] = Sums(a)[j - 1] + a[j]
        /\ Sums(a)[j + 1] = Sums(a)[j] + a[j + 1]
    <3>1. Sums(a)[j + 1] = Sums(a)[(j + 1) - 1] + a[j + 1] /\ (j + 1) - 1 = j
      BY <1>3, <2>1
    <3> QED
      BY <1>3, <2>1, <3>1
  <2>3. CASE j < k
    <3>1. j - 1 < k /\ j \in 1..(k - 1)
      BY <1>1, <2>1, <2>3
    <3>2. Sums(b)[j - 1] = Sums(a)[j - 1] /\ b[j] = a[j]
      BY <1>5, <3>1
    <3> QED
      BY <2>1, <2>2, <2>3, <3>2
  <2>4. CASE ~(j < k)
    <3>1. b[j] = a[j + 1]
      BY <1>1, <2>1, <2>4
    <3>2. Sums(b)[j - 1] <= Sums(a)[j]
      <4>1. CASE j - 1 < k
        <5>1. Sums(b)[j - 1] = Sums(a)[j - 1]
          BY <1>5, <4>1
        <5>2. Sums(a)[j - 1] \in Nat /\ a[j] \in Nat
          BY <1>2, <1>num, <2>1
        <5>3. Sums(a)[j - 1] <= Sums(a)[j - 1] + a[j]
          BY <5>2, MoreOrSame
        <5>4. Sums(a)[j] = Sums(a)[j - 1] + a[j]
          BY <2>2
        <5> QED
          BY <5>1, <5>3, <5>4, Zenon
      <4>2. CASE ~(j - 1 < k)
        BY <1>5, <2>1, <4>2
      <4> QED
        BY <4>1, <4>2
    <3>3. /\ Sums(b)[j - 1] \in Nat /\ Sums(a)[j] \in Nat /\ a[j + 1] \in Nat
      BY <1>2, <1>num, <2>1
    <3>4. Sums(b)[j] <= Sums(a)[j + 1]
      <4>1. ASSUME NEW x \in Nat, NEW y \in Nat, NEW u \in Nat, x <= y
            PROVE  x + u <= y + u
        BY <4>1
      <4>2. Sums(b)[j - 1] + a[j + 1] <= Sums(a)[j] + a[j + 1]
        BY <3>2, <3>3, <4>1
      <4> QED
        BY <2>2, <3>1, <4>2
    <3> QED
      BY <2>1, <2>4, <3>4
  <2> QED
    BY <2>3, <2>4
<1> HIDE DEF S
<1>6. Len(b) \in S
  <2>1. \A i \in 0..Len(b) : i \in S
    BY <1>1, <1>4, <1>5, Induction
  <2>2. Len(b) \in 0..Len(b)
    BY <1>1
  <2> QED
    BY <2>1, <2>2
<1>7. Sums(b)[Len(b)] = Sums(a)[Len(b)] \/ Sums(b)[Len(b)] <= Sums(a)[Len(b) + 1]
  BY <1>6 DEF S
<1>8. Sums(a)[Len(a)] = Sums(a)[Len(b)] + a[Len(a)] /\ Len(b) + 1 = Len(a)
  BY <1>1, <1>3
<1>9. Sums(a)[Len(b)] \in Nat /\ a[Len(a)] \in Nat /\ Sums(b)[Len(b)] \in Nat
  BY <1>1, <1>2, <1>num
<1> QED
  BY <1>7, <1>8, <1>9

------------------------------------------------------------------------------
(* Lists of vouchers. *)

AmountsOf(vs) == [i \in DOMAIN vs |-> vs[i].amount]
Faces(codes)  == [j \in DOMAIN codes |-> Face[codes[j]]]

(* All the vouchers give what they are worth. *)
FullyGiven(vs) == \A i \in DOMAIN vs : vs[i].amount = Face[vs[i].code]

LEMMA WorthDef ==
  ASSUME NEW vs
  PROVE  Worth(vs) = Sums(AmountsOf(vs))[Len(vs)]
BY DEF Worth, AmountsOf

LEMMA AmountsTyped ==
  ASSUME NEW vs \in Seq(Voucher)
  PROVE  /\ AmountsOf(vs) \in Seq(Nat) /\ Len(AmountsOf(vs)) = Len(vs)
         /\ \A i \in 1..Len(vs) : AmountsOf(vs)[i] = vs[i].amount
<1>1. Len(vs) \in Nat /\ DOMAIN vs = 1..Len(vs)
  OBVIOUS
<1>2. \A i \in 1..Len(vs) : vs[i].amount \in Nat
  <2>1. \A i \in 1..Len(vs) : vs[i] \in Voucher
    OBVIOUS
  <2> QED
    BY <2>1 DEF Voucher
<1> QED
  BY <1>1, <1>2 DEF AmountsOf

LEMMA CodesTyped ==
  ASSUME NEW vs \in Seq(Voucher)
  PROVE  /\ CodesOf(vs) \in Seq(Codes) /\ Len(CodesOf(vs)) = Len(vs)
         /\ \A i \in 1..Len(vs) : CodesOf(vs)[i] = vs[i].code
<1>1. Len(vs) \in Nat /\ DOMAIN vs = 1..Len(vs)
  OBVIOUS
<1>2. \A i \in 1..Len(vs) : vs[i].code \in Codes
  <2>1. \A i \in 1..Len(vs) : vs[i] \in Voucher
    OBVIOUS
  <2> QED
    BY <2>1 DEF Voucher
<1> QED
  BY <1>1, <1>2 DEF CodesOf

LEMMA FacesTyped ==
  ASSUME NEW codes \in Seq(Codes)
  PROVE  /\ Faces(codes) \in Seq(Nat) /\ Len(Faces(codes)) = Len(codes)
         /\ \A i \in 1..Len(codes) : Faces(codes)[i] = Face[codes[i]]
<1>1. Len(codes) \in Nat /\ DOMAIN codes = 1..Len(codes)
  OBVIOUS
<1>2. \A i \in 1..Len(codes) : Face[codes[i]] \in Nat
  BY RedemptionsAssumption DEF RedemptionsAssumption
<1> QED
  BY <1>1, <1>2 DEF Faces

LEMMA WorthTyped ==
  ASSUME NEW vs \in Seq(Voucher)
  PROVE  Worth(vs) \in Nat
<1>1. AmountsOf(vs) \in Seq(Nat) /\ Len(AmountsOf(vs)) = Len(vs) /\ Len(vs) \in Nat
  BY AmountsTyped
<1>2. Len(vs) \in 0..Len(AmountsOf(vs))
  BY <1>1
<1> QED
  BY <1>1, <1>2, SumsTyped, WorthDef

LEMMA WorthEmpty == Worth(<<>>) = 0
<1>1. <<>> \in Seq(Voucher) /\ Len(<<>>) = 0
  OBVIOUS
<1>2. AmountsOf(<<>>) \in Seq(Nat)
  BY <1>1, AmountsTyped
<1> QED
  BY <1>1, <1>2, SumsNext, WorthDef

(* The faces of the vouchers of a list. *)
LEMMA FacesHere ==
  ASSUME NEW vs \in Seq(Voucher)
  PROVE  /\ Faces(CodesOf(vs)) \in Seq(Nat) /\ Len(Faces(CodesOf(vs))) = Len(vs)
         /\ \A i \in 1..Len(vs) : Faces(CodesOf(vs))[i] = Face[vs[i].code]
<1> DEFINE codes == CodesOf(vs)
<1>1. codes \in Seq(Codes) /\ Len(codes) = Len(vs) /\ \A i \in 1..Len(vs) : codes[i] = vs[i].code
  BY CodesTyped
<1> HIDE DEF codes
<1>2. /\ Faces(codes) \in Seq(Nat) /\ Len(Faces(codes)) = Len(codes)
      /\ \A i \in 1..Len(codes) : Faces(codes)[i] = Face[codes[i]]
  BY <1>1, FacesTyped
<1>3. \A i \in 1..Len(vs) : Faces(codes)[i] = Face[vs[i].code]
  BY <1>1, <1>2
<1> QED
  BY <1>1, <1>2, <1>3 DEF codes

(* Vouchers credited with no more than they are worth are worth no more    *)
(* than their faces.                                                       *)
LEMMA WorthBelowFaces ==
  ASSUME NEW vs \in Seq(Voucher), \A i \in DOMAIN vs : vs[i].amount <= Face[vs[i].code]
  PROVE  Worth(vs) <= Sums(Faces(CodesOf(vs)))[Len(vs)]
<1> DEFINE a == AmountsOf(vs)
           b == Faces(CodesOf(vs))
<1>1. Len(vs) \in Nat /\ DOMAIN vs = 1..Len(vs)
  OBVIOUS
<1>2. /\ a \in Seq(Nat) /\ Len(a) = Len(vs)
      /\ \A i \in 1..Len(vs) : a[i] = vs[i].amount
  BY AmountsTyped
<1>4. /\ b \in Seq(Nat) /\ Len(b) = Len(vs)
      /\ \A i \in 1..Len(vs) : b[i] = Face[vs[i].code]
  BY FacesHere
<1>5. \A i \in 1..Len(vs) : a[i] <= b[i]
  BY <1>1, <1>2, <1>4
<1> HIDE DEF a, b
<1>6. \A i \in 0..Len(vs) : Sums(a)[i] <= Sums(b)[i]
  <2>1. Len(vs) <= Len(a) /\ Len(vs) <= Len(b)
    BY <1>1, <1>2, <1>4
  <2> QED
    BY <1>1, <1>2, <1>4, <1>5, <2>1, SumsBelow
<1>7. Sums(a)[Len(vs)] <= Sums(b)[Len(vs)]
  BY <1>1, <1>6
<1> QED
  BY <1>7, WorthDef DEF a, b

(* Vouchers that give all they are worth are worth their faces. *)
LEMMA WorthIsFaces ==
  ASSUME NEW vs \in Seq(Voucher), FullyGiven(vs)
  PROVE  Worth(vs) = Sums(Faces(CodesOf(vs)))[Len(vs)]
<1> DEFINE a == AmountsOf(vs)
           b == Faces(CodesOf(vs))
<1>1. Len(vs) \in Nat /\ DOMAIN vs = 1..Len(vs)
  OBVIOUS
<1>2. a \in Seq(Nat) /\ Len(a) = Len(vs) /\ \A i \in 1..Len(vs) : a[i] = vs[i].amount
  BY AmountsTyped
<1>3. b \in Seq(Nat) /\ Len(b) = Len(vs) /\ \A i \in 1..Len(vs) : b[i] = Face[vs[i].code]
  BY FacesHere
<1>4. \A i \in 1..Len(vs) : vs[i].amount = Face[vs[i].code]
  BY <1>1 DEF FullyGiven
<1> HIDE DEF a, b
<1>5. \A i \in 0..Len(vs) : Sums(a)[i] = Sums(b)[i]
  <2>1. \A i \in 1..Len(vs) : a[i] = b[i]
    BY <1>2, <1>3, <1>4
  <2>2. Len(vs) <= Len(a) /\ Len(vs) <= Len(b)
    BY <1>1, <1>2, <1>3
  <2> QED
    BY <1>1, <1>2, <1>3, <2>1, <2>2, SumsAgree
<1>6. Sums(a)[Len(vs)] = Sums(b)[Len(vs)]
  BY <1>1, <1>5
<1> QED
  BY <1>6, WorthDef DEF a, b

(* Another voucher adds what it gives. *)
LEMMA WorthAppend ==
  ASSUME NEW vs \in Seq(Voucher), NEW v \in Voucher
  PROVE  Worth(Append(vs, v)) = Worth(vs) + v.amount
<1> DEFINE ws == Append(vs, v)
           a  == AmountsOf(vs)
           b  == AmountsOf(ws)
           n  == Len(vs)
<1>1. /\ ws \in Seq(Voucher) /\ Len(ws) = n + 1 /\ n \in Nat
      /\ \A i \in 1..n : ws[i] = vs[i]
      /\ ws[n + 1] = v
  BY AppendProperties
<1>2. /\ a \in Seq(Nat) /\ Len(a) = n /\ \A i \in 1..n : a[i] = vs[i].amount
  BY AmountsTyped
<1>3. /\ b \in Seq(Nat) /\ Len(b) = n + 1 /\ \A i \in 1..(n + 1) : b[i] = ws[i].amount
  <2>1. /\ b \in Seq(Nat) /\ Len(b) = Len(ws) /\ \A i \in 1..Len(ws) : b[i] = ws[i].amount
    BY <1>1, AmountsTyped
  <2> QED
    BY <1>1, <2>1
<1>4. Worth(vs) = Sums(a)[n] /\ Worth(ws) = Sums(b)[n + 1]
  BY <1>1, WorthDef
<1> HIDE DEF ws, a, b, n
<1>5. \A i \in 1..n : a[i] = b[i]
  <2>1. \A i \in 1..n : i \in 1..(n + 1)
    BY <1>1
  <2> QED
    BY <1>1, <1>2, <1>3, <2>1
<1>6. \A i \in 0..n : Sums(a)[i] = Sums(b)[i]
  <2>1. n <= Len(a) /\ n <= Len(b)
    BY <1>1, <1>2, <1>3
  <2> QED
    BY <1>1, <1>2, <1>3, <1>5, <2>1, SumsAgree
<1>7. Sums(a)[n] = Sums(b)[n]
  BY <1>1, <1>6
<1>8. Sums(b)[n + 1] = Sums(b)[(n + 1) - 1] + b[n + 1]
  <2>1. n + 1 \in 1..Len(b)
    BY <1>1, <1>3
  <2> QED
    BY <1>3, <2>1, SumsNext
<1>9. (n + 1) - 1 = n /\ b[n + 1] = v.amount
  BY <1>1, <1>3
<1>10. Worth(ws) = Worth(vs) + v.amount
  BY <1>4, <1>7, <1>8, <1>9
<1> QED
  BY <1>10 DEF ws

(* What RemoveAt leaves. *)
LEMMA Removed ==
  ASSUME NEW S, NEW s \in Seq(S), NEW k \in 1..Len(s)
  PROVE  /\ RemoveAt(s, k) \in Seq(S)
         /\ Len(RemoveAt(s, k)) = Len(s) - 1
         /\ \A i \in 1..(k - 1) : RemoveAt(s, k)[i] = s[i]
         /\ \A i \in k..(Len(s) - 1) : RemoveAt(s, k)[i] = s[i + 1]
<1> DEFINE n == Len(s)
           a == SubSeq(s, 1, k - 1)
           b == SubSeq(s, k + 1, n)
<1>1. n \in Nat /\ k \in Nat /\ 1 <= k /\ k <= n /\ \A i \in 1..n : s[i] \in S
  OBVIOUS
<1>2. /\ a \in Seq(S) /\ Len(a) = k - 1
      /\ \A i \in 1..(k - 1) : a[i] = s[i]
  <2>1. \A i \in 1..(k - 1) : s[i] \in S
    BY <1>1
  <2>2. /\ a \in Seq(S) /\ Len(a) = IF 1 <= k - 1 THEN (k - 1) - 1 + 1 ELSE 0
        /\ \A i \in 1..((k - 1) - 1 + 1) : a[i] = s[1 + i - 1]
    BY <1>1, <2>1, SubSeqProperties
  <2> QED
    BY <1>1, <2>2
<1>3. /\ b \in Seq(S) /\ Len(b) = n - k
      /\ \A i \in 1..(n - k) : b[i] = s[k + i]
  <2>1. \A i \in (k + 1)..n : s[i] \in S
    BY <1>1
  <2>2. /\ b \in Seq(S) /\ Len(b) = IF k + 1 <= n THEN n - (k + 1) + 1 ELSE 0
        /\ \A i \in 1..(n - (k + 1) + 1) : b[i] = s[(k + 1) + i - 1]
    BY <1>1, <2>1, SubSeqProperties
  <2> QED
    BY <1>1, <2>2
<1>4. RemoveAt(s, k) = a \o b
  BY DEF RemoveAt
<1> HIDE DEF n, a, b
<1>5. /\ a \o b \in Seq(S) /\ Len(a \o b) = n - 1
      /\ \A i \in 1..(n - 1) : (a \o b)[i] = IF i <= k - 1 THEN a[i] ELSE b[i - (k - 1)]
  <2>1. /\ a \o b \in Seq(S) /\ Len(a \o b) = Len(a) + Len(b)
        /\ \A i \in 1..(Len(a) + Len(b)) :
             (a \o b)[i] = IF i <= Len(a) THEN a[i] ELSE b[i - Len(a)]
    BY <1>2, <1>3, ConcatProperties
  <2>2. Len(a) + Len(b) = n - 1
    BY <1>1, <1>2, <1>3
  <2> QED
    BY <1>2, <2>1, <2>2
<1>6. \A i \in 1..(k - 1) : (a \o b)[i] = s[i]
  BY <1>1, <1>2, <1>5
<1>7. ASSUME NEW i \in k..(n - 1) PROVE (a \o b)[i] = s[i + 1]
  <2>1. i \in 1..(n - 1) /\ ~(i <= k - 1) /\ i - (k - 1) \in 1..(n - k) /\ k + (i - (k - 1)) = i + 1
    BY <1>1
  <2>2. (a \o b)[i] = b[i - (k - 1)]
    BY <1>5, <2>1
  <2>3. b[i - (k - 1)] = s[k + (i - (k - 1))]
    BY <1>3, <2>1
  <2> QED
    BY <2>1, <2>2, <2>3
<1> QED
  BY <1>4, <1>5, <1>6, <1>7 DEF n

(* Without one of the vouchers the rest is worth no more. *)
LEMMA WorthCut ==
  ASSUME NEW vs \in Seq(Voucher), NEW k \in 1..Len(vs)
  PROVE  Worth(RemoveAt(vs, k)) <= Worth(vs)
<1> DEFINE ws == RemoveAt(vs, k)
           a  == AmountsOf(vs)
           b  == AmountsOf(ws)
<1>0. Len(vs) \in Nat /\ k \in Nat /\ 1 <= k /\ k <= Len(vs)
  OBVIOUS
<1>1. /\ ws \in Seq(Voucher) /\ Len(ws) = Len(vs) - 1
      /\ \A i \in 1..(k - 1) : ws[i] = vs[i]
      /\ \A i \in k..(Len(vs) - 1) : ws[i] = vs[i + 1]
  BY Removed
<1>2. /\ a \in Seq(Nat) /\ Len(a) = Len(vs) /\ \A i \in 1..Len(vs) : a[i] = vs[i].amount
  BY AmountsTyped
<1>3. /\ b \in Seq(Nat) /\ Len(b) = Len(ws) /\ \A i \in 1..Len(ws) : b[i] = ws[i].amount
  BY <1>1, AmountsTyped
<1>4. Worth(vs) = Sums(a)[Len(a)] /\ Worth(ws) = Sums(b)[Len(b)]
  BY <1>2, <1>3, WorthDef
<1> HIDE DEF ws, a, b
<1>5. Len(b) = Len(a) - 1 /\ k \in 1..Len(a)
  BY <1>0, <1>1, <1>2, <1>3
<1>6. ASSUME NEW i \in 1..(k - 1) PROVE b[i] = a[i]
  <2>1. i \in 1..Len(vs) /\ i \in 1..Len(ws)
    BY <1>0, <1>1
  <2> QED
    BY <1>1, <1>2, <1>3, <2>1
<1>7. ASSUME NEW i \in k..Len(b) PROVE b[i] = a[i + 1]
  <2>1. i \in k..(Len(vs) - 1) /\ i + 1 \in 1..Len(vs) /\ i \in 1..Len(ws)
    BY <1>0, <1>1, <1>2, <1>3
  <2> QED
    BY <1>1, <1>2, <1>3, <2>1
<1>8. Sums(b)[Len(b)] <= Sums(a)[Len(a)]
  BY <1>2, <1>3, <1>5, <1>6, <1>7, SumsCut
<1> QED
  BY <1>4, <1>8 DEF ws

------------------------------------------------------------------------------
(* The voucher service. *)

LEMMA VoucherEqual ==
  ASSUME NEW u \in Voucher, NEW v \in Voucher, u.code = v.code, u.amount = v.amount
  PROVE  u = v
BY DEF Voucher

Given(n, before, face) ==
  LET left == IF n > before THEN n - before ELSE 0
  IN  IF left < face THEN left ELSE face

LEMMA GivenBounds ==
  ASSUME NEW n \in Nat, NEW before \in Nat, NEW face \in Nat
  PROVE  /\ Given(n, before, face) \in Nat
         /\ Given(n, before, face) <= face
         /\ Given(n, before, face) > 0 => before + Given(n, before, face) <= n
BY DEF Given

LEMMA SpreadDef ==
  ASSUME NEW codes \in Seq(Codes), NEW n \in Nat
  PROVE  /\ Spread(codes, n) \in Seq(Voucher)
         /\ Len(Spread(codes, n)) = Len(codes)
         /\ \A i \in 1..Len(codes) :
              /\ Spread(codes, n)[i].code = codes[i]
              /\ Spread(codes, n)[i].amount
                   = Given(n, Sums(Faces(codes))[i - 1], Face[codes[i]])
<1>1. /\ Len(codes) \in Nat /\ DOMAIN codes = 1..Len(codes)
      /\ \A i \in 1..Len(codes) : codes[i] \in Codes
  OBVIOUS
<1> DEFINE v(i) == [code |-> codes[i],
                    amount |-> Given(n, Sums(Faces(codes))[i - 1], Face[codes[i]])]
<1>2. Spread(codes, n) = [i \in 1..Len(codes) |-> v(i)]
  BY <1>1 DEF Spread, Given, Faces
<1>3. ASSUME NEW i \in 1..Len(codes) PROVE v(i) \in Voucher
  <2>1. Sums(Faces(codes))[i - 1] \in Nat
    <3>1. Faces(codes) \in Seq(Nat) /\ Len(Faces(codes)) = Len(codes)
      BY FacesTyped
    <3>2. i - 1 \in 0..Len(Faces(codes))
      BY <1>1, <3>1
    <3> QED
      BY <3>1, <3>2, SumsTyped
  <2>2. codes[i] \in Codes /\ Face[codes[i]] \in Nat
    BY <1>1, RedemptionsAssumption DEF RedemptionsAssumption
  <2>3. Given(n, Sums(Faces(codes))[i - 1], Face[codes[i]]) \in Nat
    BY <2>1, <2>2, GivenBounds
  <2> QED
    BY <2>2, <2>3 DEF Voucher
<1>4. ASSUME NEW i \in 1..Len(codes)
      PROVE  /\ Spread(codes, n)[i].code = codes[i]
             /\ Spread(codes, n)[i].amount
                  = Given(n, Sums(Faces(codes))[i - 1], Face[codes[i]])
  <2>1. Spread(codes, n)[i] = v(i)
    BY <1>2
  <2>2. /\ v(i).code = codes[i]
        /\ v(i).amount = Given(n, Sums(Faces(codes))[i - 1], Face[codes[i]])
    OBVIOUS
  <2> HIDE DEF v
  <2> QED
    BY <2>1, <2>2
<1>5. Spread(codes, n) \in Seq(Voucher) /\ Len(Spread(codes, n)) = Len(codes)
  <2> HIDE DEF v
  <2>1. [i \in 1..Len(codes) |-> v(i)] \in [1..Len(codes) -> Voucher]
    BY <1>3
  <2>2. /\ [i \in 1..Len(codes) |-> v(i)] \in Seq(Voucher)
        /\ Len([i \in 1..Len(codes) |-> v(i)]) = Len(codes)
    BY <1>1, <1>3
  <2> QED
    BY <1>2, <2>2
<1> QED
  BY <1>4, <1>5

(* The service names the vouchers it was asked for. *)
LEMMA SpreadCodes ==
  ASSUME NEW codes \in Seq(Codes), NEW n \in Nat
  PROVE  CodesOf(Spread(codes, n)) = codes
<1> DEFINE vs == Spread(codes, n)
<1>1. vs \in Seq(Voucher) /\ Len(vs) = Len(codes) /\ \A i \in 1..Len(codes) : vs[i].code = codes[i]
  BY SpreadDef
<1> HIDE DEF vs
<1>2. /\ CodesOf(vs) \in Seq(Codes) /\ Len(CodesOf(vs)) = Len(vs)
      /\ \A i \in 1..Len(vs) : CodesOf(vs)[i] = vs[i].code
  BY <1>1, CodesTyped
<1>3. CodesOf(vs) = codes
  BY <1>1, <1>2, SeqEqual
<1> QED
  BY <1>3 DEF vs

(* What it gives on the others does not depend on the last. *)
LEMMA SpreadAppend ==
  ASSUME NEW codes \in Seq(Codes), NEW c \in Codes, NEW n \in Nat
  PROVE  /\ Spread(Append(codes, c), n)
              = Append(Spread(codes, n), Spread(Append(codes, c), n)[Len(codes) + 1])
         /\ Spread(Append(codes, c), n)[Len(codes) + 1].code = c
         /\ Spread(Append(codes, c), n)[Len(codes) + 1].amount
              = Given(n, Sums(Faces(codes))[Len(codes)], Face[c])
<1> DEFINE ds == Append(codes, c)
           k  == Len(codes)
           a  == Faces(codes)
           b  == Faces(ds)
           vs == Spread(codes, n)
           ws == Spread(ds, n)
<1>1. /\ ds \in Seq(Codes) /\ Len(ds) = k + 1 /\ k \in Nat
      /\ \A i \in 1..k : ds[i] = codes[i]
      /\ ds[k + 1] = c
  BY AppendProperties
<1>2. a \in Seq(Nat) /\ Len(a) = k /\ \A i \in 1..k : a[i] = Face[codes[i]]
  BY FacesTyped
<1>3. b \in Seq(Nat) /\ Len(b) = k + 1 /\ \A i \in 1..(k + 1) : b[i] = Face[ds[i]]
  <2>1. b \in Seq(Nat) /\ Len(b) = Len(ds) /\ \A i \in 1..Len(ds) : b[i] = Face[ds[i]]
    BY <1>1, FacesTyped
  <2> QED
    BY <1>1, <2>1
<1>4. /\ vs \in Seq(Voucher) /\ Len(vs) = k
      /\ \A i \in 1..k : /\ vs[i].code = codes[i]
                         /\ vs[i].amount = Given(n, Sums(a)[i - 1], Face[codes[i]])
  BY SpreadDef
<1>5. /\ ws \in Seq(Voucher) /\ Len(ws) = k + 1
      /\ \A i \in 1..(k + 1) : /\ ws[i].code = ds[i]
                               /\ ws[i].amount = Given(n, Sums(b)[i - 1], Face[ds[i]])
  <2>1. /\ ws \in Seq(Voucher) /\ Len(ws) = Len(ds)
        /\ \A i \in 1..Len(ds) : /\ ws[i].code = ds[i]
                                 /\ ws[i].amount = Given(n, Sums(b)[i - 1], Face[ds[i]])
    BY <1>1, SpreadDef
  <2> QED
    BY <1>1, <2>1
<1> HIDE DEF ds, k, a, b, vs, ws
<1>6. \A i \in 0..k : Sums(a)[i] = Sums(b)[i]
  <2>1. \A i \in 1..k : a[i] = b[i]
    <3> SUFFICES ASSUME NEW i \in 1..k PROVE a[i] = b[i]
      OBVIOUS
    <3>1. i \in 1..(k + 1)
      BY <1>1
    <3>2. a[i] = Face[codes[i]] /\ b[i] = Face[ds[i]] /\ ds[i] = codes[i]
      BY <1>1, <1>2, <1>3, <3>1
    <3> QED
      BY <3>2
  <2>2. k <= Len(a) /\ k <= Len(b)
    BY <1>1, <1>2, <1>3
  <2> QED
    BY <1>1, <1>2, <1>3, <2>1, <2>2, SumsAgree
<1>7. ASSUME NEW i \in 1..k PROVE ws[i] = vs[i]
  <2>1. i \in 1..(k + 1) /\ i - 1 \in 0..k
    BY <1>1
  <2>2. vs[i] \in Voucher /\ ws[i] \in Voucher
    BY <1>4, <1>5, <2>1
  <2>3. ws[i].code = vs[i].code
    BY <1>1, <1>4, <1>5, <2>1
  <2>4. ws[i].amount = vs[i].amount
    <3>1. ws[i].amount = Given(n, Sums(b)[i - 1], Face[ds[i]])
      BY <1>5, <2>1
    <3>2. vs[i].amount = Given(n, Sums(a)[i - 1], Face[codes[i]])
      BY <1>4
    <3>3. Sums(b)[i - 1] = Sums(a)[i - 1] /\ ds[i] = codes[i]
      BY <1>1, <1>6, <2>1
    <3> QED
      BY <3>1, <3>2, <3>3
  <2> QED
    BY <2>2, <2>3, <2>4, VoucherEqual
<1>8. k + 1 \in 1..(k + 1) /\ (k + 1) - 1 = k /\ k \in 0..k
  BY <1>1
<1>9. ws[k + 1] \in Voucher
  BY <1>5, <1>8
<1>10. ws = Append(vs, ws[k + 1])
  <2> DEFINE us == Append(vs, ws[k + 1])
  <2>1. /\ us \in Seq(Voucher) /\ Len(us) = k + 1
        /\ \A i \in 1..k : us[i] = vs[i]
        /\ us[k + 1] = ws[k + 1]
    BY <1>4, <1>9, AppendProperties
  <2> HIDE DEF us
  <2>2. \A i \in 1..Len(ws) : ws[i] = us[i]
    BY <1>1, <1>5, <1>7, <2>1
  <2>3. ws = us
    BY <1>5, <2>1, <2>2, SeqEqual
  <2> QED
    BY <2>3 DEF us
<1>11. ws[k + 1].code = c
  BY <1>1, <1>5, <1>8
<1>12. ws[k + 1].amount = Given(n, Sums(a)[k], Face[c])
  <2>1. ws[k + 1].amount = Given(n, Sums(b)[(k + 1) - 1], Face[ds[k + 1]])
    BY <1>5, <1>8
  <2>2. Sums(b)[k] = Sums(a)[k]
    BY <1>6, <1>8
  <2> QED
    BY <1>1, <1>8, <2>1, <2>2
<1> QED
  BY <1>10, <1>11, <1>12 DEF ds, k, a, vs, ws

(* Vouchers that give all they are worth are what the service says, for an *)
(* amount that is enough for them.                                         *)
LEMMA SpreadFull ==
  ASSUME NEW vs \in Seq(Voucher), FullyGiven(vs), NEW n \in Nat,
         Sums(Faces(CodesOf(vs)))[Len(vs)] <= n
  PROVE  Spread(CodesOf(vs), n) = vs
<1> DEFINE codes == CodesOf(vs)
           a     == Faces(codes)
           ws    == Spread(codes, n)
           k     == Len(vs)
<1>1. k \in Nat /\ DOMAIN vs = 1..k /\ \A i \in 1..k : vs[i] \in Voucher
  OBVIOUS
<1>2. codes \in Seq(Codes) /\ Len(codes) = k /\ \A i \in 1..k : codes[i] = vs[i].code
  BY CodesTyped
<1>3. a \in Seq(Nat) /\ Len(a) = k /\ \A i \in 1..k : a[i] = Face[vs[i].code]
  BY FacesHere
<1>4. \A i \in 1..k : vs[i].amount = Face[vs[i].code]
  BY <1>1 DEF FullyGiven
<1>5. Sums(a)[k] <= n
  OBVIOUS
<1> HIDE DEF codes, a, k
<1>6. /\ ws \in Seq(Voucher) /\ Len(ws) = Len(codes)
      /\ \A i \in 1..Len(codes) : /\ ws[i].code = codes[i]
                                  /\ ws[i].amount = Given(n, Sums(a)[i - 1], Face[codes[i]])
  BY <1>2, SpreadDef DEF a
<1> HIDE DEF ws
<1>7. ASSUME NEW i \in 1..k PROVE ws[i] = vs[i]
  <2>1. Sums(a)[i - 1] + a[i] <= Sums(a)[k]
    BY <1>3, SumsGrow
  <2>2. Sums(a)[i - 1] \in Nat /\ Sums(a)[k] \in Nat /\ a[i] \in Nat
    <3>1. i - 1 \in 0..Len(a) /\ k \in 0..Len(a) /\ i \in 1..Len(a)
      BY <1>1, <1>3
    <3> QED
      BY <1>3, <3>1, SumsTyped
  <2>3. ASSUME NEW before \in Nat, NEW face \in Nat, NEW all \in Nat,
               before + face <= all, all <= n
        PROVE  Given(n, before, face) = face
    BY <2>3 DEF Given
  <2>4. Given(n, Sums(a)[i - 1], a[i]) = a[i]
    BY <1>5, <2>1, <2>2, <2>3
  <2>5. ws[i].code = vs[i].code
    BY <1>2, <1>6
  <2>6. ws[i].amount = vs[i].amount
    BY <1>2, <1>3, <1>4, <1>6, <2>4
  <2>7. ws[i] \in Voucher /\ vs[i] \in Voucher
    BY <1>1, <1>2, <1>6
  <2> QED
    BY <2>5, <2>6, <2>7, VoucherEqual
<1>8. ws = vs
  <2>1. Len(ws) = Len(vs) /\ \A i \in 1..Len(vs) : ws[i] = vs[i]
    BY <1>2, <1>6, <1>7 DEF k
  <2> QED
    BY <1>6, <2>1, SeqEqual
<1> QED
  BY <1>8 DEF ws, codes

(* The place of a voucher is a place. *)
LEMMA Placed ==
  ASSUME NEW c, gv \in Seq(Voucher), PlaceOf(c) # 0
  PROVE  PlaceOf(c) \in 1..Len(gv)
<1> DEFINE I == {i \in 1..Len(gv) : gv[i].code = c}
<1>1. PlaceOf(c) = IF I # {} THEN Min(I) ELSE 0
  BY DEF PlaceOf, SelectInSeq
<1>2. I # {} /\ I \subseteq Nat /\ I \subseteq 1..Len(gv)
  BY <1>1
<1> HIDE DEF I
<1>3. PICK n \in I : \A m \in I : n <= m
  BY <1>2, NatMinimum
<1>4. Min(I) = CHOOSE x \in I : \A y \in I : x <= y
  BY DEF Min
<1>5. Min(I) \in I
  BY <1>3, <1>4
<1> QED
  BY <1>1, <1>2, <1>5

------------------------------------------------------------------------------
(* Amounts. *)

(* A share is a number, nothing of nothing, and grows with the amount.     *)
LEMMA ShareTyped ==
  ASSUME NEW n \in Nat, NEW p \in Nat
  PROVE  Share(n, p) \in Nat /\ Share(0, p) = 0
<1>1. n * p \in Nat
  OBVIOUS
<1>2. \A k \in Nat : (k + 50) \div 100 \in Nat
  OBVIOUS
<1>3. 0 * p = 0 /\ (0 + 50) \div 100 = 0
  OBVIOUS
<1> QED
  BY <1>1, <1>2, <1>3 DEF Share

LEMMA ShareGrows ==
  ASSUME NEW m \in Nat, NEW n \in Nat, NEW p \in Nat, m <= n
  PROVE  Share(m, p) <= Share(n, p)
<1>1. m * p \in Nat /\ n * p \in Nat /\ m * p <= n * p
  <2>1. n = m + (n - m) /\ n - m \in Nat
    OBVIOUS
  <2>2. (m + (n - m)) * p = m * p + (n - m) * p /\ (n - m) * p \in Nat
    BY <2>1
  <2> QED
    BY <2>1, <2>2
<1>2. \A j, k \in Nat : j <= k => (j + 50) \div 100 <= (k + 50) \div 100
  OBVIOUS
<1> QED
  BY <1>1, <1>2 DEF Share

LEMMA PercentFeeTyped ==
  ASSUME NEW o \in Options, NEW n \in Nat
  PROVE  PercentFee(o, n) \in Nat /\ PercentFee(o, 0) = 0
<1>1. Percent[o] \in Nat /\ FeeTax \in Nat
  BY RedemptionsAssumption DEF RedemptionsAssumption
<1>2. Share(n, Percent[o]) \in Nat /\ Share(0, Percent[o]) = 0
  BY <1>1, ShareTyped
<1>3. Share(Share(n, Percent[o]), FeeTax) \in Nat /\ Share(0, FeeTax) = 0
  BY <1>1, <1>2, ShareTyped
<1> QED
  BY <1>2, <1>3 DEF PercentFee

LEMMA PercentFeeGrows ==
  ASSUME NEW o \in Options, NEW m \in Nat, NEW n \in Nat, m <= n
  PROVE  PercentFee(o, m) <= PercentFee(o, n)
<1>1. Percent[o] \in Nat /\ FeeTax \in Nat
  BY RedemptionsAssumption DEF RedemptionsAssumption
<1> DEFINE a == Share(m, Percent[o])
           b == Share(n, Percent[o])
<1>2. a \in Nat /\ b \in Nat /\ a <= b
  BY <1>1, ShareTyped, ShareGrows
<1> HIDE DEF a, b
<1>3. Share(a, FeeTax) \in Nat /\ Share(b, FeeTax) \in Nat /\ Share(a, FeeTax) <= Share(b, FeeTax)
  BY <1>1, <1>2, ShareTyped, ShareGrows
<1>4. a + Share(a, FeeTax) <= b + Share(b, FeeTax)
  BY <1>2, <1>3
<1> QED
  BY <1>4 DEF PercentFee, a, b

(* What is left to pay, and with the percentage fee, when the cart takes   *)
(* off t for eCash and w for vouchers.                                     *)
LeftOf(o, t, w) == IF Base + Fee[o] - t - w < 0 THEN 0 ELSE Base + Fee[o] - t - w
Price(o, t, w)  == LeftOf(o, t, w) + PercentFee(o, LeftOf(o, t, w))

LEMMA PriceBounds ==
  ASSUME NEW o \in Options, NEW t \in Nat, NEW w \in Nat
  PROVE  /\ Base + Fee[o] \in Nat /\ FullPrice(o) \in Nat
         /\ LeftOf(o, t, w) \in Nat /\ PercentFee(o, LeftOf(o, t, w)) \in Nat
         /\ Price(o, t, w) \in Nat /\ LeftOf(o, t, w) <= Price(o, t, w)
         /\ LeftOf(o, t, w) = 0 => Price(o, t, w) = 0
         /\ LeftOf(o, t, w) > 0 \/ t + w <= Base + Fee[o]
              => t + w + LeftOf(o, t, w) = Base + Fee[o]
         /\ Price(o, t, w) > 0 => t + w + Price(o, t, w) <= FullPrice(o)
<1> DEFINE full == Base + Fee[o]
           left == LeftOf(o, t, w)
<1>1. full \in Nat
  BY RedemptionsAssumption DEF RedemptionsAssumption
<1>2. left \in Nat /\ left <= full /\ (left > 0 \/ t + w <= full => t + w + left = full)
  BY RedemptionsAssumption DEF RedemptionsAssumption, LeftOf
<1>3. Price(o, t, w) = left + PercentFee(o, left) /\ FullPrice(o) = full + PercentFee(o, full)
  <2>1. FullPrice(o) = Base + Fee[o] + PercentFee(o, Base + Fee[o])
    BY DEF FullPrice
  <2> QED
    BY <2>1 DEF Price
<1> HIDE DEF full, left
<1>5. PercentFee(o, left) \in Nat /\ PercentFee(o, full) \in Nat /\ PercentFee(o, 0) = 0
  BY <1>1, <1>2, PercentFeeTyped
<1>6. PercentFee(o, left) <= PercentFee(o, full)
  BY <1>1, <1>2, PercentFeeGrows
<1>7. /\ Price(o, t, w) \in Nat /\ FullPrice(o) \in Nat /\ left <= Price(o, t, w)
      /\ left = 0 => Price(o, t, w) = 0
  BY <1>1, <1>2, <1>3, <1>5
<1>8. Price(o, t, w) > 0 => t + w + Price(o, t, w) <= FullPrice(o)
  BY <1>1, <1>2, <1>3, <1>5, <1>6, <1>7
<1> QED
  BY <1>1, <1>2, <1>5, <1>7, <1>8 DEF full, left

(* The less is taken off, the more is to pay. *)
LEMMA PriceGrows ==
  ASSUME NEW o \in Options, NEW t \in Nat, NEW u \in Nat, NEW w \in Nat, u <= t
  PROVE  Price(o, t, w) <= Price(o, u, w)
<1> DEFINE a == LeftOf(o, t, w)
           b == LeftOf(o, u, w)
<1>1. a \in Nat /\ b \in Nat /\ a <= b
  BY RedemptionsAssumption DEF RedemptionsAssumption, LeftOf
<1> HIDE DEF a, b
<1>2. PercentFee(o, a) \in Nat /\ PercentFee(o, b) \in Nat /\ PercentFee(o, a) <= PercentFee(o, b)
  BY <1>1, PercentFeeTyped, PercentFeeGrows
<1>3. a + PercentFee(o, a) <= b + PercentFee(o, b)
  BY <1>1, <1>2
<1> QED
  BY <1>3 DEF Price, a, b

(* Taking off as much as is left leaves nothing. *)
LEMMA LeftGone ==
  ASSUME NEW o \in Options, NEW t \in Nat, NEW w \in Nat, NEW n \in Nat, LeftOf(o, t, w) <= n
  PROVE  LeftOf(o, t, w + n) = 0
BY RedemptionsAssumption DEF RedemptionsAssumption, LeftOf

LEMMA PayableIs ==
  /\ \A o : Left(o) = LeftOf(o, taken, Worth(gv)) /\ PayableBy(o) = Price(o, taken, Worth(gv))
  /\ Payable = Price(option, taken, Worth(gv))
  /\ Left(option)' = LeftOf(option', taken', Worth(gv)')
  /\ Payable' = Price(option', taken', Worth(gv)')
BY DEF Payable, PayableBy, Price, Left, LeftOf, Rest

------------------------------------------------------------------------------
(* Types. *)

LEMMA Sizes ==
  ASSUME TypeOK
  PROVE  /\ Worth(gv) \in Nat /\ cash \in Nat /\ taken \in Nat /\ option \in Options
         /\ Base + Fee[option] \in Nat /\ FullPrice(option) \in Nat
         /\ Left(option) \in Nat /\ Payable \in Nat /\ Left(option) <= Payable
         /\ Left(option) = 0 => Payable = 0
         /\ Left(option) > 0 \/ taken + Worth(gv) <= Base + Fee[option]
              => taken + Worth(gv) + Left(option) = Base + Fee[option]
         /\ Payable > 0 => taken + Worth(gv) + Payable <= FullPrice(option)
         /\ Len(gv) \in Nat /\ Len(nodes) \in Nat
<1>1. Worth(gv) \in Nat
  BY WorthTyped DEF TypeOK
<1>2. /\ cash \in Nat /\ taken \in Nat /\ option \in Options
      /\ Len(gv) \in Nat /\ Len(nodes) \in Nat
  BY DEF TypeOK
<1>3. Left(option) = LeftOf(option, taken, Worth(gv)) /\ Payable = Price(option, taken, Worth(gv))
  BY PayableIs
<1> DEFINE w == Worth(gv)
           left == LeftOf(option, taken, w)
<1>4. /\ Base + Fee[option] \in Nat /\ FullPrice(option) \in Nat
      /\ left \in Nat /\ Price(option, taken, w) \in Nat /\ left <= Price(option, taken, w)
      /\ left = 0 => Price(option, taken, w) = 0
      /\ left > 0 \/ taken + w <= Base + Fee[option] => taken + w + left = Base + Fee[option]
      /\ Price(option, taken, w) > 0 => taken + w + Price(option, taken, w) <= FullPrice(option)
  <2> HIDE DEF w
  <2> QED
    BY <1>1, <1>2, PriceBounds DEF w
<1> QED
  BY <1>1, <1>2, <1>3, <1>4

(* A balance call is answered with vouchers. *)
LEMMA Answer ==
  ASSUME TypeOK, NEW s \in Slots
  PROVE  /\ checks[s] \in [open : BOOLEAN, vouchers : Seq(Codes), amount : Nat]
         /\ Spread(checks[s].vouchers, checks[s].amount) \in Seq(Voucher)
         /\ Len(Spread(checks[s].vouchers, checks[s].amount)) = Len(checks[s].vouchers)
<1>1. checks[s] \in [open : BOOLEAN, vouchers : Seq(Codes), amount : Nat]
  BY DEF TypeOK
<1>2. checks[s].vouchers \in Seq(Codes) /\ checks[s].amount \in Nat
  BY <1>1
<1> QED
  BY <1>1, <1>2, SpreadDef

LEMMA TypeInit == Init => TypeOK
<1> SUFFICES ASSUME Init PROVE TypeOK
  OBVIOUS
<1>1. gv \in Seq(Voucher) /\ nodes \in Seq(Voucher)
  BY EmptySeq DEF Init
<1>2. NoCheck \in [open : BOOLEAN, vouchers : Seq(Codes), amount : Nat]
  BY EmptySeq DEF NoCheck
<1>3. checks \in [Slots -> [open : BOOLEAN, vouchers : Seq(Codes), amount : Nat]]
  BY <1>2 DEF Init
<1>4. 0 \in 0..MaxReversals /\ 0 \in 0..MaxHolds
  BY RedemptionsAssumption DEF RedemptionsAssumption
<1>5. /\ auths \in [Holds -> Nat] /\ holds \in [Holds -> Nat]
      /\ revs \in [Holds -> 0..MaxReversals] /\ used \in 0..MaxHolds
  BY <1>4 DEF Init
<1>6. auth \in [kind : {"none", "error", "hold"}, hold : Holds \cup {NoHold}, amount : Nat]
  BY DEF Init, NoAuth
<1> QED
  BY <1>1, <1>3, <1>5, <1>6 DEF Init, TypeOK

LEMMA TypeAddVoucher ==
  ASSUME TypeOK, NEW c \in Codes, NEW s \in Slots, AddVoucher(c, s)
  PROVE  TypeOK'
<1>1. Append(CodesOf(nodes), c) \in Seq(Codes)
  <2>1. CodesOf(nodes) \in Seq(Codes)
    BY CodesTyped DEF TypeOK
  <2> QED
    BY <2>1
<1>2. Payable + Worth(gv) \in Nat
  BY Sizes
<1> DEFINE call == [open |-> TRUE, vouchers |-> Append(CodesOf(nodes), c),
                    amount |-> Payable + Worth(gv)]
<1>3. call \in [open : BOOLEAN, vouchers : Seq(Codes), amount : Nat]
  BY <1>1, <1>2
<1>4. checks' = [checks EXCEPT ![s] = call]
  BY DEF AddVoucher
<1> HIDE DEF call
<1>5. checks' \in [Slots -> [open : BOOLEAN, vouchers : Seq(Codes), amount : Nat]]
  BY <1>3, <1>4 DEF TypeOK
<1>6. overlapped' \in BOOLEAN
  BY DEF AddVoucher, Overlap, TypeOK, PricedCallOut
<1>7. UNCHANGED <<ecashGV, option, gv, nodes, ecash, wallet, shifted, shortened, lost>>
  BY DEF AddVoucher
<1> QED
  BY <1>5, <1>6, <1>7 DEF TypeOK, ecash, wallet

LEMMA TypeCheckAnswered ==
  ASSUME TypeOK, NEW s \in Slots, NEW ok \in BOOLEAN, CheckAnswered(s, ok)
  PROVE  TypeOK'
<1> DEFINE call   == checks[s]
           answer == Spread(call.vouchers, call.amount)
           at     == Len(nodes) + 1
           new    == [code |-> call.vouchers[Len(call.vouchers)], amount |-> answer[at].amount]
<1>1. /\ call \in [open : BOOLEAN, vouchers : Seq(Codes), amount : Nat]
      /\ answer \in Seq(Voucher) /\ Len(answer) = Len(call.vouchers)
  BY Answer
<1>2. checks' \in [Slots -> [open : BOOLEAN, vouchers : Seq(Codes), amount : Nat]]
  <2>1. NoCheck \in [open : BOOLEAN, vouchers : Seq(Codes), amount : Nat]
    BY EmptySeq DEF NoCheck
  <2>2. checks' = [checks EXCEPT ![s] = NoCheck]
    BY DEF CheckAnswered
  <2> QED
    BY <2>1, <2>2 DEF TypeOK
<1>3. gv' \in Seq(Voucher) /\ nodes' \in Seq(Voucher)
  <2>1. CASE ok /\ at \in DOMAIN answer
    <3>1. gv' = Append(gv, new) /\ nodes' = answer
      BY <2>1 DEF CheckAnswered
    <3>2. Len(answer) \in Nat /\ at \in 1..Len(answer)
      BY <1>1, <2>1
    <3>3. answer[at].amount \in Nat
      <4>1. answer[at] \in Voucher
        BY <1>1, <3>2, ElementOfSeq
      <4> QED
        BY <4>1 DEF Voucher
    <3>4. call.vouchers[Len(call.vouchers)] \in Codes
      <4> HIDE DEF answer
      <4>1. call.vouchers \in Seq(Codes)
        BY <1>1
      <4>2. Len(call.vouchers) \in 1..Len(call.vouchers)
        BY <1>1, <3>2
      <4> QED
        BY <4>1, <4>2, ElementOfSeq
    <3>5. new \in Voucher
      <4> HIDE DEF answer, call
      <4> QED
        BY <3>3, <3>4 DEF Voucher
    <3> HIDE DEF new
    <3>6. Append(gv, new) \in Seq(Voucher)
      BY <3>5 DEF TypeOK
    <3> QED
      BY <1>1, <3>1, <3>6
  <2>2. CASE ~(ok /\ at \in DOMAIN answer)
    <3>1. gv' = gv /\ nodes' = nodes
      BY <2>2 DEF CheckAnswered
    <3> QED
      BY <3>1 DEF TypeOK
  <2> QED
    BY <2>1, <2>2
<1>4. shortened' \in BOOLEAN
  <2>1. shortened' = shortened \/ shortened' = (shortened \/ FeeGone(answer[at].amount))
    BY DEF CheckAnswered
  <2> QED
    BY <2>1 DEF TypeOK
<1>5. UNCHANGED <<ecashGV, option, ecash, wallet, overlapped, shifted, lost>>
  BY DEF CheckAnswered
<1> QED
  BY <1>2, <1>3, <1>4, <1>5 DEF TypeOK, ecash, wallet

LEMMA TypeDeleteVoucher ==
  ASSUME TypeOK, NEW c \in Codes, DeleteVoucher(c)
  PROVE  TypeOK'
<1>1. gv \in Seq(Voucher) /\ nodes \in Seq(Voucher)
  BY DEF TypeOK
<1>2. PlaceOf(c) \in 1..Len(gv)
  BY <1>1, Placed DEF DeleteVoucher
<1>3. gv' \in Seq(Voucher)
  BY <1>1, <1>2, Removed DEF DeleteVoucher
<1>4. nodes' \in Seq(Voucher)
  <2>1. CASE PlaceOf(c) \in DOMAIN nodes
    <3>1. PlaceOf(c) \in 1..Len(nodes)
      BY <1>1, <2>1
    <3> QED
      BY <1>1, <2>1, <3>1, Removed DEF DeleteVoucher
  <2>2. CASE PlaceOf(c) \notin DOMAIN nodes
    BY <1>1, <2>2 DEF DeleteVoucher
  <2> QED
    BY <2>1, <2>2
<1>5. overlapped' \in BOOLEAN /\ shifted' \in BOOLEAN
  BY DEF DeleteVoucher, Overlap, TypeOK, PricedCallOut
<1>6. UNCHANGED <<ecashGV, option, checks, ecash, wallet, shortened, lost>>
  BY DEF DeleteVoucher
<1> QED
  BY <1>3, <1>4, <1>5, <1>6 DEF TypeOK, ecash, wallet

LEMMA ShiftTyped ==
  ASSUME TypeOK, Shift
  PROVE  shifted' \in BOOLEAN
BY DEF TypeOK, Shift

LEMMA RepricedTyped ==
  ASSUME TypeOK, NEW o \in Options, Repriced(o)
  PROVE  shifted' \in BOOLEAN /\ shortened' \in BOOLEAN
<1>1. shifted' \in BOOLEAN
  <2>1. CASE Shift
    BY <2>1, ShiftTyped
  <2>2. CASE UNCHANGED shifted
    BY <2>2 DEF TypeOK
  <2> QED
    BY <2>1, <2>2 DEF Repriced
<1>2. shortened' \in BOOLEAN
  BY DEF Repriced, TypeOK
<1> QED
  BY <1>1, <1>2

LEMMA OptionTyped ==
  ASSUME TypeOK, NEW slid
  PROVE  OptionToRedeem(slid) \in Options
BY RedemptionsAssumption DEF RedemptionsAssumption, TypeOK, OptionToRedeem

LEMMA TypeRedeem ==
  ASSUME TypeOK, NEW slid \in 1..Balance, NEW n \in 1..Balance, Redeem(slid, n)
  PROVE  TypeOK'
<1>1. n \in Nat /\ used + 1 \in Holds /\ used' \in 0..MaxHolds
  BY RedemptionsAssumption DEF RedemptionsAssumption, TypeOK, Redeem, Holds
<1>2. auths' \in [Holds -> Nat]
  BY <1>1 DEF TypeOK, Redeem
<1>3. overlapped' \in BOOLEAN /\ redeemOn' \in BOOLEAN
  BY DEF Redeem, Overlap, TypeOK, PricedCallOut
<1>4. option' \in Options /\ shifted' \in BOOLEAN /\ shortened' \in BOOLEAN
  <2>1. option' = OptionToRedeem(slid) /\ Repriced(OptionToRedeem(slid))
    BY DEF Redeem
  <2> QED
    BY <2>1, OptionTyped, RepricedTyped
<1>5. UNCHANGED <<ecashGV, vouchers, cash, taken, auth, redeemShown, cancelOn, revs, holds, lost>>
  BY DEF Redeem
<1> QED
  BY <1>1, <1>2, <1>3, <1>4, <1>5 DEF TypeOK, vouchers

LEMMA TypeAuthAnswered ==
  ASSUME TypeOK, NEW h \in Holds, NEW result \in {"held", "lost", "refused"},
         AuthAnswered(h, result)
  PROVE  TypeOK'
<1>1. auths[h] \in Nat
  BY DEF TypeOK
<1>2. auths' \in [Holds -> Nat]
  BY DEF TypeOK, AuthAnswered
<1>3. holds' \in [Holds -> Nat]
  BY <1>1 DEF TypeOK, AuthAnswered
<1>4. redeemOn' \in BOOLEAN
  BY DEF AuthAnswered
<1>5. lost' \in BOOLEAN
  BY DEF AuthAnswered, TypeOK
<1>6. /\ auth' \in [kind : {"none", "error", "hold"}, hold : Holds \cup {NoHold}, amount : Nat]
      /\ cash' \in Nat /\ taken' \in Nat
      /\ redeemShown' \in BOOLEAN /\ shifted' \in BOOLEAN /\ shortened' \in BOOLEAN
  <2>1. CASE result = "held"
    <3>1. /\ auth' = Held(h, auths[h]) /\ cash' = auths[h] /\ redeemShown' = FALSE
          /\ Shift
          /\ shortened' = (shortened \/ FeeGone(auths[h]))
      BY <2>1 DEF AuthAnswered
    <3>2. taken' \in Nat
      <4>1. taken' \in 0..Balance \/ taken' = auths[h]
        BY <2>1 DEF AuthAnswered
      <4> QED
        BY <1>1, <4>1, RedemptionsAssumption DEF RedemptionsAssumption
    <3>3. auth' \in [kind : {"none", "error", "hold"}, hold : Holds \cup {NoHold}, amount : Nat]
      BY <1>1, <3>1 DEF Held
    <3>4. shortened' \in BOOLEAN
      BY <3>1 DEF TypeOK
    <3> QED
      BY <1>1, <3>1, <3>2, <3>3, <3>4, ShiftTyped
  <2>2. CASE result # "held"
    <3>1. auth' = FailedAuth /\ UNCHANGED <<cash, taken, redeemShown, shifted, shortened>>
      BY <2>2 DEF AuthAnswered
    <3> QED
      BY <3>1 DEF FailedAuth, TypeOK
  <2> QED
    BY <2>1, <2>2
<1>7. UNCHANGED <<ecashGV, option, vouchers, cancelOn, revs, used, overlapped>>
  BY DEF AuthAnswered
<1> QED
  BY <1>2, <1>3, <1>4, <1>5, <1>6, <1>7 DEF TypeOK, vouchers

LEMMA TypeReverseAuth ==
  ASSUME TypeOK, ReverseAuth
  PROVE  revs' \in [Holds -> 0..MaxReversals] /\ cancelOn' \in BOOLEAN
<1>1. MaxReversals \in Nat
  BY RedemptionsAssumption DEF RedemptionsAssumption
<1>2. CASE auth.hold \in Holds
  <2>1. revs[auth.hold] \in 0..MaxReversals
    BY <1>2 DEF TypeOK
  <2>2. revs[auth.hold] + 1 \in 0..MaxReversals
    BY <1>1, <2>1 DEF ReverseAuth
  <2> QED
    BY <2>2 DEF ReverseAuth, TypeOK
<1>3. CASE auth.hold \notin Holds
  BY <1>3 DEF ReverseAuth, TypeOK
<1> QED
  BY <1>2, <1>3

LEMMA TypeCancel ==
  ASSUME TypeOK, Cancel
  PROVE  TypeOK'
<1>1. revs' \in [Holds -> 0..MaxReversals] /\ cancelOn' \in BOOLEAN
  BY TypeReverseAuth DEF Cancel
<1>2. UNCHANGED <<ecashGV, option, vouchers, cash, taken, auth, redeemShown, redeemOn, auths,
                  holds, used, history>>
  BY DEF Cancel
<1> QED
  BY <1>1, <1>2 DEF TypeOK, vouchers, history

LEMMA TypeReverseAnswered ==
  ASSUME TypeOK, NEW h \in Holds, NEW result \in {"back", "lost", "refused"},
         ReverseAnswered(h, result)
  PROVE  TypeOK'
<1>1. revs[h] \in 0..MaxReversals /\ revs[h] > 0 /\ MaxReversals \in Nat
  BY RedemptionsAssumption DEF RedemptionsAssumption, TypeOK, ReverseAnswered
<1>2. revs' \in [Holds -> 0..MaxReversals]
  <2>1. revs[h] - 1 \in 0..MaxReversals
    BY <1>1
  <2> QED
    BY <2>1 DEF TypeOK, ReverseAnswered
<1>3. holds' \in [Holds -> Nat]
  BY DEF TypeOK, ReverseAnswered
<1>4. cancelOn' \in BOOLEAN /\ lost' \in BOOLEAN
  BY DEF ReverseAnswered, TypeOK
<1>5. UNCHANGED <<ecashGV, option, vouchers, redeemOn, auths, used, overlapped, shortened>>
  BY DEF ReverseAnswered
<1>6. /\ auth' \in [kind : {"none", "error", "hold"}, hold : Holds \cup {NoHold}, amount : Nat]
      /\ cash' \in Nat /\ taken' \in Nat
      /\ redeemShown' \in BOOLEAN /\ shifted' \in BOOLEAN /\ shortened' \in BOOLEAN
  <2>1. CASE result = "back"
    <3>1. cash' = 0 /\ taken' = 0 /\ auth' = NoAuth /\ redeemShown' = TRUE /\ Shift
      BY <2>1 DEF ReverseAnswered
    <3> QED
      BY <1>5, <3>1, ShiftTyped DEF NoAuth, TypeOK
  <2>2. CASE result # "back"
    BY <2>2 DEF ReverseAnswered, TypeOK
  <2> QED
    BY <2>1, <2>2
<1> QED
  BY <1>2, <1>3, <1>4, <1>5, <1>6 DEF TypeOK, vouchers

LEMMA TypeChangeOption ==
  ASSUME TypeOK, NEW o \in Options, ChangeOption(o)
  PROVE  TypeOK'
<1>1. revs' \in [Holds -> 0..MaxReversals] /\ cancelOn' \in BOOLEAN
  <2>1. CASE ReverseAuth
    BY <2>1, TypeReverseAuth
  <2>2. CASE UNCHANGED <<cancelOn, revs>>
    BY <2>2 DEF TypeOK
  <2> QED
    BY <2>1, <2>2 DEF ChangeOption
<1>2. overlapped' \in BOOLEAN
  BY DEF ChangeOption, Overlap, TypeOK, PricedCallOut
<1>3. option' \in Options /\ shifted' \in BOOLEAN /\ shortened' \in BOOLEAN
  BY RepricedTyped DEF ChangeOption
<1>4. UNCHANGED <<ecashGV, vouchers, cash, taken, auth, redeemShown, redeemOn, auths, holds,
                  used, lost>>
  BY DEF ChangeOption
<1> QED
  BY <1>1, <1>2, <1>3, <1>4 DEF TypeOK, vouchers

LEMMA TypeNext == TypeOK /\ [Next]_vars => TypeOK'
<1> SUFFICES ASSUME TypeOK, [Next]_vars PROVE TypeOK'
  OBVIOUS
<1>1. ASSUME NEW c \in Codes, NEW s \in Slots, AddVoucher(c, s) PROVE TypeOK'
  BY <1>1, TypeAddVoucher
<1>2. ASSUME NEW s \in Slots, NEW ok \in BOOLEAN, CheckAnswered(s, ok) PROVE TypeOK'
  BY <1>2, TypeCheckAnswered
<1>3. ASSUME NEW c \in Codes, DeleteVoucher(c) PROVE TypeOK'
  BY <1>3, TypeDeleteVoucher
<1>4. ASSUME NEW slid \in 1..Balance, NEW n \in 1..Balance, Redeem(slid, n) PROVE TypeOK'
  BY <1>4, TypeRedeem
<1>5. ASSUME NEW h \in Holds, NEW result \in {"held", "lost", "refused"},
             AuthAnswered(h, result)
      PROVE  TypeOK'
  BY <1>5, TypeAuthAnswered
<1>6. CASE Cancel
  BY <1>6, TypeCancel
<1>7. ASSUME NEW h \in Holds, NEW result \in {"back", "lost", "refused"},
             ReverseAnswered(h, result)
      PROVE  TypeOK'
  BY <1>7, TypeReverseAnswered
<1>8. ASSUME NEW o \in Options, ChangeOption(o) PROVE TypeOK'
  BY <1>8, TypeChangeOption
<1>9. CASE UNCHANGED vars
  BY <1>9 DEF TypeOK, vars, vouchers, ecash, wallet, history
<1> QED
  BY <1>1, <1>2, <1>3, <1>4, <1>5, <1>6, <1>7, <1>8, <1>9 DEF Next

(* The page's lists, its eCash and the calls that are out keep their types *)
(* whatever the user does and in whatever order the answers come.          *)
THEOREM TypeCorrect == Spec => []TypeOK
<1> QED
  BY TypeInit, TypeNext, PTL DEF Spec

------------------------------------------------------------------------------
(* The eCash. *)

(* What the page knows of its eCash: it shows an amount exactly when it    *)
(* has taken a hold of it, and offers to redeem otherwise; and the cart    *)
(* takes off as much, but for a booking of eCash vouchers.                 *)
CashShown ==
  /\ cash > 0 <=> ~redeemShown
  /\ cash = 0 => taken = 0
  /\ ~ecashGV => taken = cash
  /\ ~redeemShown => auth.kind = "hold" /\ auth.hold \in 1..used /\ auth.amount = cash
  /\ redeemShown => auth \in {NoAuth, FailedAuth}

(* One auth is out at a time, for the last hold asked for.                 *)
AuthOut(h) ==
  /\ h > used => auths[h] = 0 /\ holds[h] = 0 /\ revs[h] = 0
  /\ auths[h] > 0 => /\ redeemShown /\ ~redeemOn
                     /\ holds[h] = 0 /\ revs[h] = 0
                     /\ \A k \in Holds : auths[k] > 0 => k = h

(* While no answer is lost, the wallet holds what the page has taken.      *)
HoldKept(h) ==
  ~lost => /\ holds[h] > 0 => auth.hold = h
           /\ ~redeemShown /\ auth.hold = h => holds[h] = cash

CashInv == CashShown /\ \A h \in Holds : AuthOut(h) /\ HoldKept(h)

LEMMA CashInit == Init => CashInv
<1> SUFFICES ASSUME Init PROVE CashInv
  OBVIOUS
<1>1. CashShown
  BY DEF Init, CashShown
<1>2. \A h \in Holds : auths[h] = 0 /\ holds[h] = 0 /\ revs[h] = 0
  BY DEF Init
<1>3. ASSUME NEW h \in Holds PROVE AuthOut(h) /\ HoldKept(h)
  BY <1>2 DEF AuthOut, HoldKept, Init
<1> QED
  BY <1>1, <1>3 DEF CashInv

(* A step of the vouchers leaves the eCash alone. *)
LEMMA CashElse ==
  ASSUME CashInv, UNCHANGED <<ecashGV, ecash, wallet, lost>>
  PROVE  CashInv'
BY DEF CashInv, CashShown, AuthOut, HoldKept, ecash, wallet

LEMMA CashTypes ==
  ASSUME TypeOK, NEW h \in Holds
  PROVE  /\ auths[h] \in Nat /\ holds[h] \in Nat /\ revs[h] \in Nat
         /\ cash \in Nat /\ used \in Nat /\ h \in Nat /\ h # NoHold
         /\ auth.hold \in Nat
<1>1. \A n \in 0..MaxReversals : n \in Nat
  OBVIOUS
<1>2. \A n \in 0..MaxHolds : n \in Nat
  OBVIOUS
<1>3. h \in Nat /\ h # NoHold
  BY DEF Holds, NoHold
<1>4. auth.hold \in Nat
  BY DEF TypeOK, Holds, NoHold
<1> QED
  BY <1>1, <1>2, <1>3, <1>4 DEF TypeOK

LEMMA CashRedeem ==
  ASSUME TypeOK, CashInv, NEW slid \in 1..Balance, NEW n \in 1..Balance,
         Redeem(slid, n)
  PROVE  CashInv'
<1> DEFINE new == used + 1
<1>1. /\ new \in Holds /\ new > used /\ used' = new /\ used \in Nat /\ n \in Nat /\ n > 0
  BY RedemptionsAssumption DEF RedemptionsAssumption, TypeOK, Redeem, Holds
<1>2. /\ redeemShown /\ redeemOn /\ redeemOn' = FALSE
      /\ UNCHANGED <<ecashGV, cash, taken, auth, redeemShown, revs, holds, lost>>
  BY DEF Redeem
<1>3. \A h \in Holds : auths[h] = 0
  BY <1>2, CashTypes DEF CashInv, AuthOut
<1>4. \A h \in Holds : auths'[h] = IF h = new THEN n ELSE 0
  BY <1>3 DEF Redeem, TypeOK
<1> HIDE DEF new
<1>5. holds[new] = 0 /\ revs[new] = 0
  BY <1>1 DEF CashInv, AuthOut
<1>6. CashShown'
  BY <1>1, <1>2 DEF CashInv, CashShown
<1>7. ASSUME NEW h \in Holds PROVE AuthOut(h)'
  <2>1. h > used' => auths'[h] = 0 /\ holds'[h] = 0 /\ revs'[h] = 0
    <3>1. h > used' => h > used /\ h # new
      BY <1>1, CashTypes
    <3>2. h > used => auths[h] = 0 /\ holds[h] = 0 /\ revs[h] = 0
      BY DEF CashInv, AuthOut
    <3> QED
      BY <1>2, <1>4, <3>1, <3>2
  <2>2. auths'[h] > 0 => h = new
    BY <1>4
  <2>3. auths'[h] > 0 => \A k \in Holds : auths'[k] > 0 => k = h
    BY <1>4, <2>2
  <2>4. auths'[h] > 0 => redeemShown' /\ ~redeemOn' /\ holds'[h] = 0 /\ revs'[h] = 0
    BY <1>2, <1>5, <2>2
  <2> QED
    BY <2>1, <2>3, <2>4 DEF AuthOut
<1>8. \A h \in Holds : HoldKept(h)'
  BY <1>2 DEF CashInv, HoldKept
<1> QED
  BY <1>6, <1>7, <1>8 DEF CashInv

LEMMA CashAuthAnswered ==
  ASSUME TypeOK, CashInv, NEW h \in Holds, NEW result \in {"held", "lost", "refused"},
         AuthAnswered(h, result)
  PROVE  CashInv'
<1>1. auths[h] > 0 /\ auths[h] \in Nat /\ h \in Nat /\ used \in Nat
  BY CashTypes DEF AuthAnswered
<1>2. /\ redeemShown /\ cash = 0 /\ taken = 0 /\ auth.hold = NoHold
      /\ holds[h] = 0 /\ revs[h] = 0 /\ ~(h > used)
  <2>1. redeemShown /\ holds[h] = 0 /\ revs[h] = 0 /\ ~(h > used)
    BY <1>1 DEF CashInv, AuthOut
  <2>2. auth.hold = NoHold /\ cash = 0 /\ taken = 0
    BY <2>1, CashTypes DEF CashInv, CashShown, NoAuth, FailedAuth
  <2> QED
    BY <2>1, <2>2
<1>3. \A k \in Holds : auths'[k] = 0
  <2>1. \A k \in Holds : k # h => auths[k] = 0
    BY <1>1, CashTypes DEF CashInv, AuthOut
  <2> QED
    BY <2>1 DEF AuthAnswered, TypeOK
<1>4. /\ \A k \in Holds : k # h => holds'[k] = holds[k]
      /\ holds'[h] = IF result \in {"held", "lost"} THEN auths[h] ELSE 0
  BY DEF AuthAnswered, TypeOK
<1>5. revs' = revs /\ used' = used /\ ecashGV' = ecashGV /\ lost' = (lost \/ result = "lost")
  BY DEF AuthAnswered
<1>6. \A k \in Holds : AuthOut(k)'
  <2> SUFFICES ASSUME NEW k \in Holds PROVE AuthOut(k)'
    OBVIOUS
  <2>1. k > used => k # h
    BY <1>2
  <2>2. k > used => holds[k] = 0 /\ revs[k] = 0
    BY DEF CashInv, AuthOut
  <2>3. ~(auths'[k] > 0)
    BY <1>3
  <2> QED
    BY <1>3, <1>4, <1>5, <2>1, <2>2, <2>3 DEF AuthOut
<1>7. ~lost => \A k \in Holds : holds[k] = 0
  BY <1>2, CashTypes DEF CashInv, HoldKept
<1>8. CASE result = "held"
  <2>1. /\ auth' = Held(h, auths[h]) /\ cash' = auths[h] /\ redeemShown' = FALSE
        /\ ~ecashGV => taken' = auths[h]
    BY <1>8 DEF AuthAnswered
  <2>2. auth'.kind = "hold" /\ auth'.hold = h /\ auth'.amount = auths[h]
    BY <2>1 DEF Held
  <2>3. h \in 1..used
    BY <1>1, <1>2 DEF Holds
  <2>4. CashShown'
    BY <1>1, <1>5, <2>1, <2>2, <2>3 DEF CashShown
  <2>5. ASSUME NEW k \in Holds PROVE HoldKept(k)'
    <3>1. CASE k = h
      BY <1>4, <1>8, <2>1, <2>2, <3>1 DEF HoldKept
    <3>2. CASE k # h
      <4>1. ~lost' => holds'[k] = 0
        BY <1>4, <1>5, <1>7, <3>2
      <4> QED
        BY <2>2, <3>2, <4>1 DEF HoldKept
    <3> QED
      BY <3>1, <3>2
  <2> QED
    BY <1>6, <2>4, <2>5 DEF CashInv
<1>9. CASE result # "held"
  <2>1. auth' = FailedAuth /\ cash' = cash /\ taken' = taken /\ redeemShown' = redeemShown
    BY <1>9 DEF AuthAnswered
  <2>2. CashShown'
    BY <1>2, <2>1 DEF CashShown
  <2>3. ASSUME NEW k \in Holds PROVE HoldKept(k)'
    <3>1. ~lost' => result = "refused"
      BY <1>5, <1>9
    <3>2. ~lost' => holds'[k] = 0
      BY <1>4, <1>5, <1>7, <3>1
    <3> QED
      BY <1>2, <2>1, <3>2 DEF HoldKept
  <2> QED
    BY <1>6, <2>2, <2>3 DEF CashInv
<1> QED
  BY <1>8, <1>9

(* A reversal is asked for with a hold the page has. *)
LEMMA CashReverseAuth ==
  ASSUME TypeOK, CashInv, ~redeemShown, ReverseAuth,
         UNCHANGED <<ecashGV, cash, taken, auth, redeemShown, redeemOn, auths, holds, used, lost>>
  PROVE  CashInv'
<1>1. auth.hold \in 1..used
  BY DEF CashInv, CashShown
<1>2. \A h \in Holds : auths[h] = 0
  BY CashTypes DEF CashInv, AuthOut
<1>3. \A h \in Holds : h # auth.hold => revs'[h] = revs[h]
  BY DEF ReverseAuth, TypeOK
<1>4. CashShown'
  BY DEF CashInv, CashShown
<1>5. ASSUME NEW h \in Holds PROVE AuthOut(h)'
  <2>1. h > used => auths[h] = 0 /\ holds[h] = 0 /\ revs[h] = 0
    BY DEF CashInv, AuthOut
  <2>2. h > used => h # auth.hold
    BY <1>1, CashTypes
  <2>3. ~(auths'[h] > 0)
    BY <1>2
  <2> QED
    BY <1>3, <2>1, <2>2, <2>3 DEF AuthOut
<1>6. \A h \in Holds : HoldKept(h)'
  BY DEF CashInv, HoldKept
<1> QED
  BY <1>4, <1>5, <1>6 DEF CashInv

LEMMA CashReverseAnswered ==
  ASSUME TypeOK, CashInv, NEW h \in Holds, NEW result \in {"back", "lost", "refused"},
         ReverseAnswered(h, result)
  PROVE  CashInv'
<1>1. /\ revs[h] > 0 /\ revs[h] \in Nat /\ (result = "back" => holds[h] > 0)
      /\ UNCHANGED <<ecashGV, redeemOn, auths, used>>
      /\ lost' = (lost \/ result = "lost")
  BY CashTypes DEF ReverseAnswered
<1>2. /\ \A k \in Holds : k # h => revs'[k] = revs[k] /\ holds'[k] = holds[k]
      /\ holds'[h] = IF result \in {"back", "lost"} THEN 0 ELSE holds[h]
  BY DEF ReverseAnswered, TypeOK
<1>3. auths[h] = 0 /\ ~(h > used)
  BY <1>1, CashTypes DEF CashInv, AuthOut
<1>4. redeemShown => redeemShown'
  BY DEF ReverseAnswered
<1>5. ASSUME NEW k \in Holds PROVE AuthOut(k)'
  <2>1. CASE k = h
    <3>1. ~(k > used') /\ ~(auths'[k] > 0)
      BY <1>1, <1>3, <2>1
    <3> QED
      BY <3>1 DEF AuthOut
  <2>2. CASE k # h
    <3>1. AuthOut(k)
      BY DEF CashInv
    <3> QED
      BY <1>1, <1>2, <1>4, <2>2, <3>1 DEF AuthOut
  <2> QED
    BY <2>1, <2>2
<1>6. CASE result = "back"
  <2>1. cash' = 0 /\ taken' = 0 /\ auth' = NoAuth /\ redeemShown' = TRUE
    BY <1>6 DEF ReverseAnswered
  <2>2. CashShown'
    BY <2>1 DEF CashShown
  <2>3. ASSUME NEW k \in Holds PROVE HoldKept(k)'
    <3>1. ~lost => auth.hold = h
      BY <1>1, <1>6 DEF CashInv, HoldKept
    <3>2. ~lost => (holds[k] > 0 => k = h)
      BY <3>1 DEF CashInv, HoldKept
    <3>3. ~lost' => holds'[k] = 0
      <4>1. CASE k = h
        BY <1>2, <1>6, <4>1
      <4>2. CASE k # h
        <5>1. holds[k] \in Nat /\ holds'[k] = holds[k]
          BY <1>2, <4>2, CashTypes
        <5>2. ~lost' => ~(holds[k] > 0)
          BY <1>1, <3>2, <4>2
        <5> QED
          BY <5>1, <5>2
      <4> QED
        BY <4>1, <4>2
    <3> QED
      BY <2>1, <3>3 DEF HoldKept
  <2> QED
    BY <1>5, <2>2, <2>3 DEF CashInv
<1>7. CASE result # "back"
  <2>1. UNCHANGED <<cash, taken, auth, redeemShown>>
    BY <1>7 DEF ReverseAnswered
  <2>2. CashShown'
    BY <1>1, <2>1 DEF CashInv, CashShown
  <2>3. ASSUME NEW k \in Holds PROVE HoldKept(k)'
    <3>1. ~lost' => ~lost /\ result = "refused"
      BY <1>1, <1>7
    <3>2. ~lost' => holds'[k] = holds[k]
      BY <1>2, <3>1
    <3> QED
      BY <2>1, <3>1, <3>2 DEF CashInv, HoldKept
  <2> QED
    BY <1>5, <2>2, <2>3 DEF CashInv
<1> QED
  BY <1>6, <1>7

LEMMA CashNext == TypeOK /\ CashInv /\ [Next]_vars => CashInv'
<1> SUFFICES ASSUME TypeOK, CashInv, [Next]_vars PROVE CashInv'
  OBVIOUS
<1>1. ASSUME NEW c \in Codes, NEW s \in Slots, AddVoucher(c, s) PROVE CashInv'
  BY <1>1, CashElse DEF AddVoucher
<1>2. ASSUME NEW s \in Slots, NEW ok \in BOOLEAN, CheckAnswered(s, ok) PROVE CashInv'
  BY <1>2, CashElse DEF CheckAnswered, history
<1>3. ASSUME NEW c \in Codes, DeleteVoucher(c) PROVE CashInv'
  BY <1>3, CashElse DEF DeleteVoucher
<1>4. ASSUME NEW slid \in 1..Balance, NEW n \in 1..Balance, Redeem(slid, n) PROVE CashInv'
  BY <1>4, CashRedeem
<1>5. ASSUME NEW h \in Holds, NEW result \in {"held", "lost", "refused"},
             AuthAnswered(h, result)
      PROVE  CashInv'
  BY <1>5, CashAuthAnswered
<1>6. CASE Cancel
  BY <1>6, CashReverseAuth DEF Cancel, history
<1>7. ASSUME NEW h \in Holds, NEW result \in {"back", "lost", "refused"},
             ReverseAnswered(h, result)
      PROVE  CashInv'
  BY <1>7, CashReverseAnswered
<1>8. ASSUME NEW o \in Options, ChangeOption(o) PROVE CashInv'
  <2>1. UNCHANGED <<ecashGV, cash, taken, auth, redeemShown, redeemOn, auths, holds, used, lost>>
    BY <1>8 DEF ChangeOption
  <2>2. CASE cash > 0 /\ ReverseAuth
    <3>1. ~redeemShown
      BY <2>2 DEF CashInv, CashShown
    <3> QED
      BY <2>1, <2>2, <3>1, CashReverseAuth
  <2>3. CASE UNCHANGED <<cancelOn, revs>>
    BY <2>1, <2>3, CashElse DEF ecash, wallet
  <2> QED
    BY <1>8, <2>2, <2>3 DEF ChangeOption
<1>9. CASE UNCHANGED vars
  BY <1>9, CashElse DEF vars, history
<1> QED
  BY <1>1, <1>2, <1>3, <1>4, <1>5, <1>6, <1>7, <1>8, <1>9 DEF Next

LEMMA CashInductive == Spec => [](TypeOK /\ CashInv)
<1> QED
  BY TypeInit, TypeNext, CashInit, CashNext, PTL DEF Spec

(* What the page shows and posts as eCash is held at the wallet for that   *)
(* amount, through every order of auths, reversals and their answers.      *)
THEOREM PostedCashIsHeld == Spec => []CashIsHeld
<1>1. TypeOK /\ CashInv => CashIsHeld
  <2> SUFFICES ASSUME TypeOK, CashInv, cash > 0, ~lost
               PROVE  \E h \in Holds : /\ Form.walletId = h /\ Form.walletAmount = cash
                                       /\ revs[h] = 0 => holds[h] = cash
    BY DEF CashIsHeld
  <2>1. ~redeemShown /\ auth.hold \in 1..used /\ auth.amount = cash
    BY DEF CashInv, CashShown
  <2>2. auth.hold \in Holds
    BY <2>1, RedemptionsAssumption DEF RedemptionsAssumption, TypeOK, Holds
  <2>3. holds[auth.hold] = cash
    BY <2>1, <2>2 DEF CashInv, HoldKept
  <2>4. Form.walletId = auth.hold /\ Form.walletAmount = cash
    BY <2>1 DEF Form, WalletPart
  <2> QED
    BY <2>2, <2>3, <2>4
<1> QED
  BY <1>1, CashInductive, PTL

(* As long as the wallet's answers arrive the page forgets no hold there,  *)
(* whatever it is asked to redeem, cancel and redeem again.                *)
THEOREM HoldsAreRemembered == Spec => []NoForgottenHold
<1>1. CashInv => NoForgottenHold
  BY DEF CashInv, HoldKept, NoForgottenHold
<1> QED
  BY <1>1, CashInductive, PTL

------------------------------------------------------------------------------
(* The two lists. *)

(* Unless calls overlapped, an answer comes for the vouchers of the page   *)
(* and one more, for what they give and what is left to pay, and nothing   *)
(* else is out.                                                            *)
CallAlone(s) ==
  checks[s].open =>
    /\ \A t \in Slots : checks[t].open => t = s
    /\ \A h \in Holds : auths[h] = 0
    /\ \E c \in Codes : checks[s].vouchers = Append(CodesOf(nodes), c)
    /\ shifted \/ checks[s].amount = Payable + Worth(gv)
    /\ Worth(gv) < checks[s].amount /\ checks[s].amount <= Payable + Worth(gv)

(* Unless calls overlapped, the two lists name the same vouchers; and until*)
(* the amount left for them changes, they are the same and the vouchers    *)
(* give all they are worth or leave nothing to pay.                        *)
ListsAgree ==
  /\ CodesOf(nodes) = CodesOf(gv)
  /\ shifted \/ gv = <<>> \/ (nodes = gv /\ (FullyGiven(gv) \/ Left(option) = 0))
  /\ \A i \in DOMAIN gv : gv[i].amount <= Face[gv[i].code]

VouchersInv == ~overlapped => ListsAgree /\ \A s \in Slots : CallAlone(s)

LEMMA CodesAppend ==
  ASSUME NEW vs \in Seq(Voucher), NEW v \in Voucher
  PROVE  CodesOf(Append(vs, v)) = Append(CodesOf(vs), v.code)
<1> DEFINE ws == Append(vs, v)
           a  == CodesOf(ws)
           b  == Append(CodesOf(vs), v.code)
           n  == Len(vs)
<1>1. /\ ws \in Seq(Voucher) /\ Len(ws) = n + 1 /\ n \in Nat
      /\ \A i \in 1..n : ws[i] = vs[i]
      /\ ws[n + 1] = v
  BY AppendProperties
<1>2. /\ CodesOf(vs) \in Seq(Codes) /\ Len(CodesOf(vs)) = n
      /\ \A i \in 1..n : CodesOf(vs)[i] = vs[i].code
  BY CodesTyped
<1>3. a \in Seq(Codes) /\ Len(a) = n + 1 /\ \A i \in 1..(n + 1) : a[i] = ws[i].code
  <2>1. a \in Seq(Codes) /\ Len(a) = Len(ws) /\ \A i \in 1..Len(ws) : a[i] = ws[i].code
    BY <1>1, CodesTyped
  <2> QED
    BY <1>1, <2>1
<1>4. v.code \in Codes
  BY DEF Voucher
<1>5. /\ b \in Seq(Codes) /\ Len(b) = n + 1
      /\ \A i \in 1..n : b[i] = vs[i].code
      /\ b[n + 1] = v.code
  <2> HIDE DEF n
  <2>1. /\ b \in Seq(Codes) /\ Len(b) = Len(CodesOf(vs)) + 1
        /\ \A i \in 1..Len(CodesOf(vs)) : b[i] = CodesOf(vs)[i]
        /\ b[Len(CodesOf(vs)) + 1] = v.code
    BY <1>2, <1>4, AppendProperties
  <2> HIDE DEF b
  <2> QED
    BY <1>2, <2>1
<1> HIDE DEF ws, a, b, n
<1>6. ASSUME NEW i \in 1..(n + 1) PROVE a[i] = b[i]
  <2>1. CASE i = n + 1
    <3>1. a[i] = ws[i].code
      BY <1>3
    <3> QED
      BY <1>1, <1>5, <2>1, <3>1
  <2>2. CASE i # n + 1
    <3>1. i \in 1..n
      BY <1>1, <2>2
    <3> QED
      BY <1>1, <1>3, <1>5, <3>1
  <2> QED
    BY <2>1, <2>2
<1>7. a = b
  BY <1>3, <1>5, <1>6, SeqEqual
<1> QED
  BY <1>7 DEF a, b, ws

LEMMA CodesRemoved ==
  ASSUME NEW vs \in Seq(Voucher), NEW ws \in Seq(Voucher), CodesOf(vs) = CodesOf(ws),
         NEW k \in 1..Len(vs)
  PROVE  CodesOf(RemoveAt(vs, k)) = CodesOf(RemoveAt(ws, k))
<1> DEFINE cvs == RemoveAt(vs, k)
           cws == RemoveAt(ws, k)
           n   == Len(vs)
<1>1. /\ CodesOf(vs) \in Seq(Codes) /\ Len(CodesOf(vs)) = n
      /\ \A i \in 1..n : CodesOf(vs)[i] = vs[i].code
  BY CodesTyped
<1>2. /\ Len(CodesOf(ws)) = Len(ws)
      /\ \A i \in 1..Len(ws) : CodesOf(ws)[i] = ws[i].code
  BY CodesTyped
<1>3. Len(ws) = n /\ n \in Nat /\ k \in Nat /\ 1 <= k /\ k <= n
  BY <1>1, <1>2
<1>4. \A i \in 1..n : vs[i].code = ws[i].code
  BY <1>1, <1>2, <1>3
<1>5. /\ cvs \in Seq(Voucher) /\ Len(cvs) = n - 1
      /\ \A i \in 1..(k - 1) : cvs[i] = vs[i]
      /\ \A i \in k..(n - 1) : cvs[i] = vs[i + 1]
  BY Removed
<1>6. /\ cws \in Seq(Voucher) /\ Len(cws) = n - 1
      /\ \A i \in 1..(k - 1) : cws[i] = ws[i]
      /\ \A i \in k..(n - 1) : cws[i] = ws[i + 1]
  <2>1. k \in 1..Len(ws)
    BY <1>3
  <2>2. /\ cws \in Seq(Voucher) /\ Len(cws) = Len(ws) - 1
        /\ \A i \in 1..(k - 1) : cws[i] = ws[i]
        /\ \A i \in k..(Len(ws) - 1) : cws[i] = ws[i + 1]
    BY <2>1, Removed
  <2> QED
    BY <1>3, <2>2
<1> HIDE DEF cvs, cws, n
<1>7. ASSUME NEW i \in 1..(n - 1) PROVE cvs[i].code = cws[i].code
  <2>1. CASE i <= k - 1
    <3>1. i \in 1..(k - 1) /\ i \in 1..n
      BY <1>3, <2>1
    <3> QED
      BY <1>4, <1>5, <1>6, <3>1
  <2>2. CASE ~(i <= k - 1)
    <3>1. i \in k..(n - 1) /\ i + 1 \in 1..n
      BY <1>3, <2>2
    <3> QED
      BY <1>4, <1>5, <1>6, <3>1
  <2> QED
    BY <2>1, <2>2
<1>8. /\ CodesOf(cvs) \in Seq(Codes) /\ Len(CodesOf(cvs)) = n - 1
      /\ \A i \in 1..(n - 1) : CodesOf(cvs)[i] = cvs[i].code
  <2>1. /\ CodesOf(cvs) \in Seq(Codes) /\ Len(CodesOf(cvs)) = Len(cvs)
        /\ \A i \in 1..Len(cvs) : CodesOf(cvs)[i] = cvs[i].code
    BY <1>5, CodesTyped
  <2> QED
    BY <1>5, <2>1
<1>9. /\ CodesOf(cws) \in Seq(Codes) /\ Len(CodesOf(cws)) = n - 1
      /\ \A i \in 1..(n - 1) : CodesOf(cws)[i] = cws[i].code
  <2>1. /\ CodesOf(cws) \in Seq(Codes) /\ Len(CodesOf(cws)) = Len(cws)
        /\ \A i \in 1..Len(cws) : CodesOf(cws)[i] = cws[i].code
    BY <1>6, CodesTyped
  <2> QED
    BY <1>6, <2>1
<1>10. CodesOf(cvs) = CodesOf(cws)
  <2>1. \A i \in 1..Len(CodesOf(cvs)) : CodesOf(cvs)[i] = CodesOf(cws)[i]
    BY <1>7, <1>8, <1>9
  <2> QED
    BY <1>8, <1>9, <2>1, SeqEqual
<1> QED
  BY <1>10 DEF cvs, cws

(* Two lists that name the same vouchers are as long. *)
LEMMA SameCodes ==
  ASSUME NEW vs \in Seq(Voucher), NEW ws \in Seq(Voucher), CodesOf(vs) = CodesOf(ws)
  PROVE  Len(vs) = Len(ws) /\ (ws = <<>> => vs = <<>>)
<1>1. Len(vs) = Len(ws)
  BY CodesTyped
<1> QED
  BY <1>1, EmptySeq

LEMMA VouchersInit == Init => VouchersInv
<1> SUFFICES ASSUME Init PROVE VouchersInv
  OBVIOUS
<1>1. ListsAgree
  BY DEF Init, ListsAgree
<1>2. \A s \in Slots : ~checks[s].open
  BY DEF Init, NoCheck
<1> QED
  BY <1>1, <1>2 DEF VouchersInv, CallAlone

LEMMA NothingOut ==
  ASSUME TypeOK, Overlap, ~overlapped'
  PROVE  ~overlapped /\ (\A s \in Slots : ~checks[s].open) /\ \A h \in Holds : auths[h] = 0
<1>1. ~overlapped /\ ~PricedCallOut
  BY DEF Overlap
<1>2. (\A s \in Slots : ~checks[s].open) /\ \A h \in Holds : ~(auths[h] > 0)
  BY <1>1 DEF PricedCallOut
<1>3. \A h \in Holds : auths[h] \in Nat
  BY DEF TypeOK
<1>4. \A h \in Holds : auths[h] = 0
  BY <1>2, <1>3
<1> QED
  BY <1>1, <1>2, <1>4

(* A step that leaves the lists and the balance calls alone keeps what is  *)
(* said of them, provided it asks for nothing while a call is out and says *)
(* when what is left changes.                                              *)
LEMMA VouchersElse ==
  ASSUME TypeOK, VouchersInv, UNCHANGED vouchers, overlapped' \/ ~overlapped,
         shifted => shifted',
         shifted' \/ gv = <<>> \/ Left(option)' = Left(option),
         \/ overlapped'
         \/ \A s \in Slots : ~checks[s].open
         \/ /\ UNCHANGED auths /\ Payable <= Payable' /\ Payable' \in Nat
            /\ shifted' \/ Payable' = Payable
  PROVE  VouchersInv'
<1> SUFFICES ASSUME ~overlapped' PROVE ListsAgree' /\ \A s \in Slots : CallAlone(s)'
  BY DEF VouchersInv
<1>1. ListsAgree /\ \A s \in Slots : CallAlone(s)
  BY DEF VouchersInv
<1>2. gv' = gv /\ nodes' = nodes /\ checks' = checks
  BY DEF vouchers
<1>3. ListsAgree'
  <2>1. /\ CodesOf(nodes)' = CodesOf(gv)'
        /\ \A i \in DOMAIN gv' : gv'[i].amount <= Face[gv'[i].code]
    BY <1>1, <1>2 DEF ListsAgree
  <2>2. shifted' \/ gv' = <<>> \/ (nodes' = gv' /\ (FullyGiven(gv)' \/ Left(option)' = 0))
    <3>1. CASE shifted' \/ gv = <<>>
      BY <1>2, <3>1
    <3>2. CASE ~shifted' /\ gv # <<>> /\ Left(option)' = Left(option)
      <4>1. nodes = gv /\ (FullyGiven(gv) \/ Left(option) = 0)
        BY <1>1, <3>2 DEF ListsAgree
      <4>2. FullyGiven(gv)' = FullyGiven(gv)
        BY <1>2
      <4> QED
        BY <1>2, <3>2, <4>1, <4>2
    <3> QED
      BY <3>1, <3>2
  <2> QED
    BY <2>1, <2>2 DEF ListsAgree
<1>4. ASSUME NEW s \in Slots PROVE CallAlone(s)'
  <2>1. CallAlone(s)
    BY <1>1
  <2>2. CASE checks[s].open
    <3>1. /\ auths' = auths /\ Payable <= Payable' /\ Payable' \in Nat
          /\ shifted' \/ Payable' = Payable
      BY <2>2
    <3>2. Worth(gv)' = Worth(gv) /\ Worth(gv) \in Nat /\ Payable \in Nat /\ checks[s].amount \in Nat
      BY <1>2, Answer, Sizes
    <3>3. shifted' \/ checks[s].amount = Payable' + Worth(gv)
      BY <2>1, <2>2, <3>1 DEF CallAlone
    <3>4. Worth(gv) < checks[s].amount /\ checks[s].amount <= Payable' + Worth(gv)
      BY <2>1, <2>2, <3>1, <3>2 DEF CallAlone
    <3> QED
      BY <1>2, <2>1, <2>2, <3>1, <3>2, <3>3, <3>4 DEF CallAlone
  <2>3. CASE ~checks[s].open
    BY <1>2, <2>3 DEF CallAlone
  <2> QED
    BY <2>2, <2>3
<1> QED
  BY <1>3, <1>4

LEMMA VouchersAddVoucher ==
  ASSUME TypeOK, VouchersInv, NEW c \in Codes, NEW s \in Slots, AddVoucher(c, s)
  PROVE  VouchersInv'
<1> SUFFICES ASSUME ~overlapped' PROVE ListsAgree' /\ \A t \in Slots : CallAlone(t)'
  BY DEF VouchersInv
<1>1. ~overlapped /\ (\A t \in Slots : ~checks[t].open) /\ \A h \in Holds : auths[h] = 0
  BY NothingOut DEF AddVoucher
<1>2. UNCHANGED <<option, gv, nodes, taken, auths, shifted>>
  BY DEF AddVoucher, ecash, wallet
<1>num. Left(option)' = Left(option) /\ Payable' = Payable /\ Worth(gv)' = Worth(gv)
  BY <1>2, PayableIs
<1>3. ListsAgree'
  BY <1>1, <1>2, <1>num DEF VouchersInv, ListsAgree
<1> DEFINE call == [open |-> TRUE, vouchers |-> Append(CodesOf(nodes), c),
                    amount |-> Payable + Worth(gv)]
<1>4. checks' = [checks EXCEPT ![s] = call]
  BY DEF AddVoucher
<1>5. /\ call.vouchers = Append(CodesOf(nodes), c)
      /\ call.amount = Payable + Worth(gv)
  OBVIOUS
<1>6. /\ Worth(gv) < Payable + Worth(gv) /\ Payable + Worth(gv) <= Payable + Worth(gv)
  BY Sizes DEF AddVoucher
<1>7. CodesOf(nodes)' = CodesOf(nodes)
  BY <1>2
<1> HIDE DEF call
<1>8. checks'[s] = call /\ \A t \in Slots : t # s => ~checks'[t].open
  BY <1>1, <1>4 DEF TypeOK
<1>9. ASSUME NEW t \in Slots PROVE CallAlone(t)'
  <2>1. CASE t = s
    <3>1. \A r \in Slots : checks'[r].open => r = t
      BY <1>8, <2>1
    <3>2. \A h \in Holds : auths'[h] = 0
      BY <1>1, <1>2
    <3>3. \E d \in Codes : checks'[t].vouchers = Append(CodesOf(nodes)', d)
      BY <1>5, <1>7, <1>8, <2>1
    <3>4. /\ checks'[t].amount = Payable' + Worth(gv)'
          /\ Worth(gv)' < checks'[t].amount /\ checks'[t].amount <= Payable' + Worth(gv)'
      BY <1>5, <1>6, <1>8, <1>num, <2>1
    <3> QED
      BY <3>1, <3>2, <3>3, <3>4 DEF CallAlone
  <2>2. CASE t # s
    BY <1>8, <2>2 DEF CallAlone
  <2> QED
    BY <2>1, <2>2
<1> QED
  BY <1>3, <1>9

(* What the service gives on a voucher that comes behind those of vs. *)
LEMMA GivenHere ==
  ASSUME NEW vs \in Seq(Voucher), NEW n \in Nat, NEW v \in Voucher,
         v.amount = Given(n, Sums(Faces(CodesOf(vs)))[Len(vs)], Face[v.code])
  PROVE  /\ Sums(Faces(CodesOf(vs)))[Len(vs)] \in Nat
         /\ v.amount \in Nat /\ v.amount <= Face[v.code]
         /\ v.amount > 0 => Sums(Faces(CodesOf(vs)))[Len(vs)] + v.amount <= n
<1> DEFINE sum == Sums(Faces(CodesOf(vs)))[Len(vs)]
<1>1. Faces(CodesOf(vs)) \in Seq(Nat) /\ Len(Faces(CodesOf(vs))) = Len(vs)
  BY CodesTyped, FacesTyped
<1>2. sum \in Nat
  <2>1. Len(vs) \in 0..Len(Faces(CodesOf(vs)))
    BY <1>1
  <2> QED
    BY <1>1, <2>1, SumsTyped
<1>3. Face[v.code] \in Nat
  BY RedemptionsAssumption DEF RedemptionsAssumption, Voucher
<1> HIDE DEF sum
<1>4. v.amount = Given(n, sum, Face[v.code])
  BY DEF sum
<1>5. /\ v.amount \in Nat /\ v.amount <= Face[v.code]
      /\ v.amount > 0 => sum + v.amount <= n
  BY <1>2, <1>3, <1>4, GivenBounds
<1> QED
  BY <1>2, <1>5 DEF sum

(* An answer that is taken brings the new voucher behind those of the page.*)
LEMMA Taken ==
  ASSUME TypeOK, ListsAgree, NEW s \in Slots, CallAlone(s), checks[s].open,
         Len(nodes) + 1 \in DOMAIN Spread(checks[s].vouchers, checks[s].amount),
         CheckAnswered(s, TRUE)
  PROVE  \E v \in Voucher :
           /\ checks[s].vouchers = Append(CodesOf(gv), v.code)
           /\ nodes' = Spread(checks[s].vouchers, checks[s].amount)
           /\ nodes' = Append(Spread(CodesOf(gv), checks[s].amount), v)
           /\ gv' = Append(gv, v)
           /\ v.amount = Given(checks[s].amount, Sums(Faces(CodesOf(gv)))[Len(gv)], Face[v.code])
<1> DEFINE call   == checks[s]
           n      == call.amount
           answer == Spread(call.vouchers, call.amount)
           at     == Len(nodes) + 1
           codes  == CodesOf(gv)
<1>1. /\ gv' = Append(gv, [code   |-> call.vouchers[Len(call.vouchers)],
                           amount |-> answer[at].amount])
      /\ nodes' = answer
  BY DEF CheckAnswered
<1>2. gv \in Seq(Voucher) /\ nodes \in Seq(Voucher) /\ CodesOf(nodes) = codes
  BY DEF TypeOK, ListsAgree
<1>3. codes \in Seq(Codes) /\ Len(codes) = Len(gv) /\ Len(codes) \in Nat
  BY <1>2, CodesTyped
<1>4. Len(nodes) = Len(gv)
  BY <1>2, SameCodes
<1>5. PICK c \in Codes : call.vouchers = Append(codes, c)
  BY <1>2 DEF CallAlone
<1>6. n \in Nat
  BY Answer
<1> DEFINE last == Spread(Append(codes, c), n)[Len(codes) + 1]
<1>7. /\ Spread(Append(codes, c), n) = Append(Spread(codes, n), last)
      /\ last.code = c
      /\ last.amount = Given(n, Sums(Faces(codes))[Len(codes)], Face[c])
  BY <1>3, <1>6, SpreadAppend
<1>8. answer = Spread(Append(codes, c), n) /\ answer[at] = last
  BY <1>3, <1>4, <1>5
<1>9. last \in Voucher
  <2>1. /\ Append(codes, c) \in Seq(Codes) /\ Len(Append(codes, c)) = Len(codes) + 1
    BY <1>3
  <2>2. /\ Spread(Append(codes, c), n) \in Seq(Voucher)
        /\ Len(Spread(Append(codes, c), n)) = Len(codes) + 1
    BY <1>6, <2>1, SpreadDef
  <2>3. Len(codes) + 1 \in 1..(Len(codes) + 1)
    BY <1>3
  <2> QED
    BY <2>2, <2>3, ElementOfSeq
<1>10. call.vouchers[Len(call.vouchers)] = c
  <2>1. /\ Len(Append(codes, c)) = Len(codes) + 1
        /\ Append(codes, c)[Len(codes) + 1] = c
    BY <1>3, AppendProperties
  <2> QED
    BY <1>5, <2>1
<1> HIDE DEF last
<1>11. gv' = Append(gv, last)
  <2>1. [code |-> c, amount |-> last.amount] = last
    BY <1>7, <1>9 DEF Voucher
  <2> QED
    BY <1>1, <1>8, <1>10, <2>1
<1>12. call.vouchers = Append(codes, last.code)
  BY <1>5, <1>7
<1>13. nodes' = Append(Spread(codes, n), last)
  BY <1>1, <1>7, <1>8
<1>14. last.amount = Given(n, Sums(Faces(codes))[Len(gv)], Face[last.code])
  BY <1>3, <1>7
<1> QED
  BY <1>1, <1>9, <1>11, <1>12, <1>13, <1>14

(* When the vouchers of the page give all they are worth, the service says *)
(* so again, and the new one gives what it is worth or all that is left.   *)
LEMMA GivenAgain ==
  ASSUME NEW vs \in Seq(Voucher), FullyGiven(vs), NEW v \in Voucher, NEW n \in Nat, NEW p \in Nat,
         n = p + Worth(vs),
         v.amount = Given(n, Sums(Faces(CodesOf(vs)))[Len(vs)], Face[v.code])
  PROVE  /\ Spread(CodesOf(vs), n) = vs
         /\ v.amount = Face[v.code] \/ v.amount = p
<1>1. Worth(vs) = Sums(Faces(CodesOf(vs)))[Len(vs)] /\ Worth(vs) \in Nat
  BY WorthIsFaces, WorthTyped
<1>2. Spread(CodesOf(vs), n) = vs
  <2>1. Sums(Faces(CodesOf(vs)))[Len(vs)] <= n
    BY <1>1
  <2> QED
    BY <2>1, SpreadFull
<1>3. Face[v.code] \in Nat
  BY RedemptionsAssumption DEF RedemptionsAssumption, Voucher
<1>4. v.amount = Given(p + Worth(vs), Worth(vs), Face[v.code])
  BY <1>1
<1>5. ASSUME NEW w \in Nat, NEW f \in Nat PROVE Given(p + w, w, f) \in {f, p}
  BY DEF Given
<1>6. v.amount \in {Face[v.code], p}
  BY <1>1, <1>3, <1>4, <1>5
<1> QED
  BY <1>2, <1>6

LEMMA VouchersCheckAnswered ==
  ASSUME TypeOK, VouchersInv, NEW s \in Slots, NEW ok \in BOOLEAN, CheckAnswered(s, ok)
  PROVE  VouchersInv'
<1> SUFFICES ASSUME ~overlapped' PROVE ListsAgree' /\ \A t \in Slots : CallAlone(t)'
  BY DEF VouchersInv
<1> DEFINE call   == checks[s]
           n      == call.amount
           answer == Spread(call.vouchers, call.amount)
           at     == Len(nodes) + 1
           codes  == CodesOf(gv)
<1>1. UNCHANGED <<option, taken, auths, shifted, overlapped>>
  BY DEF CheckAnswered, ecash, wallet
<1>2. ListsAgree /\ CallAlone(s) /\ call.open
  BY <1>1 DEF VouchersInv, CheckAnswered
<1>3. \A t \in Slots : ~checks'[t].open
  <2>1. \A t \in Slots : t # s => ~checks[t].open
    BY <1>2 DEF CallAlone
  <2> QED
    BY <2>1 DEF CheckAnswered, TypeOK, NoCheck
<1>4. \A t \in Slots : CallAlone(t)'
  BY <1>3 DEF CallAlone
<1>5. CASE ~(ok /\ at \in DOMAIN answer)
  <2>1. gv' = gv /\ nodes' = nodes
    BY <1>5 DEF CheckAnswered
  <2>2. Left(option)' = Left(option)
    BY <1>1, <2>1, PayableIs
  <2>3. ListsAgree'
    BY <1>1, <1>2, <2>1, <2>2 DEF ListsAgree, FullyGiven
  <2> QED
    BY <1>4, <2>3
<1>6. CASE ok /\ at \in DOMAIN answer
  <2>1. CheckAnswered(s, TRUE)
    <3>1. ok = TRUE
      BY <1>6
    <3> QED
      BY <3>1
  <2>2. PICK last \in Voucher :
          /\ call.vouchers = Append(codes, last.code)
          /\ nodes' = answer
          /\ nodes' = Append(Spread(codes, n), last)
          /\ gv' = Append(gv, last)
          /\ last.amount = Given(n, Sums(Faces(codes))[Len(gv)], Face[last.code])
    BY <1>2, <1>6, <2>1, Taken
  <2>3. gv \in Seq(Voucher) /\ n \in Nat /\ last.code \in Codes
    BY Answer DEF TypeOK, Voucher
  <2>4. codes \in Seq(Codes) /\ Len(codes) = Len(gv) /\ Len(codes) \in Nat
    BY <2>3, CodesTyped
  <2>5. CodesOf(gv)' = Append(codes, last.code)
    <3>1. CodesOf(Append(gv, last)) = Append(codes, last.code)
      BY <2>3, CodesAppend
    <3> QED
      BY <2>2, <3>1
  <2>6. CodesOf(nodes)' = CodesOf(gv)'
    <3>1. call.vouchers \in Seq(Codes)
      BY Answer
    <3>2. CodesOf(Spread(call.vouchers, n)) = call.vouchers
      BY <2>3, <3>1, SpreadCodes
    <3> QED
      BY <2>2, <2>5, <3>2
  <2>7. /\ DOMAIN gv' = 1..(Len(gv) + 1) /\ Len(gv) \in Nat
        /\ \A i \in 1..Len(gv) : gv'[i] = gv[i]
        /\ gv'[Len(gv) + 1] = last
    <3>1. /\ Append(gv, last) \in Seq(Voucher) /\ Len(Append(gv, last)) = Len(gv) + 1
          /\ \A i \in 1..Len(gv) : Append(gv, last)[i] = gv[i]
          /\ Append(gv, last)[Len(gv) + 1] = last
      BY <2>3, AppendProperties
    <3> QED
      BY <2>2, <2>3, <3>1
  <2>8. ~shifted' => nodes' = gv' /\ (FullyGiven(gv)' \/ Left(option)' = 0)
    <3> SUFFICES ASSUME ~shifted' PROVE nodes' = gv' /\ (FullyGiven(gv)' \/ Left(option)' = 0)
      OBVIOUS
    <3>1. /\ n = Payable + Worth(gv) /\ Payable \in Nat /\ Left(option) \in Nat
          /\ Left(option) # 0 /\ Left(option) <= Payable
      <4>1. n = Payable + Worth(gv) /\ Worth(gv) < n
        BY <1>1, <1>2 DEF CallAlone
      <4> QED
        BY <4>1, Sizes
    <3>2. FullyGiven(gv)
      <4>1. CASE gv = <<>>
        BY <4>1 DEF FullyGiven
      <4>2. CASE gv # <<>>
        BY <1>1, <1>2, <3>1, <4>2 DEF ListsAgree
      <4> QED
        BY <4>1, <4>2
    <3>3. Spread(codes, n) = gv /\ (last.amount = Face[last.code] \/ last.amount = Payable)
      BY <2>2, <2>3, <3>1, <3>2, GivenAgain
    <3>4. nodes' = gv'
      BY <2>2, <3>3
    <3>5. CASE last.amount = Face[last.code]
      <4>1. ASSUME NEW i \in DOMAIN gv' PROVE gv'[i].amount = Face[gv'[i].code]
        <5>1. CASE i = Len(gv) + 1
          BY <2>7, <3>5, <5>1
        <5>2. CASE i # Len(gv) + 1
          <6>1. i \in 1..Len(gv)
            BY <2>7, <5>2
          <6> QED
            BY <2>3, <2>7, <3>2, <6>1 DEF FullyGiven
        <5> QED
          BY <5>1, <5>2
      <4> QED
        BY <3>4, <4>1 DEF FullyGiven
    <3>6. CASE last.amount = Payable
      <4>1. Worth(gv)' = Worth(gv) + Payable
        <5>1. Worth(Append(gv, last)) = Worth(gv) + last.amount
          BY <2>3, WorthAppend
        <5> QED
          BY <2>2, <3>6, <5>1
      <4>2. Left(option)' = LeftOf(option, taken, Worth(gv) + Payable)
        BY <1>1, <4>1, PayableIs
      <4>3. LeftOf(option, taken, Worth(gv)) <= Payable
        BY <3>1, PayableIs
      <4>4. Left(option)' = 0
        BY <3>1, <4>2, <4>3, Sizes, LeftGone
      <4> QED
        BY <3>4, <4>4
    <3> QED
      BY <3>3, <3>5, <3>6
  <2>9. \A i \in DOMAIN gv' : gv'[i].amount <= Face[gv'[i].code]
    <3>1. last.amount <= Face[last.code]
      BY <2>2, <2>3, GivenHere
    <3>2. \A i \in 1..Len(gv) : gv[i].amount <= Face[gv[i].code]
      BY <1>2, <2>3 DEF ListsAgree
    <3> SUFFICES ASSUME NEW i \in DOMAIN gv' PROVE gv'[i].amount <= Face[gv'[i].code]
      OBVIOUS
    <3>3. CASE i = Len(gv) + 1
      BY <2>7, <3>1, <3>3
    <3>4. CASE i # Len(gv) + 1
      <4>1. i \in 1..Len(gv)
        BY <2>7, <3>4
      <4> QED
        BY <2>7, <3>2, <4>1
    <3> QED
      BY <3>3, <3>4
  <2>10. ListsAgree'
    BY <2>6, <2>8, <2>9 DEF ListsAgree
  <2> QED
    BY <1>4, <2>10
<1> QED
  BY <1>5, <1>6

LEMMA VouchersDeleteVoucher ==
  ASSUME TypeOK, VouchersInv, NEW c \in Codes, DeleteVoucher(c)
  PROVE  VouchersInv'
<1> SUFFICES ASSUME ~overlapped' PROVE ListsAgree' /\ \A s \in Slots : CallAlone(s)'
  BY DEF VouchersInv
<1>1. ~overlapped /\ \A s \in Slots : ~checks[s].open
  BY NothingOut DEF DeleteVoucher
<1>2. ListsAgree /\ checks' = checks
  BY <1>1 DEF VouchersInv, DeleteVoucher
<1>3. \A s \in Slots : CallAlone(s)'
  BY <1>1, <1>2 DEF CallAlone
<1> DEFINE k == PlaceOf(c)
<1>4. gv \in Seq(Voucher) /\ nodes \in Seq(Voucher) /\ CodesOf(nodes) = CodesOf(gv)
  BY <1>2 DEF TypeOK, ListsAgree
<1>5. k \in 1..Len(gv) /\ Len(nodes) = Len(gv) /\ k \in 1..Len(nodes)
  <2>1. k \in 1..Len(gv)
    BY <1>4, Placed DEF DeleteVoucher
  <2> QED
    BY <1>4, <2>1, SameCodes
<1>6. gv' = RemoveAt(gv, k) /\ nodes' = RemoveAt(nodes, k)
  <2>1. k \in DOMAIN nodes
    BY <1>4, <1>5
  <2> QED
    BY <2>1 DEF DeleteVoucher
<1>7. /\ gv' \in Seq(Voucher) /\ Len(gv') = Len(gv) - 1
      /\ \A i \in 1..(k - 1) : gv'[i] = gv[i]
      /\ \A i \in k..(Len(gv) - 1) : gv'[i] = gv[i + 1]
  BY <1>4, <1>5, <1>6, Removed
<1>8. CodesOf(nodes)' = CodesOf(gv)'
  <2>1. CodesOf(RemoveAt(nodes, k)) = CodesOf(RemoveAt(gv, k))
    BY <1>4, <1>5, CodesRemoved
  <2> QED
    BY <1>6, <2>1
<1>9. Len(gv) \in Nat /\ k \in Nat /\ 1 <= k /\ k <= Len(gv)
  BY <1>4, <1>5
<1>10. ~shifted' => gv' = <<>>
  <2>1. ~shifted' => ~(Len(gv) > 1)
    BY DEF DeleteVoucher
  <2>2. ~shifted' => Len(gv') = 0
    BY <1>7, <1>9, <2>1
  <2> QED
    BY <1>7, <2>2, EmptySeq
<1> HIDE DEF k
<1>11. \A i \in DOMAIN gv' : gv'[i].amount <= Face[gv'[i].code]
  <2> SUFFICES ASSUME NEW i \in DOMAIN gv' PROVE gv'[i].amount <= Face[gv'[i].code]
    OBVIOUS
  <2>1. i \in 1..(Len(gv) - 1)
    BY <1>7
  <2>2. \A j \in 1..Len(gv) : gv[j].amount <= Face[gv[j].code]
    BY <1>2, <1>4 DEF ListsAgree
  <2>3. CASE i <= k - 1
    <3>1. i \in 1..(k - 1) /\ i \in 1..Len(gv)
      BY <1>9, <2>1, <2>3
    <3> QED
      BY <1>7, <2>2, <3>1
  <2>4. CASE ~(i <= k - 1)
    <3>1. i \in k..(Len(gv) - 1) /\ i + 1 \in 1..Len(gv)
      BY <1>9, <2>1, <2>4
    <3> QED
      BY <1>7, <2>2, <3>1
  <2> QED
    BY <2>3, <2>4
<1>12. ListsAgree'
  BY <1>8, <1>10, <1>11 DEF ListsAgree
<1> QED
  BY <1>3, <1>12

(* What Shift records. *)
LEMMA Shifted ==
  ASSUME Shift
  PROVE  /\ shifted => shifted'
         /\ shifted' \/ (gv = <<>> /\ \A s \in Slots : ~checks[s].open)
BY DEF Shift

(* Nothing the vouchers depend on changes. *)
LEMMA VouchersStay ==
  ASSUME TypeOK, VouchersInv, UNCHANGED <<option, vouchers, taken, auths, overlapped, shifted>>
  PROVE  VouchersInv'
<1>1. Left(option)' = Left(option) /\ Payable' = Payable
  BY PayableIs DEF vouchers
<1>2. Payable <= Payable' /\ Payable' \in Nat
  BY <1>1, Sizes
<1> QED
  BY <1>1, <1>2, VouchersElse

(* Another option is chosen while nothing is out. *)
LEMMA VouchersOption ==
  ASSUME TypeOK, VouchersInv, NEW o \in Options, UNCHANGED <<vouchers, taken>>, Overlap,
         Repriced(o), option' = o
  PROVE  VouchersInv'
<1>1. overlapped' \/ (~overlapped /\ \A s \in Slots : ~checks[s].open)
  BY NothingOut
<1>2. CASE Shift
  BY <1>1, <1>2, Shifted, VouchersElse
<1>3. CASE UNCHANGED shifted /\ Fee[o] = Fee[option]
  <2>1. Left(option)' = LeftOf(option', taken', Worth(gv)') /\ Worth(gv)' = Worth(gv)
    BY PayableIs DEF vouchers
  <2>2. Left(option)' = Left(option)
    BY <1>3, <2>1, PayableIs DEF LeftOf
  <2> QED
    BY <1>1, <1>3, <2>2, VouchersElse
<1> QED
  BY <1>2, <1>3 DEF Repriced

LEMMA VouchersNext == TypeOK /\ VouchersInv /\ [Next]_vars => VouchersInv'
<1> SUFFICES ASSUME TypeOK, VouchersInv, [Next]_vars PROVE VouchersInv'
  OBVIOUS
<1>1. ASSUME NEW c \in Codes, NEW s \in Slots, AddVoucher(c, s) PROVE VouchersInv'
  BY <1>1, VouchersAddVoucher
<1>2. ASSUME NEW s \in Slots, NEW ok \in BOOLEAN, CheckAnswered(s, ok) PROVE VouchersInv'
  BY <1>2, VouchersCheckAnswered
<1>3. ASSUME NEW c \in Codes, DeleteVoucher(c) PROVE VouchersInv'
  BY <1>3, VouchersDeleteVoucher
<1>4. ASSUME NEW slid \in 1..Balance, NEW n \in 1..Balance, Redeem(slid, n) PROVE VouchersInv'
  <2> DEFINE o == OptionToRedeem(slid)
  <2>1. UNCHANGED <<vouchers, taken>> /\ Overlap /\ Repriced(o) /\ option' = o /\ o \in Options
    BY <1>4, OptionTyped DEF Redeem
  <2> HIDE DEF o
  <2> QED
    BY <2>1, VouchersOption
<1>5. ASSUME NEW h \in Holds, NEW result \in {"held", "lost", "refused"},
             AuthAnswered(h, result)
      PROVE  VouchersInv'
  <2>1. UNCHANGED <<option, vouchers, overlapped>> /\ auths[h] # 0
    BY <1>5, CashTypes DEF AuthAnswered
  <2>2. overlapped \/ \A s \in Slots : ~checks[s].open
    BY <2>1 DEF VouchersInv, CallAlone
  <2>3. CASE Shift
    BY <2>1, <2>2, <2>3, Shifted, VouchersElse
  <2>4. CASE UNCHANGED <<taken, shifted>>
    <3>1. Left(option)' = Left(option)
      BY <2>1, <2>4, PayableIs DEF vouchers
    <3> QED
      BY <2>1, <2>2, <2>4, <3>1, VouchersElse
  <2> QED
    BY <1>5, <2>3, <2>4 DEF AuthAnswered
<1>6. CASE Cancel
  BY <1>6, VouchersStay DEF Cancel, history
<1>7. ASSUME NEW h \in Holds, NEW result \in {"back", "lost", "refused"},
             ReverseAnswered(h, result)
      PROVE  VouchersInv'
  <2>1. UNCHANGED <<option, vouchers, auths, overlapped>>
    BY <1>7 DEF ReverseAnswered
  <2>2. CASE taken' = 0 /\ Shift
    <3>1. Payable <= Payable' /\ Payable' \in Nat
      <4>1. Worth(gv)' = Worth(gv)
        BY <2>1 DEF vouchers
      <4> QED
        BY <2>1, <2>2, <4>1, Sizes, PayableIs, PriceGrows, PriceBounds
    <3>2. shifted' \/ (gv = <<>> /\ \A s \in Slots : ~checks[s].open)
      BY <2>2, Shifted
    <3> QED
      BY <2>1, <2>2, <3>1, <3>2, Shifted, VouchersElse
  <2>3. CASE UNCHANGED <<taken, shifted>>
    BY <2>1, <2>3, VouchersStay
  <2> QED
    BY <1>7, <2>2, <2>3 DEF ReverseAnswered
<1>8. ASSUME NEW o \in Options, ChangeOption(o) PROVE VouchersInv'
  BY <1>8, VouchersOption DEF ChangeOption
<1>9. CASE UNCHANGED vars
  BY <1>9, VouchersStay DEF vars, ecash, wallet, history
<1> QED
  BY <1>1, <1>2, <1>3, <1>4, <1>5, <1>6, <1>7, <1>8, <1>9 DEF Next

LEMMA VouchersInductive == Spec => [](TypeOK /\ VouchersInv)
<1> QED
  BY TypeInit, TypeNext, VouchersInit, VouchersNext, PTL DEF Spec

(* The vouchers posted are those shown, in their order, and for what is    *)
(* shown until the amount left for them changes, for every sequence of     *)
(* additions and removals that waits for the answers.                      *)
THEOREM PostedVouchersAreShown == Spec => []VouchersSentAreShown
<1>1. TypeOK /\ VouchersInv => VouchersSentAreShown
  <2> SUFFICES ASSUME TypeOK, VouchersInv, ~overlapped
               PROVE  CodesOf(nodes) = CodesOf(gv) /\ (shifted \/ nodes = gv)
    BY DEF VouchersSentAreShown, Form
  <2>1. ListsAgree
    BY DEF VouchersInv
  <2>2. CodesOf(nodes) = CodesOf(gv) /\ (shifted \/ gv = <<>> \/ nodes = gv)
    BY <2>1 DEF ListsAgree
  <2>3. gv = <<>> => nodes = gv
    BY <2>2, SameCodes DEF TypeOK
  <2> QED
    BY <2>2, <2>3
<1> QED
  BY <1>1, VouchersInductive, PTL

(* No voucher is credited with more than it is worth, for every such       *)
(* sequence.                                                               *)
THEOREM CreditIsTheVouchersOwn == Spec => []CreditedByItself
<1>1. VouchersInv => CreditedByItself
  BY DEF VouchersInv, ListsAgree, CreditedByItself
<1> QED
  BY <1>1, VouchersInductive, PTL

------------------------------------------------------------------------------
(* The sums. *)

(* Unless calls overlapped, what is redeemed fits the price of some option,*)
(* and the fixed part of this one's until a fee goes that was redeemed for;*)
(* and no more eCash is asked for than is left to pay.                     *)
Fits ==
  /\ \E o \in Options : taken + Worth(gv) <= FullPrice(o)
  /\ shortened \/ taken + Worth(gv) <= Base + Fee[option]
  /\ \A h \in Holds : auths[h] <= Payable

SumInv == ~overlapped /\ ~ecashGV => Fits

LEMMA SumInit == Init => SumInv
<1> SUFFICES ASSUME Init PROVE Fits
  BY DEF SumInv
<1>1. TypeOK
  BY TypeInit
<1>2. taken + Worth(gv) = 0
  BY WorthEmpty DEF Init
<1>3. \A h \in Holds : auths[h] = 0
  BY DEF Init
<1> QED
  BY <1>1, <1>2, <1>3, Sizes DEF Fits

(* A step after which no eCash is being asked for, or no less is left to   *)
(* pay, redeems no more and raises no price.                               *)
LEMMA SumElse ==
  ASSUME TypeOK, TypeOK', SumInv,
         overlapped' \/ ~overlapped, ecashGV' = ecashGV,
         taken' + Worth(gv)' <= taken + Worth(gv),
         \/ shortened'
         \/ ~shortened /\ option' = option
         \/ taken' + Worth(gv)' <= Base + Fee[option'],
         overlapped' \/ \A h \in Holds : auths'[h] <= Payable'
  PROVE  SumInv'
<1> SUFFICES ASSUME ~overlapped', ~ecashGV' PROVE Fits'
  BY DEF SumInv
<1>1. Fits
  BY DEF SumInv
<1>2. taken + Worth(gv) \in Nat /\ taken' + Worth(gv)' \in Nat
  <2>1. taken' \in Nat /\ Worth(gv)' \in Nat
    BY WorthTyped DEF TypeOK
  <2> QED
    BY <2>1, Sizes
<1>3. \E o \in Options : taken' + Worth(gv)' <= FullPrice(o)
  <2>1. PICK o \in Options : taken + Worth(gv) <= FullPrice(o)
    BY <1>1 DEF Fits
  <2>2. FullPrice(o) \in Nat
    BY PriceBounds
  <2>3. taken' + Worth(gv)' <= FullPrice(o)
    BY <1>2, <2>1, <2>2
  <2> QED
    BY <2>3
<1>4. shortened' \/ taken' + Worth(gv)' <= Base + Fee[option']
  <2>1. CASE ~shortened /\ option' = option
    <3>1. taken + Worth(gv) <= Base + Fee[option]
      BY <1>1, <2>1 DEF Fits
    <3> QED
      BY <1>2, <2>1, <3>1, Sizes
  <2> QED
    BY <2>1
<1> QED
  BY <1>3, <1>4 DEF Fits

LEMMA PayableTyped ==
  ASSUME TypeOK'
  PROVE  Payable' \in Nat
<1>1. Worth(gv)' \in Nat /\ taken' \in Nat /\ option' \in Options
  BY WorthTyped DEF TypeOK
<1> QED
  BY <1>1, PayableIs, PriceBounds

LEMMA SumStay ==
  ASSUME TypeOK, TypeOK', SumInv,
         UNCHANGED <<ecashGV, option, gv, taken, auths, overlapped, shortened>>
  PROVE  SumInv'
<1>1. Worth(gv)' = Worth(gv) /\ Payable' = Payable
  BY PayableIs
<1>2. overlapped \/ ecashGV \/ \A h \in Holds : auths[h] <= Payable
  BY DEF SumInv, Fits
<1>3. taken + Worth(gv) <= taken + Worth(gv)
  BY Sizes
<1>4. CASE ecashGV
  BY <1>4 DEF SumInv
<1>5. CASE ~ecashGV
  <2>1. overlapped' \/ \A h \in Holds : auths'[h] <= Payable'
    BY <1>1, <1>2, <1>5
  <2>2. shortened' \/ (~shortened /\ option' = option)
    BY DEF TypeOK
  <2> QED
    BY <1>1, <1>3, <2>1, <2>2, SumElse
<1> QED
  BY <1>4, <1>5

(* Redeeming no more than is to pay fits the price of this option, and     *)
(* unless the percentage fee goes with it the fixed part.                  *)
LEMMA SumMore ==
  ASSUME TypeOK, Fits, NEW n \in Nat, n <= Payable, option' = option,
         taken' + Worth(gv)' = taken + Worth(gv) + n,
         shortened' = (shortened \/ FeeGone(n))
  PROVE  /\ \E o \in Options : taken' + Worth(gv)' <= FullPrice(o)
         /\ shortened' \/ taken' + Worth(gv)' <= Base + Fee[option']
<1> DEFINE old   == taken + Worth(gv)
           full  == FullPrice(option)
           fixed == Base + Fee[option]
           left  == Left(option)
           fee   == PercentFee(option, left)
<1>1. /\ old \in Nat /\ full \in Nat /\ fixed \in Nat /\ left \in Nat /\ option \in Options
      /\ Payable \in Nat
      /\ Payable > 0 => old + Payable <= full
      /\ left > 0 => old + left = fixed
      /\ left = 0 => Payable = 0
  BY Sizes
<1>2. fee \in Nat /\ Payable = left + fee
  BY <1>1, PercentFeeTyped DEF Payable, PayableBy
<1>3. ~FeeGone(n) => n <= left \/ ~(fee > 0)
  BY <1>1 DEF FeeGone
<1>4. taken' + Worth(gv)' = old + n
  OBVIOUS
<1>5. shortened \/ old <= fixed
  BY DEF Fits
<1>6. \E o \in Options : old <= FullPrice(o)
  BY DEF Fits
<1> HIDE DEF old, full, fixed, left, fee
<1>7. \E o \in Options : old + n <= FullPrice(o)
  <2>1. CASE n = 0
    BY <1>1, <1>6, <2>1
  <2>2. CASE n > 0
    <3>1. old + n <= full
      BY <1>1, <2>2
    <3> QED
      BY <1>1, <3>1 DEF full
  <2> QED
    BY <2>1, <2>2
<1>8. shortened' \/ old + n <= fixed
  <2> SUFFICES ASSUME ~shortened' PROVE old + n <= fixed
    OBVIOUS
  <2>1. ~shortened /\ ~FeeGone(n)
    OBVIOUS
  <2>2. n <= left
    BY <1>1, <1>2, <1>3, <2>1
  <2>3. old <= fixed
    BY <1>5, <2>1
  <2> QED
    BY <1>1, <2>2, <2>3
<1> QED
  BY <1>4, <1>7, <1>8 DEF fixed

LEMMA SumAddVoucher ==
  ASSUME TypeOK, TypeOK', SumInv, NEW c \in Codes, NEW s \in Slots, AddVoucher(c, s)
  PROVE  SumInv'
<1>1. UNCHANGED <<ecashGV, option, gv, taken, auths, shortened>>
  BY DEF AddVoucher, ecash, wallet
<1>2. Worth(gv)' = Worth(gv) /\ taken + Worth(gv) <= taken + Worth(gv)
  BY <1>1, Sizes
<1>3. overlapped' \/ (~overlapped /\ \A h \in Holds : auths[h] = 0)
  BY NothingOut DEF AddVoucher
<1>4. overlapped' \/ \A h \in Holds : auths'[h] <= Payable'
  BY <1>1, <1>3, PayableTyped
<1>5. shortened' \/ (~shortened /\ option' = option)
  BY <1>1 DEF TypeOK
<1> QED
  BY <1>1, <1>2, <1>3, <1>4, <1>5, SumElse

(* And it is the one the callback looks for. *)
LEMMA TakenPlace ==
  ASSUME TypeOK, ListsAgree, NEW n \in Nat, NEW v \in Voucher
  PROVE  Append(Spread(CodesOf(gv), n), v)[Len(nodes) + 1] = v
<1>1. gv \in Seq(Voucher) /\ nodes \in Seq(Voucher) /\ CodesOf(nodes) = CodesOf(gv)
  BY DEF TypeOK, ListsAgree
<1>2. CodesOf(gv) \in Seq(Codes) /\ Len(CodesOf(gv)) = Len(gv) /\ Len(nodes) = Len(gv)
  BY <1>1, CodesTyped, SameCodes
<1>3. Spread(CodesOf(gv), n) \in Seq(Voucher) /\ Len(Spread(CodesOf(gv), n)) = Len(nodes)
  BY <1>2, SpreadDef
<1> QED
  BY <1>3, AppendProperties

(* The new voucher gives what the others leave. *)
LEMMA SumCheckAnswered ==
  ASSUME TypeOK, TypeOK', VouchersInv, SumInv, NEW s \in Slots, NEW ok \in BOOLEAN,
         CheckAnswered(s, ok)
  PROVE  SumInv'
<1> SUFFICES ASSUME ~overlapped', ~ecashGV' PROVE Fits'
  BY DEF SumInv
<1> DEFINE call   == checks[s]
           answer == Spread(call.vouchers, call.amount)
           at     == Len(nodes) + 1
<1>1. UNCHANGED <<ecashGV, option, taken, auths, overlapped>>
  BY DEF CheckAnswered, ecash, wallet
<1>2. ListsAgree /\ CallAlone(s) /\ call.open /\ Fits
  BY <1>1 DEF VouchersInv, SumInv, CheckAnswered
<1>3. \A h \in Holds : auths[h] = 0
  BY <1>2 DEF CallAlone
<1>4. CASE ~(ok /\ at \in DOMAIN answer)
  <2>1. gv' = gv /\ shortened' = shortened
    BY <1>4 DEF CheckAnswered
  <2>2. SumInv'
    BY <1>1, <2>1, SumStay
  <2> QED
    BY <2>2 DEF SumInv
<1>5. CASE ok /\ at \in DOMAIN answer
  <2>1. CheckAnswered(s, TRUE)
    <3>1. ok = TRUE
      BY <1>5
    <3> QED
      BY <3>1
  <2>2. PICK last \in Voucher :
          /\ nodes' = answer
          /\ nodes' = Append(Spread(CodesOf(gv), call.amount), last)
          /\ gv' = Append(gv, last)
          /\ last.amount
               = Given(call.amount, Sums(Faces(CodesOf(gv)))[Len(gv)], Face[last.code])
    BY <1>2, <1>5, <2>1, Taken
  <2> DEFINE before == Sums(Faces(CodesOf(gv)))[Len(gv)]
             new    == last.amount
  <2>3. gv \in Seq(Voucher) /\ call.amount \in Nat
    BY Answer DEF TypeOK
  <2>4. /\ before \in Nat /\ new \in Nat
        /\ new > 0 => before + new <= call.amount
    BY <2>2, <2>3, GivenHere
  <2>5. Worth(gv) <= before
    BY <1>2, <2>3, WorthBelowFaces DEF ListsAgree
  <2>6. Worth(gv)' = Worth(gv) + new
    <3>1. Worth(Append(gv, last)) = Worth(gv) + last.amount
      BY <2>3, WorthAppend
    <3> QED
      BY <2>2, <3>1
  <2>7. shortened' = (shortened \/ FeeGone(new))
    <3>1. answer[at] = last
      <4>1. Append(Spread(CodesOf(gv), call.amount), last)[at] = last
        BY <1>2, <2>3, TakenPlace
      <4> QED
        BY <2>2, <4>1
    <3> QED
      BY <1>5, <3>1 DEF CheckAnswered
  <2> HIDE DEF before, new
  <2>8. call.amount <= Payable + Worth(gv)
    BY <1>2 DEF CallAlone
  <2>9. new <= Payable
    BY <2>3, <2>4, <2>5, <2>8, Sizes
  <2>10. taken' + Worth(gv)' = taken + Worth(gv) + new
    BY <1>1, <2>4, <2>6, Sizes
  <2>11. /\ \E o \in Options : taken' + Worth(gv)' <= FullPrice(o)
         /\ shortened' \/ taken' + Worth(gv)' <= Base + Fee[option']
    BY <1>1, <1>2, <2>4, <2>7, <2>9, <2>10, SumMore
  <2> QED
    BY <1>1, <1>3, <2>11, PayableTyped DEF Fits
<1> QED
  BY <1>4, <1>5

LEMMA SumDeleteVoucher ==
  ASSUME TypeOK, TypeOK', SumInv, NEW c \in Codes, DeleteVoucher(c)
  PROVE  SumInv'
<1>1. UNCHANGED <<ecashGV, option, taken, auths, shortened>>
  BY DEF DeleteVoucher, ecash, wallet
<1>2. gv \in Seq(Voucher) /\ PlaceOf(c) \in 1..Len(gv) /\ gv' = RemoveAt(gv, PlaceOf(c))
  BY Placed DEF DeleteVoucher, TypeOK
<1>3. Worth(gv)' <= Worth(gv) /\ Worth(gv)' \in Nat
  <2>1. Worth(RemoveAt(gv, PlaceOf(c))) <= Worth(gv)
    BY <1>2, WorthCut
  <2>2. Worth(gv)' \in Nat
    BY WorthTyped DEF TypeOK
  <2> QED
    BY <1>2, <2>1, <2>2
<1>4. taken' + Worth(gv)' <= taken + Worth(gv)
  BY <1>1, <1>3, Sizes
<1>5. overlapped' \/ (~overlapped /\ \A h \in Holds : auths[h] = 0)
  BY NothingOut DEF DeleteVoucher
<1>6. overlapped' \/ \A h \in Holds : auths'[h] <= Payable'
  BY <1>1, <1>5, PayableTyped
<1>7. shortened' \/ (~shortened /\ option' = option)
  BY <1>1 DEF TypeOK
<1> QED
  BY <1>1, <1>4, <1>5, <1>6, <1>7, SumElse

(* Another option is chosen while nothing is out, and eCash may be asked   *)
(* for with it.                                                            *)
LEMMA SumOption ==
  ASSUME TypeOK, TypeOK', SumInv, NEW o \in Options, option' = o, Repriced(o), Overlap,
         UNCHANGED <<ecashGV, gv, taken>>,
         overlapped' \/ ecashGV \/ \A h \in Holds : auths'[h] <= PayableBy(o)
  PROVE  SumInv'
<1>1. Worth(gv)' = Worth(gv) /\ taken + Worth(gv) <= taken + Worth(gv)
  BY Sizes
<1>2. Payable' = PayableBy(o)
  BY <1>1, PayableIs
<1>3. CASE ecashGV \/ overlapped'
  BY <1>3 DEF SumInv
<1>4. CASE ~ecashGV /\ ~overlapped'
  <2>1. \A h \in Holds : auths'[h] <= Payable'
    BY <1>2, <1>4
  <2>2. ~overlapped
    BY <1>4 DEF Overlap
  <2>3. CASE shortened' \/ (~shortened /\ o = option)
    BY <1>1, <2>1, <2>2, <2>3, SumElse
  <2>4. CASE ~shortened' /\ o # option
    <3>1. ~(Rest(o) < 0)
      BY <2>4 DEF Repriced
    <3>2. taken + Worth(gv) <= Base + Fee[o]
      <4> DEFINE full == Base + Fee[o]
                 w    == Worth(gv)
      <4>1. full \in Nat /\ taken \in Nat /\ w \in Nat
        BY PriceBounds, Sizes
      <4>2. full - taken - w \in Int /\ ~(full - taken - w < 0)
        BY <3>1, <4>1, RedemptionsAssumption DEF Rest, RedemptionsAssumption
      <4> HIDE DEF full, w
      <4>3. taken + w <= full
        BY <4>1, <4>2
      <4> QED
        BY <4>3 DEF full, w
    <3> QED
      BY <1>1, <2>1, <2>2, <3>2, SumElse
  <2>5. shortened \/ ~shortened
    OBVIOUS
  <2>6. shortened => shortened'
    BY DEF Repriced
  <2> QED
    BY <2>3, <2>4, <2>5, <2>6
<1> QED
  BY <1>3, <1>4

LEMMA SumRedeem ==
  ASSUME TypeOK, TypeOK', CashInv, SumInv, NEW slid \in 1..Balance, NEW n \in 1..Balance,
         Redeem(slid, n)
  PROVE  SumInv'
<1> DEFINE o == OptionToRedeem(slid)
<1>1. /\ o \in Options /\ option' = o /\ Repriced(o) /\ Overlap
      /\ UNCHANGED <<ecashGV, vouchers, taken>>
      /\ redeemShown /\ used + 1 \in Holds
      /\ auths' = [auths EXCEPT ![used + 1] = n]
      /\ ecashGV \/ n <= PayableBy(o) + cash
  BY OptionTyped, RedemptionsAssumption DEF Redeem, RedemptionsAssumption, TypeOK, Holds
<1> HIDE DEF o
<1>2. overlapped' \/ \A h \in Holds : auths[h] = 0
  BY <1>1, NothingOut
<1>3. overlapped' \/ \A h \in Holds : auths'[h] \in {0, n}
  BY <1>1, <1>2 DEF TypeOK
<1>4. cash = 0
  BY <1>1, Sizes DEF CashInv, CashShown
<1>5. PayableBy(o) \in Nat
  BY <1>1, Sizes, PayableIs, PriceBounds
<1>6. ecashGV \/ n <= PayableBy(o)
  BY <1>1, <1>4, <1>5
<1>7. overlapped' \/ ecashGV \/ \A h \in Holds : auths'[h] <= PayableBy(o)
  BY <1>3, <1>5, <1>6
<1> QED
  BY <1>1, <1>7, SumOption DEF vouchers

LEMMA SumAuthAnswered ==
  ASSUME TypeOK, TypeOK', CashInv, SumInv, NEW h \in Holds,
         NEW result \in {"held", "lost", "refused"}, AuthAnswered(h, result)
  PROVE  SumInv'
<1> SUFFICES ASSUME ~overlapped', ~ecashGV' PROVE Fits'
  BY DEF SumInv
<1>1. UNCHANGED <<ecashGV, option, gv, overlapped>> /\ auths[h] > 0 /\ auths[h] \in Nat
  BY CashTypes DEF AuthAnswered, vouchers
<1>2. Fits /\ ~ecashGV
  BY <1>1 DEF SumInv
<1>3. taken = 0
  BY <1>1, Sizes DEF CashInv, CashShown, AuthOut
<1>4. \A k \in Holds : auths'[k] = 0
  <2>1. \A k \in Holds : k # h => auths[k] = 0
    BY <1>1, CashTypes DEF CashInv, AuthOut
  <2> QED
    BY <2>1 DEF AuthAnswered, TypeOK
<1>5. auths[h] <= Payable
  BY <1>2 DEF Fits
<1>6. Worth(gv)' = Worth(gv)
  BY <1>1
<1>7. CASE result = "held"
  <2>1. taken' = auths[h] /\ shortened' = (shortened \/ FeeGone(auths[h]))
    BY <1>2, <1>7 DEF AuthAnswered
  <2>2. taken' + Worth(gv)' = taken + Worth(gv) + auths[h]
    BY <1>1, <1>3, <1>6, <2>1, Sizes
  <2>3. /\ \E o \in Options : taken' + Worth(gv)' <= FullPrice(o)
        /\ shortened' \/ taken' + Worth(gv)' <= Base + Fee[option']
    BY <1>1, <1>2, <1>5, <2>1, <2>2, SumMore
  <2> QED
    BY <1>4, <2>3, PayableTyped DEF Fits
<1>8. CASE result # "held"
  <2>1. taken' = taken /\ shortened' = shortened
    BY <1>8 DEF AuthAnswered
  <2> QED
    BY <1>1, <1>2, <1>4, <1>6, <2>1, PayableTyped DEF Fits
<1> QED
  BY <1>7, <1>8

LEMMA SumNext == TypeOK /\ CashInv /\ VouchersInv /\ SumInv /\ [Next]_vars => SumInv'
<1> SUFFICES ASSUME TypeOK, CashInv, VouchersInv, SumInv, [Next]_vars PROVE SumInv'
  OBVIOUS
<1>0. TypeOK'
  BY TypeNext
<1>1. ASSUME NEW c \in Codes, NEW s \in Slots, AddVoucher(c, s) PROVE SumInv'
  BY <1>0, <1>1, SumAddVoucher
<1>2. ASSUME NEW s \in Slots, NEW ok \in BOOLEAN, CheckAnswered(s, ok) PROVE SumInv'
  BY <1>0, <1>2, SumCheckAnswered
<1>3. ASSUME NEW c \in Codes, DeleteVoucher(c) PROVE SumInv'
  BY <1>0, <1>3, SumDeleteVoucher
<1>4. ASSUME NEW slid \in 1..Balance, NEW n \in 1..Balance, Redeem(slid, n) PROVE SumInv'
  BY <1>0, <1>4, SumRedeem
<1>5. ASSUME NEW h \in Holds, NEW result \in {"held", "lost", "refused"},
             AuthAnswered(h, result)
      PROVE  SumInv'
  BY <1>0, <1>5, SumAuthAnswered
<1>6. CASE Cancel
  BY <1>0, <1>6, SumStay DEF Cancel, vouchers, history
<1>7. ASSUME NEW h \in Holds, NEW result \in {"back", "lost", "refused"},
             ReverseAnswered(h, result)
      PROVE  SumInv'
  <2>1. UNCHANGED <<ecashGV, option, gv, auths, overlapped, shortened>>
    BY <1>7 DEF ReverseAnswered, vouchers
  <2>2. CASE taken' = 0
    <3>1. Worth(gv)' = Worth(gv) /\ taken' + Worth(gv)' <= taken + Worth(gv)
      BY <2>1, <2>2, Sizes
    <3>2. Payable <= Payable' /\ Payable \in Nat /\ Payable' \in Nat
      BY <2>1, <2>2, <3>1, Sizes, PayableIs, PriceGrows, PriceBounds
    <3>3. CASE ecashGV \/ overlapped
      BY <2>1, <3>3 DEF SumInv
    <3>4. CASE ~(ecashGV \/ overlapped)
      <4>1. \A k \in Holds : auths[k] <= Payable /\ auths[k] \in Nat
        BY <3>4 DEF SumInv, Fits, TypeOK
      <4>2. \A k \in Holds : auths'[k] <= Payable'
        BY <2>1, <3>2, <4>1
      <4>3. shortened' \/ (~shortened /\ option' = option)
        BY <2>1
      <4> QED
        BY <1>0, <2>1, <3>1, <3>4, <4>2, <4>3, SumElse
    <3> QED
      BY <3>3, <3>4
  <2>3. CASE UNCHANGED taken
    BY <1>0, <2>1, <2>3, SumStay
  <2> QED
    BY <1>7, <2>2, <2>3 DEF ReverseAnswered
<1>8. ASSUME NEW o \in Options, ChangeOption(o) PROVE SumInv'
  <2>1. UNCHANGED <<ecashGV, gv, taken, auths>> /\ option' = o /\ Repriced(o) /\ Overlap
    BY <1>8 DEF ChangeOption, vouchers
  <2>2. overlapped' \/ \A h \in Holds : auths[h] = 0
    BY <2>1, NothingOut
  <2>3. PayableBy(o) \in Nat
    BY Sizes, PayableIs, PriceBounds
  <2>4. overlapped' \/ \A h \in Holds : auths'[h] <= PayableBy(o)
    BY <2>1, <2>2, <2>3
  <2> QED
    BY <1>0, <2>1, <2>4, SumOption
<1>9. CASE UNCHANGED vars
  BY <1>0, <1>9, SumStay DEF vars, vouchers, ecash, wallet, history
<1> QED
  BY <1>1, <1>2, <1>3, <1>4, <1>5, <1>6, <1>7, <1>8, <1>9 DEF Next

LEMMA SumInductive == Spec => [](TypeOK /\ CashInv /\ VouchersInv /\ SumInv)
<1> QED
  BY TypeInit, TypeNext, CashInit, CashNext, VouchersInit, VouchersNext, SumInit, SumNext, PTL
     DEF Spec

(* For any faces, fixed and percentage fees and balance: unless calls      *)
(* overlapped, what the form names, eCash, vouchers and the amount to pay, *)
(* is the booking with the fees of the cart until a fee goes that had been *)
(* redeemed for, and no more is redeemed than the booking costs with some  *)
(* option.  Bookings of eCash vouchers are left out.                       *)
THEOREM FormIsTheTotal == Spec => []FormAddsUp
<1>1. TypeOK /\ CashInv /\ SumInv => FormAddsUp
  <2> DEFINE redeemed == Form.walletAmount + Form.voucherAmount
  <2> SUFFICES ASSUME TypeOK, CashInv, SumInv, ~overlapped, ~ecashGV
               PROVE  /\ shortened \/ Form.amount + redeemed = Total
                      /\ \E o \in Options : redeemed <= FullPrice(o)
    BY DEF FormAddsUp
  <2>1. Fits
    BY DEF SumInv
  <2>2. Form.amount = Payable /\ Form.voucherAmount = Worth(gv)
    BY DEF Form
  <2>3. Form.walletAmount = taken
    <3>1. Form.walletAmount = IF cash > 0 THEN auth.amount ELSE 0
      BY DEF Form, WalletPart
    <3> QED
      BY <3>1, Sizes DEF CashInv, CashShown
  <2>4. redeemed = taken + Worth(gv)
    BY <2>2, <2>3
  <2>5. \E o \in Options : redeemed <= FullPrice(o)
    BY <2>1, <2>4 DEF Fits
  <2>6. shortened \/ Form.amount + redeemed = Total
    <3> SUFFICES ASSUME ~shortened PROVE Payable + (taken + Worth(gv)) = Total
      BY <2>2, <2>4
    <3> DEFINE left == Left(option)
               fee  == PercentFee(option, left)
    <3>1. taken + Worth(gv) <= Base + Fee[option]
      BY <2>1 DEF Fits
    <3>2. taken + Worth(gv) + left = Base + Fee[option] /\ left \in Nat
      BY <3>1, Sizes
    <3>3. fee \in Nat
      BY <3>2, Sizes, PercentFeeTyped
    <3>4. Payable = left + fee /\ Total = Base + Fee[option] + fee
      BY DEF Payable, PayableBy, Total
    <3> HIDE DEF left, fee
    <3>5. taken \in Nat /\ Worth(gv) \in Nat /\ Base + Fee[option] \in Nat
      BY Sizes
    <3> QED
      BY <3>2, <3>3, <3>4, <3>5
  <2> HIDE DEF redeemed
  <2> QED
    BY <2>5, <2>6
<1> QED
  BY <1>1, SumInductive, PTL
==============================================================================
