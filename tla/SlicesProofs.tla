---------------------------- MODULE SlicesProofs ----------------------------
(***************************************************************************)
(* Proofs about Slices, for lists of any length. The helpers loop over a    *)
(* list, which Slices writes as a fold; what a fold computes is proved by   *)
(* induction on the part of the list that is behind the loop. The theorems  *)
(* on induction of the library take an operator, which the provers cannot   *)
(* instantiate; here induction is over a set.                               *)
(***************************************************************************)
EXTENDS Slices, SequenceTheorems, WellFoundedInduction, TLAPS

-----------------------------------------------------------------------------
(* Induction over the numbers, for a set: a set with 0 and with the         *)
(* successor of each of its numbers has all of them.                        *)
LEMMA Induction ==
    ASSUME NEW S, 0 \in S, \A n \in Nat : n \in S => n + 1 \in S
    PROVE  Nat \subseteq S
  <1> SUFFICES ASSUME Nat \ S # {}
               PROVE  FALSE
    OBVIOUS
  <1>1. PICK x \in Nat \ S : \A y \in Nat \ S : <<y, x>> \notin OpToRel(<, Nat)
    BY NatLessThanWellFounded, WFMin
  <1>2. x \in Nat /\ x \notin S /\ x # 0
    OBVIOUS
  <1>3. x - 1 \in Nat /\ x - 1 < x /\ x = (x - 1) + 1
    BY <1>2
  <1>4. x - 1 \in S
    BY <1>1, <1>3 DEF OpToRel
  <1> QED
    BY <1>1, <1>3, <1>4

LEMMA InductionUpTo ==
    ASSUME NEW n \in Nat, NEW S, 0 \in S, \A i \in 0 .. n - 1 : i \in S => i + 1 \in S
    PROVE  \A i \in 0 .. n : i \in S
  <1> DEFINE T == {k \in Nat : k <= n => k \in S}
  <1>1. 0 \in T
    OBVIOUS
  <1>2. ASSUME NEW k \in Nat, k \in T
        PROVE  k + 1 \in T
    <2> SUFFICES ASSUME k + 1 <= n
                 PROVE  k + 1 \in S
      OBVIOUS
    <2>1. k <= n /\ k \in 0 .. n - 1
      OBVIOUS
    <2> QED
      BY <1>2, <2>1
  <1>3. Nat \subseteq T
    <2> HIDE DEF T
    <2> QED
      BY <1>1, <1>2, Induction
  <1> QED
    BY <1>3

(* The largest of the first n numbers, and what is left without it.         *)
LEMMA MaxOfInterval ==
    ASSUME NEW n \in Nat, n # 0
    PROVE  Max(1 .. n) = n /\ (1 .. n) \ {n} = 1 .. n - 1 /\ 1 .. n # {}
  <1>1. n \in 1 .. n /\ \A y \in 1 .. n : n >= y
    OBVIOUS
  <1>2. Max(1 .. n) \in 1 .. n /\ \A y \in 1 .. n : Max(1 .. n) >= y
    BY <1>1 DEF Max
  <1> QED
    BY <1>1, <1>2

LEMMA MaxWithNext ==
    ASSUME NEW n \in Nat, NEW s \in SUBSET (1 .. n + 1), n + 1 \in s
    PROVE  Max(s) = n + 1 /\ s \ {Max(s)} \in SUBSET (1 .. n)
  <1>1. n + 1 \in s /\ \A y \in s : n + 1 >= y
    OBVIOUS
  <1>2. Max(s) \in s /\ \A y \in s : Max(s) >= y
    BY <1>1 DEF Max
  <1>3. Max(s) = n + 1
    <2>1. PICK m : m = Max(s)
      OBVIOUS
    <2>2. m \in s /\ m >= n + 1
      BY <1>2, <2>1
    <2>3. m \in 1 .. n + 1
      BY <2>2
    <2> QED
      BY <2>1, <2>2, <2>3
  <1>4. \A y \in s \ {n + 1} : y \in 1 .. n
    OBVIOUS
  <1> QED
    BY <1>3, <1>4

(* A set of some of the first n numbers has a largest one.                  *)
LEMMA MaxIsIn ==
    ASSUME NEW n \in Nat, NEW s \in SUBSET (1 .. n), s # {}
    PROVE  Max(s) \in s
  <1> DEFINE S == {k \in Nat : \A t \in SUBSET (1 .. k) :
                                  t # {} => \E m \in t : \A y \in t : m >= y}
  <1>1. 0 \in S
    <2>1. 1 .. 0 = {}
      OBVIOUS
    <2> QED
      BY <2>1
  <1>2. ASSUME NEW k \in Nat, k \in S
        PROVE  k + 1 \in S
    <2> SUFFICES \A t \in SUBSET (1 .. k + 1) : t # {} => \E m \in t : \A y \in t : m >= y
      OBVIOUS
    <2> HIDE DEF S
    <2> SUFFICES ASSUME NEW t \in SUBSET (1 .. k + 1), t # {}
                 PROVE  \E m \in t : \A y \in t : m >= y
      OBVIOUS
    <2>1. CASE k + 1 \in t
      BY <2>1
    <2>2. CASE k + 1 \notin t
      <3>1. t \in SUBSET (1 .. k)
        BY <2>2
      <3> QED
        BY <1>2, <3>1 DEF S
    <2> QED
      BY <2>1, <2>2
  <1>3. Nat \subseteq S
    <2> HIDE DEF S
    <2> QED
      BY <1>1, <1>2, Induction
  <1>4. \E m \in s : \A y \in s : m >= y
    BY <1>3
  <1> QED
    BY <1>4 DEF Max

(* A set of numbers has a smallest one.                                     *)
LEMMA MinIsIn ==
    ASSUME NEW s \in SUBSET Nat, s # {}
    PROVE  Min(s) \in s
  <1>1. PICK x \in s : \A y \in s : <<y, x>> \notin OpToRel(<, Nat)
    BY NatLessThanWellFounded, WFMin
  <1>2. \A y \in s : ~ y < x
    BY <1>1 DEF OpToRel
  <1>3. \A y \in s : x <= y
    BY <1>2
  <1> QED
    BY <1>3 DEF Min

(* What a fold of the function g is defined by has a solution f: the        *)
(* definition of FoldLeft chooses it. f[s] is the fold over the positions s *)
(* of ss, of which the largest comes last.                                  *)
Folds(f, X, E, g, base, ss, n) ==
    \A s \in SUBSET (1 .. n) :
        /\ s = {} => f[s] = base
        /\ s # {} => /\ f[s \ {Max(s)}] \in X /\ ss[Max(s)] \in E
                     /\ f[s] = g[<<f[s \ {Max(s)}], ss[Max(s)]>>]

HasFold(X, E, g, base, ss, n) ==
    \E f \in [SUBSET (1 .. n) -> X] : Folds(f, X, E, g, base, ss, n)

LEMMA FoldExists ==
    ASSUME NEW X, NEW E, NEW g \in [X \X E -> X], NEW base \in X, NEW ss \in Seq(E)
    PROVE  HasFold(X, E, g, base, ss, Len(ss))
  <1> DEFINE S == {n \in Nat : n <= Len(ss) => HasFold(X, E, g, base, ss, n)}
  <1>1. 0 \in S
    <2>1. SUBSET (1 .. 0) = {{}}
      OBVIOUS
    <2>2. PICK f : f = [s \in SUBSET (1 .. 0) |-> base]
      OBVIOUS
    <2>3. f \in [SUBSET (1 .. 0) -> X] /\ Folds(f, X, E, g, base, ss, 0)
      BY <2>1, <2>2 DEF Folds
    <2> QED
      BY <2>3 DEF HasFold
  <1>2. ASSUME NEW n \in Nat, n \in S, n + 1 <= Len(ss)
        PROVE  HasFold(X, E, g, base, ss, n + 1)
    <2>1. PICK f \in [SUBSET (1 .. n) -> X] : Folds(f, X, E, g, base, ss, n)
      <3>1. n <= Len(ss)
        BY <1>2
      <3> QED
        BY <1>2, <3>1 DEF HasFold
    <2>2. PICK h : h = [s \in SUBSET (1 .. n + 1) |->
                            IF n + 1 \in s THEN g[<<f[s \ {n + 1}], ss[n + 1]>>] ELSE f[s]]
      OBVIOUS
    <2>3. ss[n + 1] \in E
      BY <1>2
    <2>4. ASSUME NEW s \in SUBSET (1 .. n + 1), n + 1 \in s
          PROVE  /\ h[s \ {Max(s)}] \in X /\ ss[Max(s)] \in E
                 /\ h[s] = g[<<h[s \ {Max(s)}], ss[Max(s)]>>]
                 /\ h[s] \in X
      <3>1. Max(s) = n + 1 /\ s \ {n + 1} \in SUBSET (1 .. n)
        BY <2>4, MaxWithNext
      <3>2. s \ {n + 1} \in SUBSET (1 .. n + 1) /\ n + 1 \notin s \ {n + 1}
        OBVIOUS
      <3>3. h[s \ {n + 1}] = f[s \ {n + 1}]
        BY <2>2, <3>2
      <3>4. h[s] = g[<<f[s \ {n + 1}], ss[n + 1]>>]
        BY <2>2, <2>4
      <3>5. f[s \ {n + 1}] \in X
        BY <3>1
      <3>6. <<f[s \ {n + 1}], ss[n + 1]>> \in X \X E
        BY <2>3, <3>5
      <3>7. g[<<f[s \ {n + 1}], ss[n + 1]>>] \in X
        BY <3>6
      <3> QED
        BY <2>3, <3>1, <3>3, <3>4, <3>5, <3>7
    <2>5. ASSUME NEW s \in SUBSET (1 .. n + 1), n + 1 \notin s
          PROVE  /\ s \in SUBSET (1 .. n) /\ s \ {Max(s)} \in SUBSET (1 .. n)
                 /\ h[s] = f[s] /\ h[s \ {Max(s)}] = f[s \ {Max(s)}]
      <3>1. s \in SUBSET (1 .. n)
        BY <2>5
      <3>2. s \ {Max(s)} \in SUBSET (1 .. n) /\ s \ {Max(s)} \in SUBSET (1 .. n + 1)
        BY <3>1
      <3> QED
        BY <2>2, <2>5, <3>1, <3>2
    <2>6. h \in [SUBSET (1 .. n + 1) -> X]
      BY <2>2, <2>4, <2>5
    <2>7. Folds(h, X, E, g, base, ss, n + 1)
      <3> SUFFICES ASSUME NEW s \in SUBSET (1 .. n + 1)
                   PROVE  /\ s = {} => h[s] = base
                          /\ s # {} => /\ h[s \ {Max(s)}] \in X /\ ss[Max(s)] \in E
                                       /\ h[s] = g[<<h[s \ {Max(s)}], ss[Max(s)]>>]
        BY DEF Folds
      <3>1. CASE n + 1 \in s
        BY <2>4, <3>1
      <3>2. CASE n + 1 \notin s
        BY <2>1, <2>5, <3>2 DEF Folds
      <3> QED
        BY <3>1, <3>2
    <2> QED
      BY <2>6, <2>7 DEF HasFold
  <1>3. \A n \in Nat : n \in S => n + 1 \in S
    BY <1>2
  <1>4. Nat \subseteq S
    <2> HIDE DEF S
    <2> QED
      BY <1>1, <1>3, Induction
  <1>5. Len(ss) \in Nat /\ Len(ss) <= Len(ss)
    OBVIOUS
  <1> QED
    BY <1>4, <1>5

-----------------------------------------------------------------------------
(* One step of each loop. A list without duplicates gets one string more    *)
(* when the string is not there.                                            *)
LEMMA AppendNew ==
    ASSUME NEW ss \in Seq(Roles), IsInjective(ss), NEW s \in Roles, s \notin ToSet(ss)
    PROVE  /\ IsInjective(Append(ss, s))
           /\ ToSet(Append(ss, s)) = ToSet(ss) \cup {s}
  <1>1. PICK new : new = Append(ss, s)
    OBVIOUS
  <1>2. /\ DOMAIN ss = 1 .. Len(ss) /\ Len(ss) \in Nat
        /\ DOMAIN new = 1 .. Len(ss) + 1
        /\ \A i \in 1 .. Len(ss) : new[i] = ss[i]
        /\ new[Len(ss) + 1] = s
    BY <1>1
  <1>3. \A i \in 1 .. Len(ss) : ss[i] # s
    BY <1>2 DEF ToSet
  <1>4. IsInjective(new)
    BY <1>2, <1>3 DEF IsInjective
  <1>5. ToSet(new) = ToSet(ss) \cup {s}
    BY <1>2 DEF ToSet
  <1> QED
    BY <1>1, <1>4, <1>5

LEMMA AppendedIsIn ==
    ASSUME NEW ss \in Seq(Roles), NEW s \in Roles
    PROVE  Append(ss, s) \in Seq(Roles) /\ ToSet(Append(ss, s)) = ToSet(ss) \cup {s}
  <1>1. PICK n \in Nat : n = Len(ss) /\ DOMAIN ss = 1 .. n
    OBVIOUS
  <1>2. /\ Append(ss, s) \in Seq(Roles) /\ DOMAIN Append(ss, s) = (1 .. n) \cup {n + 1}
        /\ Append(ss, s)[n + 1] = s /\ \A i \in 1 .. n : Append(ss, s)[i] = ss[i]
    BY <1>1
  <1> QED
    BY <1>1, <1>2 DEF ToSet

LEMMA ContainsIsIn ==
    ASSUME NEW ss \in Seq(Roles), NEW s
    PROVE  Contains(ss, s) <=> s \in ToSet(ss)
  BY DEF Contains, ToSet

(* AppendUniqueString adds the string to the set of strings.                *)
LEMMA AppendOne ==
    ASSUME NEW ss \in Seq(Roles), IsInjective(ss), NEW s \in Roles
    PROVE  /\ IsInjective(AppendUniqueString(ss, s))
           /\ ToSet(AppendUniqueString(ss, s)) = ToSet(ss) \cup {s}
  BY AppendNew, ContainsIsIn DEF AppendUniqueString

LEMMA AppendType ==
    ASSUME NEW ss \in Seq(Roles), NEW s \in Roles
    PROVE  AppendUniqueString(ss, s) \in Seq(Roles)
  BY DEF AppendUniqueString

(* RemoveFromStringSlice overwrites the one occurrence of the string with   *)
(* the last string and cuts the list: it takes the string out of the set.   *)
LEMMA Overwritten ==
    ASSUME NEW ss \in Seq(Roles), NEW s \in Roles, Contains(ss, s)
    PROVE  \E i \in 1 .. Len(ss) :
               /\ ss[i] = s
               /\ RemoveFromStringSlice(ss, s) = Front([ss EXCEPT ![i] = Last(ss)])
  <1> DEFINE I == {i \in 1 .. Len(ss) : ss[i] = s}
  <1>1. I # {} /\ I \in SUBSET Nat
    BY DEF Contains
  <1>2. RemoveFromStringSlice(ss, s)
            = Front([ss EXCEPT ![IF I # {} THEN Min(I) ELSE 0] = Last(ss)])
    BY DEF RemoveFromStringSlice, SelectInSeq
  <1>3. PICK i : i = Min(I)
    OBVIOUS
  <1>4. i \in I
    BY <1>1, <1>3, MinIsIn
  <1> QED
    BY <1>1, <1>2, <1>3, <1>4

LastMoved(ss, cut, i, n) ==
    /\ n + 1 = Len(ss) /\ DOMAIN ss = 1 .. n + 1 /\ DOMAIN cut = 1 .. n
    /\ \A j \in 1 .. n : cut[j] = ss[IF j = i THEN n + 1 ELSE j]

LEMMA FrontOf ==
    ASSUME NEW ss \in Seq(Roles), NEW i \in 1 .. Len(ss), NEW cut,
           cut = Front([ss EXCEPT ![i] = Last(ss)])
    PROVE  /\ cut \in Seq(Roles)
           /\ \E n \in Nat : LastMoved(ss, cut, i, n)
  <1>1. PICK n : n = Len(ss) - 1
    OBVIOUS
  <1>2. /\ n \in Nat /\ n + 1 = Len(ss)
        /\ DOMAIN ss = 1 .. n + 1 /\ i \in 1 .. n + 1
    BY <1>1
  <1>3. PICK moved : moved = [ss EXCEPT ![i] = Last(ss)]
    OBVIOUS
  <1>4. /\ DOMAIN moved = 1 .. n + 1
        /\ \A j \in 1 .. n + 1 : moved[j] = IF j = i THEN ss[n + 1] ELSE ss[j]
    BY <1>1, <1>2, <1>3 DEF Last
  <1>5. \A j \in 1 .. n + 1 : moved[j] \in Roles
    BY <1>2, <1>4
  <1>6. Len(moved) = n + 1
    BY <1>2, <1>4
  <1>7. cut = SubSeq(moved, 1, n)
    BY <1>2, <1>3, <1>6 DEF Front
  <1>8. /\ cut \in Seq(Roles)
        /\ Len(cut) = IF 1 <= n THEN n - 1 + 1 ELSE 0
        /\ \A j \in 1 .. n - 1 + 1 : cut[j] = moved[1 + j - 1]
    <2>1. 1 \in Int /\ n \in Int /\ \A j \in 1 .. n : moved[j] \in Roles
      BY <1>2, <1>5
    <2>2. SubSeq(moved, 1, n) \in Seq(Roles)
      BY <2>1, SubSeqProperties
    <2>3. Len(SubSeq(moved, 1, n)) = IF 1 <= n THEN n - 1 + 1 ELSE 0
      BY <2>1, SubSeqProperties
    <2>4. \A j \in 1 .. n - 1 + 1 : SubSeq(moved, 1, n)[j] = moved[1 + j - 1]
      BY <2>1, SubSeqProperties
    <2> QED
      BY <1>7, <2>2, <2>3, <2>4
  <1>9. Len(cut) = n /\ DOMAIN cut = 1 .. n
    BY <1>2, <1>8
  <1>10. ASSUME NEW j \in 1 .. n
         PROVE  cut[j] = ss[IF j = i THEN n + 1 ELSE j]
    <2>1. j \in 1 .. n - 1 + 1 /\ 1 + j - 1 = j /\ j \in 1 .. n + 1
      BY <1>2
    <2>2. cut[j] = moved[j]
      BY <1>8, <2>1
    <2> QED
      BY <1>4, <2>1, <2>2
  <1> QED
    BY <1>2, <1>8, <1>9, <1>10 DEF LastMoved

LEMMA RemoveType ==
    ASSUME NEW ss \in Seq(Roles), NEW s \in Roles
    PROVE  RemoveFromStringSlice(ss, s) \in Seq(Roles)
  <1>1. CASE Contains(ss, s)
    BY <1>1, Overwritten, FrontOf
  <1>2. CASE ~Contains(ss, s)
    BY <1>2 DEF RemoveFromStringSlice
  <1> QED
    BY <1>1, <1>2

LEMMA RemoveOne ==
    ASSUME NEW ss \in Seq(Roles), IsInjective(ss), NEW s \in Roles
    PROVE  /\ IsInjective(RemoveFromStringSlice(ss, s))
           /\ ToSet(RemoveFromStringSlice(ss, s)) = ToSet(ss) \ {s}
  <1>1. CASE ~Contains(ss, s)
    BY <1>1, ContainsIsIn DEF RemoveFromStringSlice
  <1>2. CASE Contains(ss, s)
    <2>1. PICK i \in 1 .. Len(ss) :
              /\ ss[i] = s
              /\ RemoveFromStringSlice(ss, s) = Front([ss EXCEPT ![i] = Last(ss)])
      BY <1>2, Overwritten
    <2>2. PICK cut : cut = RemoveFromStringSlice(ss, s)
      OBVIOUS
    <2>3. PICK n \in Nat : LastMoved(ss, cut, i, n)
      <3>1. cut = Front([ss EXCEPT ![i] = Last(ss)])
        BY <2>1, <2>2
      <3> QED
        BY <3>1, FrontOf
    <2>4. i \in 1 .. n + 1 /\ \A j, k \in 1 .. n + 1 : ss[j] = ss[k] => j = k
      BY <2>3 DEF LastMoved, IsInjective
    <2>5. IsInjective(cut)
      <3> SUFFICES ASSUME NEW j \in 1 .. n, NEW k \in 1 .. n, cut[j] = cut[k]
                   PROVE  j = k
        BY <2>3 DEF LastMoved, IsInjective
      <3> QED
        BY <2>3, <2>4 DEF LastMoved
    <2>6. \A j \in 1 .. n : cut[j] \in ToSet(ss) \ {s}
      <3> SUFFICES ASSUME NEW j \in 1 .. n
                   PROVE  cut[j] \in ToSet(ss) \ {s}
        OBVIOUS
      <3>1. ss[j] \in ToSet(ss) /\ ss[n + 1] \in ToSet(ss)
        BY <2>3 DEF LastMoved, ToSet
      <3>2. j # i => ss[j] # s
        BY <2>1, <2>4
      <3>3. j = i => ss[n + 1] # s
        BY <2>1, <2>4
      <3> QED
        BY <2>3, <3>1, <3>2, <3>3 DEF LastMoved
    <2>7. \A x \in ToSet(ss) \ {s} : \E j \in 1 .. n : cut[j] = x
      <3> SUFFICES ASSUME NEW k \in 1 .. n + 1, ss[k] # s
                   PROVE  \E j \in 1 .. n : cut[j] = ss[k]
        BY <2>3 DEF LastMoved, ToSet
      <3>1. k # i
        BY <2>1
      <3>2. CASE k = n + 1
        <4>1. i \in 1 .. n
          BY <2>4, <3>1, <3>2
        <4> QED
          BY <2>3, <3>2, <4>1 DEF LastMoved
      <3>3. CASE k # n + 1
        <4>1. k \in 1 .. n
          BY <3>3
        <4> QED
          BY <2>3, <3>1, <4>1 DEF LastMoved
      <3> QED
        BY <3>2, <3>3
    <2>8. ToSet(cut) = ToSet(ss) \ {s}
      <3>1. ToSet(cut) = {cut[j] : j \in 1 .. n}
        BY <2>3 DEF LastMoved, ToSet
      <3> QED
        BY <2>6, <2>7, <3>1
    <2> QED
      BY <2>2, <2>5, <2>8
  <1> QED
    BY <1>1, <1>2

-----------------------------------------------------------------------------
(* The loops, one string of the list after another: h[i] is what the loop   *)
(* has when i strings are behind it.                                        *)
Stepwise(iter, X, g, ss, n) ==
    \A i \in 0 .. n - 1 : iter[1 .. i] \in X => iter[1 .. i + 1] = g[<<iter[1 .. i], ss[i + 1]>>]

HasRun(iter, X, g, base, ss, n) ==
    \E h \in [0 .. n -> X] :
        /\ h[0] = base /\ h[n] = iter[1 .. n]
        /\ \A i \in 0 .. n - 1 : h[i + 1] = g[<<h[i], ss[i + 1]>>]

LEMMA FoldRun ==
    ASSUME NEW X, NEW E, NEW g \in [X \X E -> X], NEW base \in X, NEW ss \in Seq(E), NEW iter,
           NEW n \in Nat, n = Len(ss), iter[1 .. 0] = base, Stepwise(iter, X, g, ss, n)
    PROVE  HasRun(iter, X, g, base, ss, n)
  <1>1. \A j \in 1 .. n : ss[j] \in E
    OBVIOUS
  <1>2. \A i \in 0 .. n : iter[1 .. i] \in X
    <2> DEFINE S == {i \in 0 .. n : iter[1 .. i] \in X}
    <2>1. 0 \in S
      OBVIOUS
    <2>2. ASSUME NEW i \in 0 .. n - 1, i \in S
          PROVE  i + 1 \in S
      <3>1. i + 1 \in 0 .. n /\ ss[i + 1] \in E /\ iter[1 .. i] \in X
        BY <1>1, <2>2
      <3>2. iter[1 .. i + 1] = g[<<iter[1 .. i], ss[i + 1]>>]
        BY <3>1 DEF Stepwise
      <3> QED
        BY <3>1, <3>2
    <2> HIDE DEF S
    <2>3. \A i \in 0 .. n : i \in S
      BY <2>1, <2>2, InductionUpTo
    <2> QED
      BY <2>3 DEF S
  <1>3. PICK h : h = [i \in 0 .. n |-> iter[1 .. i]]
    OBVIOUS
  <1>4. h \in [0 .. n -> X] /\ h[0] = base /\ h[n] = iter[1 .. n]
    BY <1>2, <1>3
  <1>5. ASSUME NEW i \in 0 .. n - 1
        PROVE  h[i + 1] = g[<<h[i], ss[i + 1]>>]
    <2>1. i \in 0 .. n /\ i + 1 \in 0 .. n
      OBVIOUS
    <2> QED
      BY <1>2, <1>3, <2>1 DEF Stepwise
  <1> QED
    BY <1>4, <1>5 DEF HasRun

(* AddRolesToMembers and UniqueStringSlice append.                          *)
LEMMA AppendRun ==
    ASSUME NEW base \in Seq(Roles), NEW ss \in Seq(Roles)
    PROVE  \E h \in [0 .. Len(ss) -> Seq(Roles)] :
               /\ h[0] = base
               /\ \A i \in 0 .. Len(ss) - 1 : h[i + 1] = AppendUniqueString(h[i], ss[i + 1])
               /\ WithRoles(base, ss) = h[Len(ss)]
  <1>1. PICK n \in Nat : n = Len(ss) /\ DOMAIN ss = 1 .. n /\ \A j \in 1 .. n : ss[j] \in Roles
    OBVIOUS
  <1> DEFINE D == SUBSET (1 .. n)
             Body(f, s) == IF s = {} THEN base
                           ELSE AppendUniqueString(f[s \ {Max(s)}], ss[Max(s)])
             iter == CHOOSE f : f = [s \in D |-> Body(f, s)]
             g == [p \in Seq(Roles) \X Roles |-> AppendUniqueString(p[1], p[2])]
  <1>2. WithRoles(base, ss) = iter[1 .. n]
    BY <1>1 DEF WithRoles, FoldLeft, MapThenFoldSet
  <1>3. g \in [Seq(Roles) \X Roles -> Seq(Roles)]
    BY AppendType
  <1>4. \E f : f = [s \in D |-> Body(f, s)]
    <2>1. PICK f \in [D -> Seq(Roles)] : Folds(f, Seq(Roles), Roles, g, base, ss, n)
      BY <1>1, <1>3, FoldExists DEF HasFold
    <2>2. ASSUME NEW s \in D
          PROVE  f[s] = Body(f, s)
      BY <2>1 DEF Folds
    <2> QED
      BY <2>2
  <1>5. iter = [s \in D |-> Body(iter, s)]
    BY <1>4
  <1> HIDE DEF iter
  <1>6. iter[1 .. 0] = base
    BY <1>5
  <1>7. ASSUME NEW i \in 0 .. n - 1, iter[1 .. i] \in Seq(Roles)
        PROVE  iter[1 .. i + 1] = g[<<iter[1 .. i], ss[i + 1]>>]
    <2>1. /\ Max(1 .. i + 1) = i + 1 /\ ss[i + 1] \in Roles
          /\ (1 .. i + 1) \ {i + 1} = 1 .. i
          /\ 1 .. i + 1 # {} /\ 1 .. i + 1 \in D
      <3>1. i + 1 \in Nat /\ i + 1 # 0 /\ i + 1 - 1 = i /\ i + 1 \in 1 .. n
        BY <1>1
      <3> QED
        BY <1>1, <3>1, MaxOfInterval
    <2>2. iter[1 .. i + 1] = Body(iter, 1 .. i + 1)
      BY <1>5, <2>1
    <2> QED
      BY <1>7, <2>1, <2>2
  <1> HIDE DEF g
  <1>8. PICK h \in [0 .. n -> Seq(Roles)] :
            /\ h[0] = base /\ h[n] = iter[1 .. n]
            /\ \A i \in 0 .. n - 1 : h[i + 1] = g[<<h[i], ss[i + 1]>>]
    <2>1. Stepwise(iter, Seq(Roles), g, ss, n)
      BY <1>7 DEF Stepwise
    <2>2. HasRun(iter, Seq(Roles), g, base, ss, n)
      BY <1>1, <1>3, <1>6, <2>1, FoldRun
    <2> QED
      BY <2>2 DEF HasRun
  <1>9. ASSUME NEW i \in 0 .. n - 1
        PROVE  h[i + 1] = AppendUniqueString(h[i], ss[i + 1])
    <2>1. i \in 0 .. n /\ ss[i + 1] \in Roles
      BY <1>1
    <2> QED
      BY <1>8, <2>1 DEF g
  <1> QED
    BY <1>1, <1>2, <1>8, <1>9

(* RemoveRolesFromMembers removes.                                          *)
LEMMA RemoveRun ==
    ASSUME NEW base \in Seq(Roles), NEW ss \in Seq(Roles)
    PROVE  \E h \in [0 .. Len(ss) -> Seq(Roles)] :
               /\ h[0] = base
               /\ \A i \in 0 .. Len(ss) - 1 : h[i + 1] = RemoveFromStringSlice(h[i], ss[i + 1])
               /\ WithoutRoles(base, ss) = h[Len(ss)]
  <1>1. PICK n \in Nat : n = Len(ss) /\ DOMAIN ss = 1 .. n /\ \A j \in 1 .. n : ss[j] \in Roles
    OBVIOUS
  <1> DEFINE D == SUBSET (1 .. n)
             Body(f, s) == IF s = {} THEN base
                           ELSE RemoveFromStringSlice(f[s \ {Max(s)}], ss[Max(s)])
             iter == CHOOSE f : f = [s \in D |-> Body(f, s)]
             g == [p \in Seq(Roles) \X Roles |-> RemoveFromStringSlice(p[1], p[2])]
  <1>2. WithoutRoles(base, ss) = iter[1 .. n]
    BY <1>1 DEF WithoutRoles, FoldLeft, MapThenFoldSet
  <1>3. g \in [Seq(Roles) \X Roles -> Seq(Roles)]
    BY RemoveType
  <1>4. \E f : f = [s \in D |-> Body(f, s)]
    <2>1. PICK f \in [D -> Seq(Roles)] : Folds(f, Seq(Roles), Roles, g, base, ss, n)
      BY <1>1, <1>3, FoldExists DEF HasFold
    <2>2. ASSUME NEW s \in D
          PROVE  f[s] = Body(f, s)
      BY <2>1 DEF Folds
    <2> QED
      BY <2>2
  <1>5. iter = [s \in D |-> Body(iter, s)]
    BY <1>4
  <1> HIDE DEF iter
  <1>6. iter[1 .. 0] = base
    BY <1>5
  <1>7. ASSUME NEW i \in 0 .. n - 1, iter[1 .. i] \in Seq(Roles)
        PROVE  iter[1 .. i + 1] = g[<<iter[1 .. i], ss[i + 1]>>]
    <2>1. /\ Max(1 .. i + 1) = i + 1 /\ ss[i + 1] \in Roles
          /\ (1 .. i + 1) \ {i + 1} = 1 .. i
          /\ 1 .. i + 1 # {} /\ 1 .. i + 1 \in D
      <3>1. i + 1 \in Nat /\ i + 1 # 0 /\ i + 1 - 1 = i /\ i + 1 \in 1 .. n
        BY <1>1
      <3> QED
        BY <1>1, <3>1, MaxOfInterval
    <2>2. iter[1 .. i + 1] = Body(iter, 1 .. i + 1)
      BY <1>5, <2>1
    <2> QED
      BY <1>7, <2>1, <2>2
  <1> HIDE DEF g
  <1>8. PICK h \in [0 .. n -> Seq(Roles)] :
            /\ h[0] = base /\ h[n] = iter[1 .. n]
            /\ \A i \in 0 .. n - 1 : h[i + 1] = g[<<h[i], ss[i + 1]>>]
    <2>1. Stepwise(iter, Seq(Roles), g, ss, n)
      BY <1>7 DEF Stepwise
    <2>2. HasRun(iter, Seq(Roles), g, base, ss, n)
      BY <1>1, <1>3, <1>6, <2>1, FoldRun
    <2> QED
      BY <2>2 DEF HasRun
  <1>9. ASSUME NEW i \in 0 .. n - 1
        PROVE  h[i + 1] = RemoveFromStringSlice(h[i], ss[i + 1])
    <2>1. i \in 0 .. n /\ ss[i + 1] \in Roles
      BY <1>1
    <2> QED
      BY <1>8, <2>1 DEF g
  <1> QED
    BY <1>1, <1>2, <1>8, <1>9

(* StringSlicesDiff collects.                                               *)
Collect(known, found, s) == IF Contains(known, s) THEN found ELSE Append(found, s)

HasCollected(known, none, ss) ==
    \E h \in [0 .. Len(ss) -> Seq(Roles)] :
        /\ h[0] = none
        /\ \A i \in 0 .. Len(ss) - 1 : h[i + 1] = Collect(known, h[i], ss[i + 1])
        /\ Missing(ss, known) = h[Len(ss)]

LEMMA MissingRun ==
    ASSUME NEW known \in Seq(Roles), NEW none \in Seq(Roles), none = <<>>, NEW ss \in Seq(Roles)
    PROVE  HasCollected(known, none, ss)
  <1>1. PICK n \in Nat : n = Len(ss) /\ DOMAIN ss = 1 .. n /\ \A j \in 1 .. n : ss[j] \in Roles
    OBVIOUS
  <1> DEFINE D == SUBSET (1 .. n)
             Body(f, s) == IF s = {} THEN none
                           ELSE Collect(known, f[s \ {Max(s)}], ss[Max(s)])
             iter == CHOOSE f : f = [s \in D |-> Body(f, s)]
             g == [p \in Seq(Roles) \X Roles |-> Collect(known, p[1], p[2])]
  <1>2. Missing(ss, known) = iter[1 .. n]
    BY <1>1 DEF Missing, Collect, FoldLeft, MapThenFoldSet
  <1>3. g \in [Seq(Roles) \X Roles -> Seq(Roles)]
    BY DEF Collect
  <1>4. \E f : f = [s \in D |-> Body(f, s)]
    <2>1. PICK f \in [D -> Seq(Roles)] : Folds(f, Seq(Roles), Roles, g, none, ss, n)
      BY <1>1, <1>3, FoldExists DEF HasFold
    <2>2. ASSUME NEW s \in D
          PROVE  f[s] = Body(f, s)
      BY <2>1 DEF Folds
    <2> QED
      BY <2>2
  <1>5. iter = [s \in D |-> Body(iter, s)]
    BY <1>4
  <1> HIDE DEF iter
  <1>6. iter[1 .. 0] = none
    BY <1>5
  <1>7. ASSUME NEW i \in 0 .. n - 1, iter[1 .. i] \in Seq(Roles)
        PROVE  iter[1 .. i + 1] = g[<<iter[1 .. i], ss[i + 1]>>]
    <2>1. /\ Max(1 .. i + 1) = i + 1 /\ ss[i + 1] \in Roles
          /\ (1 .. i + 1) \ {i + 1} = 1 .. i
          /\ 1 .. i + 1 # {} /\ 1 .. i + 1 \in D
      <3>1. i + 1 \in Nat /\ i + 1 # 0 /\ i + 1 - 1 = i /\ i + 1 \in 1 .. n
        BY <1>1
      <3> QED
        BY <1>1, <3>1, MaxOfInterval
    <2>2. iter[1 .. i + 1] = Body(iter, 1 .. i + 1)
      BY <1>5, <2>1
    <2> QED
      BY <1>7, <2>1, <2>2
  <1> HIDE DEF g
  <1>8. PICK h \in [0 .. n -> Seq(Roles)] :
            /\ h[0] = none /\ h[n] = iter[1 .. n]
            /\ \A i \in 0 .. n - 1 : h[i + 1] = g[<<h[i], ss[i + 1]>>]
    <2>1. Stepwise(iter, Seq(Roles), g, ss, n)
      BY <1>7 DEF Stepwise
    <2>2. HasRun(iter, Seq(Roles), g, none, ss, n)
      BY <1>1, <1>3, <1>6, <2>1, FoldRun
    <2> QED
      BY <2>2 DEF HasRun
  <1>9. ASSUME NEW i \in 0 .. n - 1
        PROVE  h[i + 1] = Collect(known, h[i], ss[i + 1])
    <2>1. i \in 0 .. n /\ ss[i + 1] \in Roles
      BY <1>1
    <2> QED
      BY <1>8, <2>1 DEF g
  <1> QED
    BY <1>1, <1>2, <1>8, <1>9 DEF HasCollected

-----------------------------------------------------------------------------
(* What the loops compute, by induction on the strings behind them.         *)
Firsts(ss, i) == {ss[j] : j \in 1 .. i}

LEMMA FirstsGrow ==
    ASSUME NEW ss \in Seq(Roles)
    PROVE  /\ Firsts(ss, 0) = {} /\ Firsts(ss, Len(ss)) = ToSet(ss)
           /\ \A i \in 0 .. Len(ss) - 1 :
                  /\ ss[i + 1] \in Roles
                  /\ Firsts(ss, i + 1) = Firsts(ss, i) \cup {ss[i + 1]}
  <1>1. PICK n \in Nat : n = Len(ss) /\ DOMAIN ss = 1 .. n /\ \A j \in 1 .. n : ss[j] \in Roles
    OBVIOUS
  <1>2. Firsts(ss, 0) = {} /\ Firsts(ss, n) = ToSet(ss)
    BY <1>1 DEF Firsts, ToSet
  <1>3. ASSUME NEW i \in 0 .. n - 1
        PROVE  ss[i + 1] \in Roles /\ Firsts(ss, i + 1) = Firsts(ss, i) \cup {ss[i + 1]}
    <2>1. 1 .. i + 1 = (1 .. i) \cup {i + 1} /\ i + 1 \in 1 .. n
      OBVIOUS
    <2> QED
      BY <1>1, <2>1 DEF Firsts
  <1> QED
    BY <1>1, <1>2, <1>3

(* WithRoles adds the strings of the list to those of the other, and keeps  *)
(* it free of duplicates: AppendUniqueString does.                          *)
LEMMA AppendAll ==
    ASSUME NEW base \in Seq(Roles), IsInjective(base), NEW ss \in Seq(Roles)
    PROVE  /\ WithRoles(base, ss) \in Seq(Roles) /\ IsInjective(WithRoles(base, ss))
           /\ ToSet(WithRoles(base, ss)) = ToSet(base) \cup ToSet(ss)
  <1>1. PICK n \in Nat : n = Len(ss)
    OBVIOUS
  <1>2. PICK h \in [0 .. n -> Seq(Roles)] :
            /\ h[0] = base
            /\ \A i \in 0 .. n - 1 : h[i + 1] = AppendUniqueString(h[i], ss[i + 1])
            /\ WithRoles(base, ss) = h[n]
    BY <1>1, AppendRun
  <1> DEFINE S == {i \in 0 .. n : /\ IsInjective(h[i])
                                  /\ ToSet(h[i]) = ToSet(base) \cup Firsts(ss, i)}
  <1>3. 0 \in S
    BY <1>2, FirstsGrow
  <1>4. ASSUME NEW i \in 0 .. n - 1, i \in S
        PROVE  i + 1 \in S
    <2>1. i \in 0 .. n /\ i + 1 \in 0 .. n /\ h[i] \in Seq(Roles)
      OBVIOUS
    <2>2. ss[i + 1] \in Roles /\ Firsts(ss, i + 1) = Firsts(ss, i) \cup {ss[i + 1]}
      BY <1>1, FirstsGrow
    <2>3. /\ IsInjective(h[i + 1])
          /\ ToSet(h[i + 1]) = ToSet(h[i]) \cup {ss[i + 1]}
      BY <1>2, <1>4, <2>1, <2>2, AppendOne
    <2> QED
      BY <1>4, <2>1, <2>2, <2>3
  <1>5. n \in S
    <2> HIDE DEF S
    <2>1. \A i \in 0 .. n : i \in S
      BY <1>3, <1>4, InductionUpTo
    <2> QED
      BY <2>1
  <1> QED
    BY <1>1, <1>2, <1>5, FirstsGrow

(* WithoutRoles takes the strings of the list out of the other: it has each *)
(* once, so that RemoveFromStringSlice leaves none behind.                  *)
LEMMA RemoveAll ==
    ASSUME NEW base \in Seq(Roles), IsInjective(base), NEW ss \in Seq(Roles)
    PROVE  /\ WithoutRoles(base, ss) \in Seq(Roles) /\ IsInjective(WithoutRoles(base, ss))
           /\ ToSet(WithoutRoles(base, ss)) = ToSet(base) \ ToSet(ss)
  <1>1. PICK n \in Nat : n = Len(ss)
    OBVIOUS
  <1>2. PICK h \in [0 .. n -> Seq(Roles)] :
            /\ h[0] = base
            /\ \A i \in 0 .. n - 1 : h[i + 1] = RemoveFromStringSlice(h[i], ss[i + 1])
            /\ WithoutRoles(base, ss) = h[n]
    BY <1>1, RemoveRun
  <1> DEFINE S == {i \in 0 .. n : /\ IsInjective(h[i])
                                  /\ ToSet(h[i]) = ToSet(base) \ Firsts(ss, i)}
  <1>3. 0 \in S
    BY <1>2, FirstsGrow
  <1>4. ASSUME NEW i \in 0 .. n - 1, i \in S
        PROVE  i + 1 \in S
    <2>1. i \in 0 .. n /\ i + 1 \in 0 .. n /\ h[i] \in Seq(Roles)
      OBVIOUS
    <2>2. ss[i + 1] \in Roles /\ Firsts(ss, i + 1) = Firsts(ss, i) \cup {ss[i + 1]}
      BY <1>1, FirstsGrow
    <2>3. /\ IsInjective(h[i + 1])
          /\ ToSet(h[i + 1]) = ToSet(h[i]) \ {ss[i + 1]}
      BY <1>2, <1>4, <2>1, <2>2, RemoveOne
    <2> QED
      BY <1>4, <2>1, <2>2, <2>3
  <1>5. n \in S
    <2> HIDE DEF S
    <2>1. \A i \in 0 .. n : i \in S
      BY <1>3, <1>4, InductionUpTo
    <2> QED
      BY <2>1
  <1> QED
    BY <1>1, <1>2, <1>5, FirstsGrow

(* StringSlicesDiff finds the strings of the one list that are not in the   *)
(* other.                                                                   *)
LEMMA CollectOne ==
    ASSUME NEW known \in Seq(Roles), NEW found \in Seq(Roles), NEW s \in Roles
    PROVE  ToSet(Collect(known, found, s)) = ToSet(found) \cup ({s} \ ToSet(known))
  <1>1. CASE Contains(known, s)
    BY <1>1, ContainsIsIn DEF Collect
  <1>2. CASE ~Contains(known, s)
    <2>1. ToSet(Append(found, s)) = ToSet(found) \cup {s}
      BY AppendedIsIn
    <2> QED
      BY <1>2, <2>1, ContainsIsIn DEF Collect
  <1> QED
    BY <1>1, <1>2

LEMMA MissingAll ==
    ASSUME NEW known \in Seq(Roles), NEW ss \in Seq(Roles)
    PROVE  /\ Missing(ss, known) \in Seq(Roles)
           /\ ToSet(Missing(ss, known)) = ToSet(ss) \ ToSet(known)
  <1>1. PICK n \in Nat : n = Len(ss) /\ DOMAIN ss = 1 .. n
    OBVIOUS
  <1>2. PICK none \in Seq(Roles) : none = <<>> /\ ToSet(none) = {}
    <2>1. <<>> \in Seq(Roles) /\ DOMAIN <<>> = {}
      OBVIOUS
    <2> QED
      BY <2>1 DEF ToSet
  <1>3. PICK h \in [0 .. n -> Seq(Roles)] :
            /\ h[0] = none
            /\ \A i \in 0 .. n - 1 : h[i + 1] = Collect(known, h[i], ss[i + 1])
            /\ Missing(ss, known) = h[n]
    <2>1. HasCollected(known, none, ss)
      BY <1>2, MissingRun
    <2> QED
      BY <1>1, <2>1 DEF HasCollected
  <1> DEFINE S == {i \in 0 .. n : ToSet(h[i]) = Firsts(ss, i) \ ToSet(known)}
  <1>4. 0 \in S
    BY <1>2, <1>3, FirstsGrow
  <1>5. ASSUME NEW i \in 0 .. n - 1, i \in S
        PROVE  i + 1 \in S
    <2>1. i \in 0 .. n /\ i + 1 \in 0 .. n /\ h[i] \in Seq(Roles)
      OBVIOUS
    <2>2. ss[i + 1] \in Roles /\ Firsts(ss, i + 1) = Firsts(ss, i) \cup {ss[i + 1]}
      BY <1>1, FirstsGrow
    <2>3. ToSet(h[i + 1]) = ToSet(h[i]) \cup ({ss[i + 1]} \ ToSet(known))
      BY <1>3, <2>1, <2>2, CollectOne
    <2> QED
      BY <1>5, <2>1, <2>2, <2>3
  <1>6. n \in S
    <2> HIDE DEF S
    <2>1. \A i \in 0 .. n : i \in S
      BY <1>4, <1>5, InductionUpTo
    <2> QED
      BY <2>1
  <1> QED
    BY <1>1, <1>3, <1>6, FirstsGrow

(* UniqueStringSlice keeps each string once, whatever the list.             *)
LEMMA UniqueOf ==
    ASSUME NEW ss \in Seq(Roles)
    PROVE  /\ UniqueStringSlice(ss) \in Seq(Roles) /\ IsInjective(UniqueStringSlice(ss))
           /\ ToSet(UniqueStringSlice(ss)) = ToSet(ss)
  <1>1. PICK none \in Seq(Roles) : none = <<>> /\ IsInjective(none) /\ ToSet(none) = {}
    <2>1. <<>> \in Seq(Roles) /\ DOMAIN <<>> = {}
      OBVIOUS
    <2> QED
      BY <2>1 DEF IsInjective, ToSet
  <1>2. UniqueStringSlice(ss) = WithRoles(none, ss)
    BY <1>1 DEF UniqueStringSlice, WithRoles
  <1>3. /\ WithRoles(none, ss) \in Seq(Roles) /\ IsInjective(WithRoles(none, ss))
        /\ ToSet(WithRoles(none, ss)) = ToSet(none) \cup ToSet(ss)
    BY <1>1, AppendAll
  <1> QED
    BY <1>1, <1>2, <1>3

-----------------------------------------------------------------------------
(* What is stored are lists of roles, which repeat none but as starts do;   *)
(* lists from requests are lists of roles.                                  *)
SlicesInv == group \in Seq(Roles) /\ member \in Seq(Roles) /\ OnlyStartsRepeat

(* What OnlyStartsRepeat says of a group with the list of roles ss.         *)
RepeatsAsStartsDo(ss) ==
    \/ IsInjective(ss)
    \/ /\ ~Contains(ss, "admin")
       /\ \A i, j \in DOMAIN ss : ss[i] = ss[j] => i = j \/ ss[i] = "admins"

LEMMA InvIs == SlicesInv <=> /\ group \in Seq(Roles) /\ member \in Seq(Roles)
                             /\ IsInjective(member) /\ RepeatsAsStartsDo(group)
  BY DEF SlicesInv, OnlyStartsRepeat, RepeatsAsStartsDo

LEMMA InvIsNext == SlicesInv' <=> /\ group' \in Seq(Roles) /\ member' \in Seq(Roles)
                                  /\ IsInjective(member') /\ RepeatsAsStartsDo(group')
  BY DEF SlicesInv, OnlyStartsRepeat, RepeatsAsStartsDo

LEMMA ListsAreSequences == Lists \subseteq Seq(Roles)
  BY DEF Lists

(* A save keeps the old list where the new one is empty, as it does on sets. *)
LEMMA SetListAsSet ==
    ASSUME NEW old \in Seq(Roles), NEW new \in Seq(Roles)
    PROVE  /\ SetList(old, new) \in {old, new}
           /\ ToSet(SetList(old, new)) = AsSets!Saved(ToSet(old), ToSet(new))
  <1>1. ToSet(new) = {} <=> new = <<>>
    <2>1. CASE new = <<>>
      BY <2>1 DEF ToSet
    <2>2. CASE new # <<>>
      <3>1. 1 \in DOMAIN new
        BY <2>2
      <3> QED
        BY <2>2, <3>1 DEF ToSet
    <2> QED
      BY <2>1, <2>2
  <1> QED
    BY <1>1 DEF SetList, AsSets!Saved

LEMMA InitKeeps ==
    ASSUME Init
    PROVE  SlicesInv /\ ToSet(group) \subseteq Roles /\ ToSet(member) \subseteq Roles
  <1>1. PICK ss \in Lists : group = UniqueStringSlice(ss)
    BY DEF Init
  <1>2. ss \in Seq(Roles)
    BY ListsAreSequences
  <1>3. group \in Seq(Roles) /\ IsInjective(group) /\ ToSet(group) = ToSet(ss)
    BY <1>1, <1>2, UniqueOf
  <1>4. member = UniqueStringSlice(group)
    BY DEF Init, WithRoles, UniqueStringSlice
  <1>5. member \in Seq(Roles) /\ IsInjective(member) /\ ToSet(member) = ToSet(group)
    BY <1>3, <1>4, UniqueOf
  <1>6. ToSet(ss) \subseteq Roles
    BY <1>2 DEF ToSet
  <1>7. SlicesInv
    BY <1>3, <1>5, InvIs DEF RepeatsAsStartsDo
  <1> QED
    BY <1>3, <1>5, <1>6, <1>7

LEMMA UpdateRolesKeeps ==
    ASSUME SlicesInv, UpdateRoles
    PROVE  SlicesInv' /\ \E roles \in SUBSET Roles : AsSets!Update(roles)
  <1>1. PICK given \in Lists :
            LET roles  == UniqueStringSlice(given)
                gained == WithRoles(member, Added(group, roles))
            IN  /\ group' = SetList(group, roles)
                /\ member' = SetList(gained, WithoutRoles(gained, Removed(group, roles)))
    BY DEF UpdateRoles
  <1>2. PICK roles : roles = UniqueStringSlice(given)
    OBVIOUS
  <1>3. PICK more : more = Added(group, roles)
    OBVIOUS
  <1>4. PICK less : less = Removed(group, roles)
    OBVIOUS
  <1>5. PICK full : full = WithRoles(member, more)
    OBVIOUS
  <1>6. PICK left : left = WithoutRoles(full, less)
    OBVIOUS
  <1>7. group' = SetList(group, roles) /\ member' = SetList(full, left)
    BY <1>1, <1>2, <1>3, <1>4, <1>5, <1>6
  <1>8. given \in Seq(Roles) /\ ToSet(given) \subseteq Roles
    BY ListsAreSequences DEF ToSet
  <1>9. roles \in Seq(Roles) /\ IsInjective(roles) /\ ToSet(roles) = ToSet(given)
    BY <1>2, <1>8, UniqueOf
  <1>10. /\ group \in Seq(Roles) /\ RepeatsAsStartsDo(group)
         /\ member \in Seq(Roles) /\ IsInjective(member)
    BY InvIs
  <1>11. more \in Seq(Roles) /\ ToSet(more) = ToSet(roles) \ ToSet(group)
    BY <1>3, <1>9, <1>10, MissingAll DEF Added
  <1>12. less \in Seq(Roles) /\ ToSet(less) = ToSet(group) \ ToSet(roles)
    BY <1>4, <1>9, <1>10, MissingAll DEF Removed
  <1>13. /\ full \in Seq(Roles) /\ IsInjective(full)
         /\ ToSet(full) = ToSet(member) \cup (ToSet(roles) \ ToSet(group))
    BY <1>5, <1>10, <1>11, AppendAll
  <1>14. /\ left \in Seq(Roles) /\ IsInjective(left)
         /\ ToSet(left) = ToSet(full) \ (ToSet(group) \ ToSet(roles))
    BY <1>6, <1>12, <1>13, RemoveAll
  <1>15. /\ group' \in {group, roles}
         /\ ToSet(group') = AsSets!Saved(ToSet(group), ToSet(roles))
    BY <1>7, <1>9, <1>10, SetListAsSet
  <1>16. /\ member' \in {full, left}
         /\ ToSet(member') = AsSets!Saved(ToSet(full), ToSet(left))
    BY <1>7, <1>13, <1>14, SetListAsSet
  <1>17. AsSets!Update(ToSet(roles))
    BY <1>13, <1>14, <1>15, <1>16 DEF AsSets!Update
  <1>18. SlicesInv'
    <2>1. group' \in Seq(Roles) /\ RepeatsAsStartsDo(group')
      BY <1>9, <1>10, <1>15 DEF RepeatsAsStartsDo
    <2>2. member' \in Seq(Roles) /\ IsInjective(member')
      BY <1>13, <1>14, <1>16
    <2> QED
      BY <2>1, <2>2, InvIsNext
  <1> QED
    BY <1>8, <1>9, <1>17, <1>18

LEMMA EnterKeeps ==
    ASSUME SlicesInv, Enter
    PROVE  SlicesInv' /\ \E roles \in SUBSET Roles : AsSets!Gain(roles)
  <1>1. PICK given \in Lists : member' = WithRoles(member, given)
    BY DEF Enter
  <1>2. given \in Seq(Roles) /\ ToSet(given) \subseteq Roles
    BY ListsAreSequences DEF ToSet
  <1>3. /\ group \in Seq(Roles) /\ RepeatsAsStartsDo(group) /\ group' = group
        /\ member \in Seq(Roles) /\ IsInjective(member)
    BY InvIs DEF Enter
  <1>4. /\ member' \in Seq(Roles) /\ IsInjective(member')
        /\ ToSet(member') = ToSet(member) \cup ToSet(given)
    BY <1>1, <1>2, <1>3, AppendAll
  <1>5. AsSets!Gain(ToSet(given))
    BY <1>3, <1>4 DEF AsSets!Gain
  <1>6. SlicesInv'
    BY <1>3, <1>4, InvIsNext
  <1> QED
    BY <1>2, <1>5, <1>6

LEMMA LeaveKeeps ==
    ASSUME SlicesInv, Leave
    PROVE  SlicesInv' /\ \E roles \in SUBSET Roles : AsSets!Lose(roles)
  <1>1. PICK given \in Lists : member' = SetList(member, WithoutRoles(member, given))
    BY DEF Leave
  <1>2. given \in Seq(Roles) /\ ToSet(given) \subseteq Roles
    BY ListsAreSequences DEF ToSet
  <1>3. /\ group \in Seq(Roles) /\ RepeatsAsStartsDo(group) /\ group' = group
        /\ member \in Seq(Roles) /\ IsInjective(member)
    BY InvIs DEF Leave
  <1>4. PICK left : left = WithoutRoles(member, given)
    OBVIOUS
  <1>5. left \in Seq(Roles) /\ IsInjective(left) /\ ToSet(left) = ToSet(member) \ ToSet(given)
    BY <1>2, <1>3, <1>4, RemoveAll
  <1>6. /\ member' \in {member, left}
        /\ ToSet(member') = AsSets!Saved(ToSet(member), ToSet(left))
    BY <1>1, <1>3, <1>4, <1>5, SetListAsSet
  <1>7. AsSets!Lose(ToSet(given))
    BY <1>3, <1>5, <1>6 DEF AsSets!Lose
  <1>8. SlicesInv'
    BY <1>3, <1>5, <1>6, InvIsNext
  <1> QED
    BY <1>2, <1>7, <1>8

(* A start appends "admins" to a group that it does not find "admin" in,    *)
(* once more if it is there.                                                *)
LEMMA StartKeeps ==
    ASSUME SlicesInv, Start
    PROVE  SlicesInv' /\ AsSets!Start
  <1>1. "admin" \in Roles /\ "admins" \in Roles /\ "admin" # "admins"
    BY SlicesAssumption
  <1>2. /\ group \in Seq(Roles) /\ RepeatsAsStartsDo(group)
        /\ member \in Seq(Roles) /\ IsInjective(member)
    BY InvIs
  <1>3. /\ member' \in Seq(Roles) /\ IsInjective(member')
        /\ ToSet(member') = ToSet(member) \cup {"admin"}
    <2>1. member' = AppendUniqueString(member, "admin")
      BY DEF Start, AppendUniqueString
    <2>2. PICK s \in Roles : s = "admin"
      BY <1>1
    <2>3. AppendUniqueString(member, s) \in Seq(Roles)
      BY <1>2, AppendType
    <2>4. /\ IsInjective(AppendUniqueString(member, s))
          /\ ToSet(AppendUniqueString(member, s)) = ToSet(member) \cup {s}
      BY <1>2, AppendOne
    <2> QED
      BY <2>1, <2>2, <2>3, <2>4
  <1>4. Contains(group, "admin") <=> "admin" \in ToSet(group)
    BY <1>1, <1>2, ContainsIsIn
  <1>5. CASE Contains(group, "admin")
    <2>1. group' = group
      BY <1>5 DEF Start
    <2>2. SlicesInv'
      BY <1>2, <1>3, <2>1, InvIsNext
    <2> QED
      BY <1>3, <1>4, <1>5, <2>1, <2>2 DEF AsSets!Start
  <1>6. CASE ~Contains(group, "admin")
    <2>1. group' = Append(group, "admins")
      BY <1>6 DEF Start
    <2>2. group' \in Seq(Roles) /\ ToSet(group') = ToSet(group) \cup {"admins"}
      BY <1>1, <1>2, <2>1, AppendedIsIn
    <2>3. ~Contains(group', "admin")
      BY <1>1, <1>4, <1>6, <2>2, ContainsIsIn
    <2>4. \A i, j \in DOMAIN group' : group'[i] = group'[j] => i = j \/ group'[i] = "admins"
      <3>1. PICK n \in Nat : n = Len(group) /\ DOMAIN group = 1 .. n
        BY <1>2
      <3>2. /\ DOMAIN group' = (1 .. n) \cup {n + 1} /\ group'[n + 1] = "admins"
            /\ \A i \in 1 .. n : group'[i] = group[i]
        BY <1>1, <1>2, <2>1, <3>1
      <3>3. \A i, j \in 1 .. n : group[i] = group[j] => i = j \/ group[i] = "admins"
        BY <1>2, <3>1 DEF RepeatsAsStartsDo, IsInjective
      <3> QED
        BY <3>2, <3>3
    <2>5. SlicesInv'
      BY <1>3, <2>2, <2>3, <2>4, InvIsNext DEF RepeatsAsStartsDo
    <2> QED
      BY <1>3, <1>4, <1>6, <2>2, <2>5 DEF AsSets!Start
  <1> QED
    BY <1>5, <1>6

LEMMA StepKeeps ==
    ASSUME SlicesInv, [Next]_vars
    PROVE  SlicesInv' /\ [AsSets!Next]_(AsSets!vars)
  <1>1. CASE UpdateRoles
    BY <1>1, UpdateRolesKeeps DEF AsSets!Next
  <1>2. CASE Enter
    BY <1>2, EnterKeeps DEF AsSets!Next
  <1>3. CASE Leave
    BY <1>3, LeaveKeeps DEF AsSets!Next
  <1>4. CASE Start
    BY <1>4, StartKeeps DEF AsSets!Next
  <1>5. CASE UNCHANGED vars
    BY <1>5 DEF vars, SlicesInv, OnlyStartsRepeat, AsSets!vars
  <1> QED
    BY <1>1, <1>2, <1>3, <1>4, <1>5 DEF Next

LEMMA SlicesInvariance == Spec => []SlicesInv
  <1>1. Init => SlicesInv
    BY InitKeeps
  <1>2. SlicesInv /\ [Next]_vars => SlicesInv'
    BY StepKeeps
  <1> QED
    BY <1>1, <1>2, PTL DEF Spec

(* However long the lists are that requests bring, and however often the    *)
(* server starts: no list of a member has a role twice, and that of a group *)
(* repeats "admins" alone, by starts, until a request sets it.              *)
THEOREM RepeatsAreOfStarts == Spec => []OnlyStartsRepeat
  <1>1. SlicesInv => OnlyStartsRepeat
    BY DEF SlicesInv
  <1> QED
    BY <1>1, SlicesInvariance, PTL

(* The lists follow the operations on sets in RoleSets: UpdateGroup gives   *)
(* the member what is new and takes what is gone but its last role, and the *)
(* order of strings, which RemoveFromStringSlice changes, makes no          *)
(* difference, nor do the roles that starts repeat in the group.            *)
THEOREM ListsActAsSets == Spec => ImplementsRoleSets
  <1>1. Init => AsSets!Init
    BY InitKeeps DEF AsSets!Init
  <1>2. SlicesInv /\ [Next]_vars => [AsSets!Next]_(AsSets!vars)
    BY StepKeeps
  <1> QED
    BY <1>1, <1>2, SlicesInvariance, PTL DEF Spec, ImplementsRoleSets, AsSets!Spec
=============================================================================
