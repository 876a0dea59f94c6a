--------------------------- MODULE CoordinatorProofs ---------------------------
(***************************************************************************)
(* What is proved of GroupCoordinator, for any groups, workers, workloads    *)
(* and unreliable calls: the types and the locks, and an invariant, Safety,    *)
(* that relates what every thread still has to do, the late calls, the       *)
(* guard's sessions and the groups' states.                                  *)
(*                                                                          *)
(* An operation is a list of steps, so most of the work is about lists: what   *)
(* the programs have, and which of it survives an insertion, an exception     *)
(* that drops a group's steps, and the passage from a list to its rest.  The  *)
(* facts about lists that the proofs use are such that do: "no then for g     *)
(* before a first for g" (Precedes), "has only these" (Only, Uses, Lacks), and *)
(* "what belongs together is together" (Chained).                            *)
(***************************************************************************)
EXTENDS GroupCoordinator, FiniteSetTheorems, TLAPS

-----------------------------------------------------------------------------
(* Lists.                                                                   *)

(* A set of numbers that is not empty has a least one. *)
LEMMA Least ==
  ASSUME NEW S, S \subseteq Nat, NEW n \in S
  PROVE  \E m \in S : \A k \in S : m <= k
<1> DEFINE T == {0..k : k \in S}
<1>1. T \subseteq FiniteSubsetsOf(Nat) /\ T # {}
  <2>1. \A k \in S : IsFiniteSet(0..k) /\ 0..k \subseteq Nat
    BY FS_Interval
  <2> QED
    BY <2>1 DEF FiniteSubsetsOf
<1>2. PICK x \in T : \A y \in T : ~(<<y, x>> \in StrictSubsetOrdering(Nat))
  BY <1>1, FS_StrictSubsetOrderingWellFounded, WFMin
<1>3. PICK m \in S : x = 0..m
  OBVIOUS
<1>4. ASSUME NEW k \in S PROVE m <= k
  <2>1. 0..k \in T /\ 0..k \subseteq Nat /\ 0..m \subseteq Nat
    OBVIOUS
  <2>2. ~(0..k \subseteq 0..m /\ 0..k # 0..m)
    BY <1>2, <1>3, <2>1 DEF StrictSubsetOrdering
  <2>3. k < m => 0..k \subseteq 0..m /\ m \in 0..m /\ m \notin 0..k
    OBVIOUS
  <2>4. ~(k < m)
    BY <2>2, <2>3
  <2> QED
    BY <2>4
<1> QED
  BY <1>4

(* Induction over a set.                                                    *)
LEMMA Induction ==
  ASSUME NEW S, 0 \in S, \A n \in Nat : n \in S => n + 1 \in S
  PROVE  Nat \subseteq S
<1> SUFFICES ASSUME Nat \ S # {} PROVE FALSE
  OBVIOUS
<1>1. PICK m \in Nat \ S : \A k \in Nat \ S : m <= k
  BY Least
<1>2. m - 1 \in Nat /\ m - 1 \in S
  BY <1>1
<1> QED
  BY <1>1, <1>2

(* The same up to a number.                                                 *)
LEMMA UpTo ==
  ASSUME NEW S, NEW k \in Nat, 0 \in S, \A n \in 0..(k - 1) : n \in S => n + 1 \in S
  PROVE  k \in S
<1> DEFINE T == {n \in Nat : n <= k => n \in S}
<1>1. 0 \in T /\ \A n \in Nat : n \in T => n + 1 \in T
  OBVIOUS
<1> HIDE DEF T
<1>2. k \in T
  BY <1>1, Induction
<1> QED
  BY <1>2 DEF T

(* The fold in FlattenSeq, unfolded.                                        *)
LEMMA FlattenUnfolds ==
  ASSUME NEW X, NEW ss \in Seq(Seq(X)), Len(ss) > 0
  PROVE  \E f \in [1..Len(ss) -> Seq(X)] :
           /\ f[1] = ss[1]
           /\ \A i \in 2..Len(ss) : f[i] = f[i - 1] \o ss[i]
           /\ FlattenSeq(ss) = f[Len(ss)]
<1> DEFINE L == Len(ss)
           Good == {n \in 0..L : \E f \in [1..n -> Seq(X)] :
                      /\ n > 0 => f[1] = ss[1]
                      /\ \A i \in 2..n : f[i] = f[i - 1] \o ss[i]}
<1>a. \A i \in 1..L : ss[i] \in Seq(X)
  OBVIOUS
<1>b. L \in Nat /\ L > 0
  OBVIOUS
<1> HIDE DEF L
<1>1. ASSUME NEW n \in 0..(L - 1), n \in Good PROVE n + 1 \in Good
  <2>1. CASE n = 0
    <3> DEFINE f == [i \in 1..1 |-> ss[1]]
    <3>1. f \in [1..1 -> Seq(X)] /\ f[1] = ss[1] /\ 1 \in 0..L /\ n + 1 = 1
      BY <2>1, <1>a, <1>b
    <3>2. \A i \in 2..1 : f[i] = f[i - 1] \o ss[i]
      OBVIOUS
    <3> HIDE DEF f
    <3> QED BY <3>1, <3>2
  <2>2. CASE n # 0
    <3>2. PICK f \in [1..n -> Seq(X)] :
                      /\ n > 0 => f[1] = ss[1]
                      /\ \A i \in 2..n : f[i] = f[i - 1] \o ss[i]
      BY <1>1
    <3> DEFINE h == [i \in 1..(n + 1) |-> IF i = n + 1 THEN f[n] \o ss[i] ELSE f[i]]
    <3>a. n \in Nat /\ n > 0 /\ n + 1 \in 1..L /\ n \in 1..n /\ (n + 1) - 1 = n
      BY <2>2, <1>b
    <3>b. f[n] \o ss[n + 1] \in Seq(X)
      BY <3>a, <1>a
    <3>3. h \in [1..(n+1) -> Seq(X)] /\ h[1] = ss[1]
      BY <3>a, <3>b, <3>2
    <3>4. ASSUME NEW i \in 2..(n+1)
          PROVE  h[i] = h[i - 1] \o ss[i]
      <4>1. CASE i = n + 1
        <5>1. h[i] = f[n] \o ss[i] /\ i - 1 = n /\ n \in 1..(n + 1) /\ n # n + 1
          BY <4>1, <3>a
        <5>2. h[n] = f[n]
          BY <5>1
        <5> QED BY <5>1, <5>2
      <4>2. CASE i # n + 1
        <5>1. i \in 2..n /\ h[i] = f[i] /\ h[i-1] = f[i-1]
          BY <4>2, <3>a
        <5> QED BY <5>1, <3>2
      <4> QED BY <4>1, <4>2
    <3>5. n + 1 \in 0..L
      BY <3>a
    <3> HIDE DEF h
    <3> QED BY <3>3, <3>4, <3>5
  <2> QED BY <2>1, <2>2
<1>2. L \in Good
  <2>1. 0 \in Good
    <3> DEFINE f == [i \in 1..0 |-> ss[1]]
    <3>1. f \in [1..0 -> Seq(X)] /\ 0 \in 0..L
      BY <1>b
    <3>2. (0 > 0 => f[1] = ss[1]) /\ \A i \in 2..0 : f[i] = f[i - 1] \o ss[i]
      OBVIOUS
    <3> HIDE DEF f
    <3>3. \E g \in [1..0 -> Seq(X)] :
            (0 > 0 => g[1] = ss[1]) /\ \A i \in 2..0 : g[i] = g[i - 1] \o ss[i]
      BY <3>1, <3>2
    <3> QED BY <3>1, <3>3
  <2>2. \A n \in 0..(L - 1) : n \in Good => n + 1 \in Good
    BY <1>1
  <2>. HIDE DEF Good
  <2> QED
    BY <1>b, <2>1, <2>2, UpTo
<1>3. PICK f \in [1..L -> Seq(X)] : f[1] = ss[1] /\ \A i \in 2..L : f[i] = f[i - 1] \o ss[i]
  BY <1>2, <1>b
<1> DEFINE F == CHOOSE flatten : flatten = [i \in 1..L |-> IF i = 1 THEN ss[i] ELSE flatten[i - 1] \o ss[i]]
<1>4a. \A i \in 1..L : f[i] = IF i = 1 THEN ss[i] ELSE f[i - 1] \o ss[i]
  <2>1. ASSUME NEW i \in 1..L PROVE f[i] = IF i = 1 THEN ss[i] ELSE f[i - 1] \o ss[i]
    <3>1. CASE i = 1
      BY <3>1, <1>3
    <3>2. CASE i # 1
      <4>1. i \in 2..L
        BY <3>2, <1>b
      <4>2. f[i] = f[i - 1] \o ss[i]
        BY <4>1, <1>3
      <4> QED BY <3>2, <4>2
    <3> QED BY <3>1, <3>2
  <2> QED
    BY <2>1
<1>4. f = [i \in 1..L |-> IF i = 1 THEN ss[i] ELSE f[i - 1] \o ss[i]]
  BY <1>3, <1>4a
<1>5. F = [i \in 1..L |-> IF i = 1 THEN ss[i] ELSE F[i - 1] \o ss[i]]
  BY <1>4
<1>6. FlattenSeq(ss) = F[L]
  BY <1>b DEF FlattenSeq, L
<1> HIDE DEF F
<1>7. \A i \in 1..L : F[i] = IF i = 1 THEN ss[i] ELSE F[i - 1] \o ss[i]
  BY <1>5
<1> DEFINE Same == {n \in 0..L : n > 0 => F[n] = f[n]}
<1>8. ASSUME NEW n \in 0..(L - 1), n \in Same PROVE n + 1 \in Same
  <2>0. n + 1 \in 1..L /\ (n + 1) - 1 = n /\ (n # 0 => n + 1 \in 2..L) /\ n + 1 \in 0..L
    BY <1>b
  <2>1. F[n + 1] = IF n + 1 = 1 THEN ss[n + 1] ELSE F[n] \o ss[n + 1]
    BY <1>7, <2>0
  <2>2. f[n + 1] = IF n + 1 = 1 THEN ss[n + 1] ELSE f[n] \o ss[n + 1]
    <3>1. f[n + 1] = IF n + 1 = 1 THEN ss[n + 1] ELSE f[(n + 1) - 1] \o ss[n + 1]
      BY <1>4a, <2>0
    <3> QED BY <3>1, <2>0
  <2>3. n # 0 => F[n] = f[n]
    BY <1>8
  <2>4. F[n + 1] = f[n + 1]
    BY <2>1, <2>2, <2>3
  <2> QED
    BY <2>0, <2>4
<1>9. L \in Same
  <2>1. 0 \in Same
    BY <1>b
  <2>2. \A n \in 0..(L - 1) : n \in Same => n + 1 \in Same
    BY <1>8
  <2>. HIDE DEF Same
  <2> QED
    BY <1>b, <2>1, <2>2, UpTo
<1>10. FlattenSeq(ss) = f[L]
  BY <1>b, <1>6, <1>9
<1> QED
  BY <1>3, <1>10 DEF L

(* Whatever holds of nothing and goes on to hold with every next sequence holds
   of them all one after the other *)
LEMMA FlattenInduction ==
  ASSUME NEW X, NEW ss \in Seq(Seq(X)),
         NEW I, << >> \in I[0],
         \A n \in 0..(Len(ss) - 1), a \in Seq(X) : a \in I[n] => a \o ss[n + 1] \in I[n + 1]
  PROVE  FlattenSeq(ss) \in Seq(X) /\ FlattenSeq(ss) \in I[Len(ss)]
<1>0. Len(ss) \in Nat
  OBVIOUS
<1>1. CASE Len(ss) = 0
  <2>1. FlattenSeq(ss) = ss /\ ss = << >>
    BY <1>1 DEF FlattenSeq
  <2> QED
    BY <1>1, <2>1
<1>2. CASE Len(ss) > 0
  <2>1. PICK f \in [1..Len(ss) -> Seq(X)] :
           /\ f[1] = ss[1]
           /\ \A i \in 2..Len(ss) : f[i] = f[i - 1] \o ss[i]
           /\ FlattenSeq(ss) = f[Len(ss)]
    BY <1>2, FlattenUnfolds
  <2> DEFINE Good == {n \in 0..Len(ss) : n > 0 => f[n] \in I[n]}
  <2>2. ASSUME NEW n \in 0..(Len(ss) - 1), n \in Good PROVE n + 1 \in Good
    <3>0. ss[n + 1] \in Seq(X) /\ (n + 1) - 1 = n /\ n + 1 \in 0..Len(ss) /\ (n # 0
          => n \in 1..Len(ss) /\ n + 1 \in 2..Len(ss))
      OBVIOUS
    <3>1. CASE n = 0
      <4>1. f[1] = << >> \o ss[1]
        BY <2>1, <3>0, <3>1
      <4>2. << >> \in Seq(X)
        OBVIOUS
      <4>3. 0 \in 0..(Len(ss) - 1) /\ 0 + 1 = 1
        BY <3>0, <3>1, <1>0
      <4>4. << >> \o ss[1] \in I[1]
        BY <4>2, <4>3
      <4>5. n + 1 = 1
        BY <3>1
      <4>6. f[1] \in I[1]
        BY <4>1, <4>4
      <4> QED
        BY <3>0, <4>5, <4>6
    <3>2. CASE n # 0
      <4>1. f[n + 1] = f[(n + 1) - 1] \o ss[n + 1]
        BY <2>1, <3>2, <3>0
      <4>2. f[n] \in Seq(X)
        BY <2>1, <3>2, <3>0
      <4>3. f[n] \in I[n]
        BY <2>2, <3>2
      <4>4. f[n] \o ss[n + 1] \in I[n + 1]
        BY <4>2, <4>3
      <4> QED
        BY <3>0, <4>1, <4>4
    <3> QED
      BY <3>1, <3>2
  <2>3. Len(ss) \in Good
    <3>1. 0 \in Good
      BY <1>0
    <3>2. \A n \in 0..(Len(ss) - 1) : n \in Good => n + 1 \in Good
      BY <2>2
    <3>. HIDE DEF Good
    <3> QED
      BY <1>0, <3>1, <3>2, UpTo
  <2> QED
    BY <1>2, <2>1, <2>3
<1> QED
  BY <1>0, <1>1, <1>2

(* A step of some operation. *)
Checked == {"may_init", "may_prepare", "may_acknowledge", "fit", "settled", "if_halted", "unless_armed",
            "arm_unless_armed", "rebuild", "switched"}
(* Assignments of the coordinator's own state                               *)
Assigned == {"bump", "halted", "initialized", "armed", "running", "stopped", "fault", "rebuilt",
             "transact", "close", "roll_back", "maintained"}
(* The other steps                                                          *)
Others == {"to_inactive", "to_active", "to_unconfigured", "taken_over", "lock_dirty", "suspect",
           "confirm", "condemned"}
(* All steps                                                                *)
Names == Mutations \cup Reads \cup Checked \cup Assigned \cup Others

(* The steps there are                                                      *)
Plans == [do : Names, on : Groups \cup {"all"}, with : SUBSET Groups]

(* The list has one of these steps for g.                                   *)
Has(s, g, names) == \E i \in 1..Len(s) : s[i].on = g /\ s[i].do \in names
(* It has no others for g.                                                  *)
Only(s, g, names) == \A i \in 1..Len(s) : s[i].on = g => s[i].do \in names
(* It has no others at all.                                                 *)
Uses(s, names) == \A i \in 1..Len(s) : s[i].do \in names
(* It has none of these.                                                    *)
Lacks(s, names) == \A i \in 1..Len(s) : s[i].do \notin names
(* Its steps are for these.                                                 *)
On(s, places) == \A i \in 1..Len(s) : s[i].on \in places

(* No `then` for g before a `first` for g                                   *)
Precedes(s, g, first, then) ==
  \A j \in 1..Len(s) : s[j].on = g /\ s[j].do \in then =>
    \E i \in 1..Len(s) : i < j /\ s[i].on = g /\ s[i].do \in first

(* What follows what at once. *)
Followers == {"list", "release", "halted", "write", "close", "roll_back"}
(* The ones that something must follow at once                              *)
Leaders == {"halt", "list", "release", "transact", "write"}
(* The steps between which a start is under way                             *)
Starters == {"start", "run"}

(* Step b may follow step a.                                                *)
Leads(a, b) ==
  /\ b.do \in Followers \/ a.do \in Starters => a.on = b.on
  /\ b.do = "list" => a.do = "halt"
  /\ b.do = "halted" => a.do \in {"list", "release"}
  /\ b.do = "write" => a.do = "transact"
  /\ b.do = "close" => a.do = "write"
  /\ a.do = "start" => b.do = "run"
  /\ a.do = "run" => b.do = "running"
  /\ b.do \notin {"release", "roll_back"}

(* Steps that belong together are together.                                 *)
Chained(s) ==
  /\ \A i, j \in 1..Len(s) : j = i + 1 => Leads(s[i], s[j])
  /\ Len(s) > 0 => s[Len(s)].do \notin Starters

(* The list may follow any other.                                           *)
Fresh(s) == Len(s) > 0 => s[1].do \notin Followers

(* SetToSeq *)
LEMMA Ordering ==
  ASSUME NEW S, IsFiniteSet(S)
  PROVE  /\ Cardinality(S) \in Nat /\ SetToSeq(S) \in [1..Cardinality(S) -> S]
         /\ \A x \in S : \E i \in 1..Cardinality(S) : SetToSeq(S)[i] = x
<1> DEFINE n == Cardinality(S)
           f == SetToSeq(S)
<1>1. n \in Nat /\ ExistsBijection(1..n, S)
  BY FS_CardinalityType
<1>2. \E h \in [1..n -> S] : IsInjective(h)
  BY <1>1 DEF ExistsBijection, Bijection, Injection
<1>3. f \in [1..n -> S] /\ IsInjective(f)
  BY <1>2 DEF SetToSeq
<1>4. f \in Injection(1..n, S)
  BY <1>3 DEF Injection
<1>5. Cardinality(1..n) = n
  BY <1>1, FS_Interval
<1>6. f \in Surjection(1..n, S)
  BY <1>4, <1>5, FS_Injection
<1> QED
  BY <1>1, <1>3, <1>6 DEF Surjection

(* The list of lists that Each makes one of. *)
LEMMA EachIn ==
  ASSUME NEW X, NEW D, IsFiniteSet(D), NEW steps \in [D -> Seq(X)],
         NEW C, << >> \in C, \A a, b \in C : a \in Seq(X) /\ b \in Seq(X) => a \o b \in C,
         \A g \in D : steps[g] \in C
  PROVE  Each(steps) \in Seq(X) /\ Each(steps) \in C
<1> DEFINE order == SetToSeq(D)
           n == Cardinality(D)
           ss == [i \in 1..n |-> steps[order[i]]]
           I == [m \in Nat |-> C \cap Seq(X)]
<1>1. n \in Nat /\ order \in [1..n -> D]
  BY Ordering
<1>2. Len(order) = n
  BY <1>1
<1>3. DOMAIN steps = D /\ Each(steps) = FlattenSeq(ss)
  BY <1>2 DEF Each
<1>3a. \A i \in 1..n : ss[i] \in Seq(X) /\ ss[i] \in C
  BY <1>1
<1>4. ss \in Seq(Seq(X)) /\ Len(ss) = n /\ \A i \in 1..n : ss[i] \in Seq(X) /\ ss[i] \in C
  BY <1>1, <1>3a
<1> HIDE DEF ss, n
<1>5. << >> \in I[0]
  OBVIOUS
<1>6. ASSUME NEW k \in 0..(Len(ss) - 1), NEW a \in Seq(X), a \in I[k]
      PROVE  a \o ss[k + 1] \in I[k + 1]
  <2>1. a \in C /\ k + 1 \in 1..n
    BY <1>4, <1>1, <1>6
  <2>2. ss[k + 1] \in C /\ ss[k + 1] \in Seq(X)
    BY <2>1, <1>4
  <2>3. a \o ss[k + 1] \in C /\ a \o ss[k + 1] \in Seq(X)
    BY <2>1, <2>2
  <2>4. k + 1 \in Nat
    OBVIOUS
  <2> QED
    BY <2>3, <2>4
<1> HIDE DEF I
<1>7. FlattenSeq(ss) \in Seq(X) /\ FlattenSeq(ss) \in I[Len(ss)]
  BY <1>4, <1>5, <1>6, FlattenInduction
<1> QED
  BY <1>3, <1>7 DEF I

(* ... and every one of them is part of it *)
LEMMA EachHas ==
  ASSUME NEW X, NEW D, IsFiniteSet(D), NEW steps \in [D -> Seq(X)],
         NEW g \in D, NEW x, NEW k \in 1..Len(steps[g]), steps[g][k] = x
  PROVE  \E i \in 1..Len(Each(steps)) : Each(steps)[i] = x
<1> DEFINE order == SetToSeq(D)
           n == Cardinality(D)
           ss == [i \in 1..n |-> steps[order[i]]]
<1>1. n \in Nat /\ order \in [1..n -> D]
  BY Ordering
<1>0. PICK p \in 1..n : order[p] = g
  BY Ordering
<1> DEFINE I == [m \in Nat |-> {a \in Seq(X) : p <= m => \E i \in 1..Len(a) : a[i] = x}]
<1>2. Len(order) = n
  BY <1>1
<1>3. DOMAIN steps = D /\ Each(steps) = FlattenSeq(ss)
  BY <1>2 DEF Each
<1>3a. \A i \in 1..n : ss[i] \in Seq(X)
  BY <1>1
<1>4. ss \in Seq(Seq(X)) /\ Len(ss) = n /\ \A i \in 1..n : ss[i] \in Seq(X)
  BY <1>1, <1>3a
<1>4a. ss[p] = steps[g]
  BY <1>0
<1> HIDE DEF ss, n
<1>5. << >> \in I[0]
  BY <1>1
<1>6. ASSUME NEW m \in 0..(Len(ss) - 1), NEW a \in Seq(X), a \in I[m]
      PROVE  a \o ss[m + 1] \in I[m + 1]
  <2>1. m \in Nat /\ m + 1 \in 1..n
    BY <1>4, <1>1, <1>6
  <2>2. ss[m + 1] \in Seq(X) /\ a \o ss[m + 1] \in Seq(X)
    BY <2>1, <1>4
  <2>a. m + 1 \in Nat /\ I[m + 1] = {b \in Seq(X) : p <= m + 1 => \E i \in 1..Len(b) : b[i] = x}
    BY <2>1
  <2>b. I[m] = {b \in Seq(X) : p <= m => \E i \in 1..Len(b) : b[i] = x}
    BY <2>1
  <2> HIDE DEF I
  <2>3. SUFFICES ASSUME p <= m + 1
                 PROVE  \E i \in 1..Len(a \o ss[m + 1]) : (a \o ss[m + 1])[i] = x
    BY <2>a, <2>2
  <2>4. CASE p <= m
    <3>1. PICK i \in 1..Len(a) : a[i] = x
      BY <1>6, <2>4, <2>b
    <3> QED
      BY <3>1, <2>2
  <2>5. CASE p = m + 1
    <3>1. ss[m + 1] = steps[g] /\ k \in 1..Len(ss[m + 1]) /\ ss[m + 1][k] = x
      BY <2>5, <1>4a
    <3>2. Len(a) + k \in 1..Len(a \o ss[m + 1]) /\ (a \o ss[m + 1])[Len(a) + k] = ss[m + 1][k]
      BY <2>2, <3>1
    <3> QED
      BY <3>1, <3>2
  <2> QED
    BY <2>1, <2>3, <2>4, <2>5
<1> HIDE DEF I
<1>7. FlattenSeq(ss) \in I[Len(ss)]
  BY <1>4, <1>5, <1>6, FlattenInduction
<1>8. p <= n => \E i \in 1..Len(FlattenSeq(ss)) : FlattenSeq(ss)[i] = x
  BY <1>1, <1>7, <1>4 DEF I
<1> QED
  BY <1>0, <1>1, <1>3, <1>8

(* What is left of a list when some steps are dropped keeps its order. *)
LEMMA WithoutEmbeds ==
  ASSUME NEW X, NEW s \in Seq(X), NEW D
  PROVE  /\ Without(s, D) \in Seq(X)
         /\ \E place \in [1..Len(Without(s, D)) -> 1..Len(s)] :
              /\ \A i \in 1..Len(Without(s, D)) : Without(s, D)[i] = s[place[i]] /\ s[place[i]] \notin D
              /\ \A i, j \in 1..Len(Without(s, D)) : i < j => place[i] < place[j]
              /\ \A k \in 1..Len(s) : s[k] \notin D => \E i \in 1..Len(Without(s, D)) : place[i] = k
<1> DEFINE ss == [i \in 1..Len(s) |-> IF s[i] \in D THEN << >> ELSE <<s[i]>>]
           Good(m, a) ==
             \E place \in [1..Len(a) -> 1..m] :
              /\ \A i \in 1..Len(a) : a[i] = s[place[i]] /\ s[place[i]] \notin D
              /\ \A i, j \in 1..Len(a) : i < j => place[i] < place[j]
              /\ \A k \in 1..m : s[k] \notin D => \E i \in 1..Len(a) : place[i] = k
           I == [m \in Nat |-> {a \in Seq(X) : Good(m, a)}]
<1>1. ss \in Seq(Seq(X)) /\ Len(ss) = Len(s) /\ Without(s, D) = FlattenSeq(ss)
  BY DEF Without
<1>2. << >> \in I[0]
  <2>1. Good(0, << >>)
    <3> DEFINE none == [i \in 1..0 |-> 1]
               empty == << >>
    <3>1. none \in [1..0 -> 1..0] /\ Len(empty) = 0
      OBVIOUS
    <3>2. 1..0 = {}
      OBVIOUS
    <3> HIDE DEF none, empty
    <3>3. Good(0, empty)
      BY <3>1, <3>2
    <3> QED
      BY <3>3 DEF empty
  <2>2. << >> \in Seq(X)
    OBVIOUS
  <2> HIDE DEF Good
  <2> QED
    BY <2>1, <2>2
<1>3. ASSUME NEW m \in 0..(Len(ss) - 1), NEW a \in Seq(X), a \in I[m]
      PROVE  a \o ss[m + 1] \in I[m + 1]
  <2>1. m + 1 \in 1..Len(s) /\ m \in 0..Len(s) /\ m + 1 \in 0..Len(s) /\ m \in Nat
    BY <1>1
  <2>a. I[m] = {b \in Seq(X) : Good(m, b)} /\ I[m + 1] = {b \in Seq(X) : Good(m + 1, b)}
    <3> HIDE DEF Good
    <3> QED
      BY <2>1
  <2>b. Good(m, a)
    BY <1>3, <2>a
  <2> HIDE DEF I
  <2>2. PICK place \in [1..Len(a) -> 1..m] :
              /\ \A i \in 1..Len(a) : a[i] = s[place[i]] /\ s[place[i]] \notin D
              /\ \A i, j \in 1..Len(a) : i < j => place[i] < place[j]
              /\ \A k \in 1..m : s[k] \notin D => \E i \in 1..Len(a) : place[i] = k
    BY <2>b
  <2>3. CASE s[m + 1] \in D
    <3>1. ss[m + 1] = << >> /\ a \o ss[m + 1] = a
      BY <2>1, <2>3
    <3>2. place \in [1..Len(a) -> 1..(m + 1)]
      BY <2>1
    <3>3. \A k \in 1..(m + 1) : s[k] \notin D => \E i \in 1..Len(a) : place[i] = k
      <4>1. SUFFICES ASSUME NEW k \in 1..(m + 1), s[k] \notin D
                     PROVE  \E i \in 1..Len(a) : place[i] = k
        OBVIOUS
      <4>2. k \in 1..m
        BY <2>1, <2>3, <4>1
      <4> QED
        BY <2>2, <4>1, <4>2
    <3>4. Good(m + 1, a)
      BY <2>2, <3>2, <3>3
    <3> HIDE DEF Good, ss
    <3> QED
      BY <2>a, <3>1, <3>4
  <2>4. CASE s[m + 1] \notin D
    <3> DEFINE x == s[m + 1]
               b == a \o <<x>>
               there == [i \in 1..(Len(a) + 1) |-> IF i = Len(a) + 1 THEN m + 1 ELSE place[i]]
    <3>1. x \in X /\ ss[m + 1] = <<x>> /\ b \in Seq(X) /\ Len(b) = Len(a) + 1
      BY <2>1, <2>4
    <3>2. Len(a) \in Nat /\ \A i \in 1..Len(b) : b[i] = IF i = Len(a) + 1 THEN x ELSE a[i]
      <4>1. Len(a) \in Nat /\ <<x>> \in Seq(X) /\ Len(<<x>>) = 1 /\ <<x>>[1] = x
        BY <3>1
      <4>2. ASSUME NEW i \in 1..Len(b), i # Len(a) + 1
            PROVE  b[i] = a[i]
        <5>1. i \in 1..Len(a)
          BY <3>1, <4>1, <4>2
        <5> QED
          BY <4>1, <5>1
      <4>3. b[Len(a) + 1] = x
        BY <4>1
      <4> HIDE DEF b
      <4> QED
        BY <4>1, <4>2, <4>3
    <3>3. there \in [1..Len(b) -> 1..(m + 1)]
      BY <3>1, <3>2, <2>1
    <3>4. \A i \in 1..Len(b) : b[i] = s[there[i]] /\ s[there[i]] \notin D
      BY <3>1, <3>2, <2>2, <2>4
    <3>5. \A i, j \in 1..Len(b) : i < j => there[i] < there[j]
      <4>1. SUFFICES ASSUME NEW i \in 1..Len(b), NEW j \in 1..Len(b), i < j
                     PROVE  there[i] < there[j]
        OBVIOUS
      <4>a. i \in 1..Len(a) /\ i # Len(a) + 1
        BY <4>1, <3>1, <3>2
      <4>2. i \in 1..Len(a) /\ there[i] = place[i] /\ place[i] \in 1..m
        BY <4>a, <4>1, <3>1, <2>2
      <4>3. CASE j = Len(a) + 1
        BY <4>2, <4>3, <3>1, <3>2, <2>1
      <4>4. CASE j # Len(a) + 1
        <5>1. j \in 1..Len(a) /\ there[j] = place[j]
          BY <4>4, <3>1, <3>2
        <5> QED
          BY <5>1, <4>1, <4>2, <2>2
      <4> QED
        BY <4>3, <4>4
    <3>6. \A k \in 1..(m + 1) : s[k] \notin D => \E i \in 1..Len(b) : there[i] = k
      <4>1. SUFFICES ASSUME NEW k \in 1..(m + 1), s[k] \notin D
                     PROVE  \E i \in 1..Len(b) : there[i] = k
        OBVIOUS
      <4>2. CASE k = m + 1
        <5>1. Len(a) + 1 \in 1..Len(b) /\ there[Len(a) + 1] = m + 1
          BY <3>1, <3>2
        <5> QED
          BY <4>2, <5>1
      <4>3. CASE k # m + 1
        <5>1. PICK i \in 1..Len(a) : place[i] = k
          BY <4>1, <4>3, <2>1, <2>2
        <5>2. i \in 1..Len(b) /\ there[i] = place[i]
          BY <3>1, <3>2
        <5> QED
          BY <5>1, <5>2
      <4> QED
        BY <4>2, <4>3
    <3> HIDE DEF there
    <3>7. Good(m + 1, b)
      BY <3>3, <3>4, <3>5, <3>6
    <3> HIDE DEF Good, ss
    <3> QED
      BY <2>a, <3>1, <3>7
  <2> QED
    BY <2>3, <2>4
<1> HIDE DEF I
<1>4. FlattenSeq(ss) \in Seq(X) /\ FlattenSeq(ss) \in I[Len(ss)]
  BY <1>1, <1>2, <1>3, FlattenInduction
<1>5. Good(Len(s), Without(s, D))
  <2>1. Len(s) \in Nat
    OBVIOUS
  <2> HIDE DEF Good
  <2> QED
    BY <1>1, <1>4, <2>1 DEF I
<1> QED
  BY <1>1, <1>4, <1>5

(* Lists one after the other. *)
LEMMA Joined ==
  ASSUME NEW X, NEW a \in Seq(X), NEW b \in Seq(X)
  PROVE  /\ a \o b \in Seq(X) /\ Len(a \o b) = Len(a) + Len(b)
         /\ \A i \in 1..Len(a) : i \in 1..Len(a \o b) /\ (a \o b)[i] = a[i]
         /\ \A i \in 1..Len(b) : Len(a) + i \in 1..Len(a \o b) /\ (a \o b)[Len(a) + i] = b[i]
         /\ \A k \in 1..Len(a \o b) : k \in 1..Len(a) \/ \E i \in 1..Len(b) : k = Len(a) + i
<1>1. a \o b \in Seq(X) /\ Len(a \o b) = Len(a) + Len(b)
  OBVIOUS
<1>2. \A i \in 1..Len(a) : i \in 1..Len(a \o b) /\ (a \o b)[i] = a[i]
  OBVIOUS
<1>3. \A i \in 1..Len(b) : Len(a) + i \in 1..Len(a \o b) /\ (a \o b)[Len(a) + i] = b[i]
  OBVIOUS
<1>4. ASSUME NEW k \in 1..Len(a \o b), k \notin 1..Len(a)
      PROVE  \E i \in 1..Len(b) : k = Len(a) + i
  <2>1. k - Len(a) \in 1..Len(b) /\ k = Len(a) + (k - Len(a))
    BY <1>1, <1>4
  <2> QED
    BY <2>1
<1> QED
  BY <1>1, <1>2, <1>3, <1>4

(* What the parts of a list have the whole has.                             *)
LEMMA JoinedAll ==
  ASSUME NEW X, NEW a \in Seq(X), NEW b \in Seq(X), NEW names, NEW g
  PROVE  /\ Uses(a \o b, names) <=> Uses(a, names) /\ Uses(b, names)
         /\ Lacks(a \o b, names) <=> Lacks(a, names) /\ Lacks(b, names)
         /\ On(a \o b, names) <=> On(a, names) /\ On(b, names)
         /\ Only(a \o b, g, names) <=> Only(a, g, names) /\ Only(b, g, names)
         /\ Has(a \o b, g, names) <=> Has(a, g, names) \/ Has(b, g, names)
<1> DEFINE c == a \o b
<1>1. /\ \A i \in 1..Len(a) : i \in 1..Len(c) /\ c[i] = a[i]
      /\ \A i \in 1..Len(b) : Len(a) + i \in 1..Len(c) /\ c[Len(a) + i] = b[i]
      /\ \A k \in 1..Len(c) : k \in 1..Len(a) \/ \E i \in 1..Len(b) : k = Len(a) + i
  BY Joined
<1> HIDE DEF c
<1>2. Uses(c, names) <=> Uses(a, names) /\ Uses(b, names)
  BY <1>1 DEF Uses
<1>3. Lacks(c, names) <=> Lacks(a, names) /\ Lacks(b, names)
  BY <1>1 DEF Lacks
<1>4. On(c, names) <=> On(a, names) /\ On(b, names)
  BY <1>1 DEF On
<1>5. Only(c, g, names) <=> Only(a, g, names) /\ Only(b, g, names)
  BY <1>1 DEF Only
<1>6. ASSUME Has(c, g, names) PROVE Has(a, g, names) \/ Has(b, g, names)
  <2>1. PICK k \in 1..Len(c) : c[k].on = g /\ c[k].do \in names
    BY <1>6 DEF Has
  <2>2. CASE k \in 1..Len(a)
    BY <1>1, <2>1, <2>2 DEF Has
  <2>3. ASSUME NEW i \in 1..Len(b), k = Len(a) + i PROVE Has(b, g, names)
    BY <1>1, <2>1, <2>3 DEF Has
  <2> QED
    BY <1>1, <2>1, <2>2, <2>3
<1>7. Has(a, g, names) => Has(c, g, names)
  BY <1>1 DEF Has
<1>8. Has(b, g, names) => Has(c, g, names)
  BY <1>1 DEF Has
<1> QED
  BY <1>2, <1>3, <1>4, <1>5, <1>6, <1>7, <1>8 DEF c

(* A rule holds of a list joined of two, ...                                *)
LEMMA JoinedPrecedes ==
  ASSUME NEW X, NEW a \in Seq(X), NEW b \in Seq(X), NEW g, NEW first, NEW then,
         Precedes(a, g, first, then), Precedes(b, g, first, then) \/ Has(a, g, first)
  PROVE  Precedes(a \o b, g, first, then)
<1> DEFINE c == a \o b
<1>1. /\ \A i \in 1..Len(a) : i \in 1..Len(c) /\ c[i] = a[i]
      /\ \A i \in 1..Len(b) : Len(a) + i \in 1..Len(c) /\ c[Len(a) + i] = b[i]
      /\ \A k \in 1..Len(c) : k \in 1..Len(a) \/ \E i \in 1..Len(b) : k = Len(a) + i
  BY Joined
<1>2. Len(a) \in Nat /\ Len(b) \in Nat
  OBVIOUS
<1> HIDE DEF c
<1>3. SUFFICES ASSUME NEW j \in 1..Len(c), c[j].on = g, c[j].do \in then
               PROVE  \E i \in 1..Len(c) : i < j /\ c[i].on = g /\ c[i].do \in first
  BY DEF Precedes, c
<1>4. CASE j \in 1..Len(a)
  <2>1. PICK i \in 1..Len(a) : i < j /\ a[i].on = g /\ a[i].do \in first
    BY <1>1, <1>3, <1>4 DEF Precedes
  <2> QED
    BY <1>1, <2>1
<1>5. ASSUME NEW k \in 1..Len(b), j = Len(a) + k
      PROVE  \E i \in 1..Len(c) : i < j /\ c[i].on = g /\ c[i].do \in first
  <2>1. CASE Has(a, g, first)
    <3>1. PICK i \in 1..Len(a) : a[i].on = g /\ a[i].do \in first
      BY <2>1 DEF Has
    <3>2. i < j
      BY <1>2, <1>5
    <3> QED
      BY <1>1, <3>1, <3>2
  <2>2. CASE Precedes(b, g, first, then)
    <3>1. b[k].on = g /\ b[k].do \in then
      BY <1>1, <1>3, <1>5
    <3>2. PICK i \in 1..Len(b) : i < k /\ b[i].on = g /\ b[i].do \in first
      BY <2>2, <3>1 DEF Precedes
    <3>3. Len(a) + i < j
      BY <1>2, <1>5, <3>2
    <3> QED
      BY <1>1, <3>2, <3>3
  <2> QED
    BY <2>1, <2>2
<1> QED
  BY <1>1, <1>4, <1>5

(* ... and so does the chain.                                               *)
LEMMA JoinedChain ==
  ASSUME NEW X, NEW a \in Seq(X), NEW b \in Seq(X), Chained(a), Chained(b), Fresh(b)
  PROVE  Chained(a \o b) /\ (Fresh(a) => Fresh(a \o b))
<1> DEFINE c == a \o b
<1>1. /\ \A i \in 1..Len(a) : i \in 1..Len(c) /\ c[i] = a[i]
      /\ \A i \in 1..Len(b) : Len(a) + i \in 1..Len(c) /\ c[Len(a) + i] = b[i]
      /\ \A k \in 1..Len(c) : k \in 1..Len(a) \/ \E i \in 1..Len(b) : k = Len(a) + i
  BY Joined
<1>2. Len(a) \in Nat /\ Len(b) \in Nat /\ Len(c) = Len(a) + Len(b)
  BY Joined
<1> HIDE DEF c
<1>3. ASSUME NEW i \in 1..Len(c), NEW j \in 1..Len(c), j = i + 1
      PROVE  Leads(c[i], c[j])
  <2>1. CASE j \in 1..Len(a)
    <3>1. i \in 1..Len(a)
      BY <1>2, <1>3, <2>1
    <3>2. Leads(a[i], a[j])
      BY <1>3, <2>1, <3>1 DEF Chained
    <3> QED
      BY <1>1, <2>1, <3>1, <3>2
  <2>2. ASSUME NEW k \in 1..Len(b), j = Len(a) + k, k > 1
        PROVE  Leads(c[i], c[j])
    <3>1. k - 1 \in 1..Len(b) /\ k = (k - 1) + 1 /\ i = Len(a) + (k - 1)
      BY <1>2, <1>3, <2>2
    <3>2. Leads(b[k - 1], b[k])
      BY <3>1 DEF Chained
    <3> QED
      BY <1>1, <2>2, <3>1, <3>2
  <2>3. CASE j = Len(a) + 1 /\ 1 \in 1..Len(b)
    <3>1. i = Len(a) /\ i \in 1..Len(a)
      BY <1>2, <1>3, <2>3
    <3>2. c[i] = a[Len(a)] /\ c[j] = b[1]
      BY <1>1, <2>3, <3>1
    <3>3. a[Len(a)].do \notin Starters /\ b[1].do \notin Followers
      BY <1>2, <2>3, <3>1 DEF Chained, Fresh
    <3> QED
      BY <3>2, <3>3 DEF Leads, Starters, Followers
  <2>4. ASSUME NEW k \in 1..Len(b), j = Len(a) + k
        PROVE  Leads(c[i], c[j])
    BY <1>2, <2>2, <2>3, <2>4
  <2> QED
    BY <1>1, <2>1, <2>4
<1>4. Len(c) > 0 => c[Len(c)].do \notin Starters
  <2>1. CASE Len(b) = 0
    BY <1>1, <1>2, <2>1 DEF Chained
  <2>2. CASE Len(b) > 0
    <3>1. Len(b) \in 1..Len(b) /\ c[Len(c)] = b[Len(b)]
      BY <1>1, <1>2, <2>2
    <3> QED
      BY <2>2, <3>1 DEF Chained
  <2> QED
    BY <1>2, <2>1, <2>2
<1>5. Fresh(a) => Fresh(c)
  <2>1. CASE Len(a) = 0
    <3>1. Len(b) > 0 => 1 \in 1..Len(b) /\ Len(a) + 1 = 1 /\ c[1] = b[1]
      BY <1>1, <1>2, <2>1
    <3> QED
      BY <1>2, <2>1, <3>1 DEF Fresh
  <2>2. CASE Len(a) > 0
    <3>1. 1 \in 1..Len(a) /\ c[1] = a[1]
      BY <1>1, <1>2, <2>2
    <3> QED
      BY <2>2, <3>1 DEF Fresh
  <2> QED
    BY <1>2, <2>1, <2>2
<1> QED
  BY <1>3, <1>4, <1>5 DEF Chained, c

(* What is left after the first step. *)
LEMMA Rest ==
  ASSUME NEW X, NEW s \in Seq(X), s # << >>
  PROVE  /\ Tail(s) \in Seq(X) /\ Len(Tail(s)) = Len(s) - 1 /\ Len(s) \in Nat /\ Len(s) > 0
         /\ 1 \in 1..Len(s) /\ Head(s) = s[1] /\ s[1] \in X
         /\ \A i \in 1..Len(Tail(s)) : i + 1 \in 1..Len(s) /\ Tail(s)[i] = s[i + 1]
         /\ \A k \in 1..Len(s) : k = 1 \/ \E i \in 1..Len(Tail(s)) : k = i + 1
<1>1. /\ Tail(s) \in Seq(X) /\ Len(Tail(s)) = Len(s) - 1 /\ Len(s) \in Nat /\ Len(s) > 0
      /\ 1 \in 1..Len(s) /\ Head(s) = s[1] /\ s[1] \in X
  OBVIOUS
<1>2. \A i \in 1..Len(Tail(s)) : i + 1 \in 1..Len(s) /\ Tail(s)[i] = s[i + 1]
  BY <1>1
<1>3. ASSUME NEW k \in 1..Len(s), k # 1
      PROVE  \E i \in 1..Len(Tail(s)) : k = i + 1
  <2>1. k - 1 \in 1..Len(Tail(s)) /\ k = (k - 1) + 1
    BY <1>1, <1>3
  <2> QED
    BY <2>1
<1> QED
  BY <1>1, <1>2, <1>3

(* What a list has its rest has.                                            *)
LEMMA RestAll ==
  ASSUME NEW X, NEW s \in Seq(X), s # << >>, NEW names, NEW g
  PROVE  /\ Uses(s, names) => Uses(Tail(s), names) /\ s[1].do \in names
         /\ Lacks(s, names) => Lacks(Tail(s), names) /\ s[1].do \notin names
         /\ On(s, names) => On(Tail(s), names) /\ s[1].on \in names
         /\ Only(s, g, names) => Only(Tail(s), g, names) /\ (s[1].on = g => s[1].do \in names)
         /\ Has(s, g, names) => Has(Tail(s), g, names) \/ (s[1].on = g /\ s[1].do \in names)
         /\ Has(Tail(s), g, names) => Has(s, g, names)
<1> DEFINE r == Tail(s)
<1>1. /\ 1 \in 1..Len(s)
      /\ \A i \in 1..Len(r) : i + 1 \in 1..Len(s) /\ r[i] = s[i + 1]
      /\ \A k \in 1..Len(s) : k = 1 \/ \E i \in 1..Len(r) : k = i + 1
  BY Rest
<1> HIDE DEF r
<1>2. Uses(s, names) => Uses(r, names) /\ s[1].do \in names
  BY <1>1 DEF Uses
<1>3. Lacks(s, names) => Lacks(r, names) /\ s[1].do \notin names
  BY <1>1 DEF Lacks
<1>4. On(s, names) => On(r, names) /\ s[1].on \in names
  BY <1>1 DEF On
<1>5. Only(s, g, names) => Only(r, g, names) /\ (s[1].on = g => s[1].do \in names)
  BY <1>1 DEF Only
<1>6. Has(s, g, names) => Has(r, g, names) \/ (s[1].on = g /\ s[1].do \in names)
  BY <1>1 DEF Has
<1>7. Has(r, g, names) => Has(s, g, names)
  BY <1>1 DEF Has
<1> QED
  BY <1>2, <1>3, <1>4, <1>5, <1>6, <1>7 DEF r

(* A rule holds of the rest once its first step is not the one it needs.    *)
LEMMA RestPrecedes ==
  ASSUME NEW X, NEW s \in Seq(X), s # << >>, NEW g, NEW first, NEW then,
         Precedes(s, g, first, then)
  PROVE  /\ ~(s[1].on = g /\ s[1].do \in then)
         /\ s[1].on # g \/ s[1].do \notin first => Precedes(Tail(s), g, first, then)
<1> DEFINE r == Tail(s)
<1>1. /\ 1 \in 1..Len(s) /\ Len(s) \in Nat /\ Len(r) = Len(s) - 1
      /\ \A i \in 1..Len(r) : i + 1 \in 1..Len(s) /\ r[i] = s[i + 1]
      /\ \A k \in 1..Len(s) : k = 1 \/ \E i \in 1..Len(r) : k = i + 1
  BY Rest
<1> HIDE DEF r
<1>2. ~(s[1].on = g /\ s[1].do \in then)
  BY <1>1 DEF Precedes
<1>3. ASSUME s[1].on # g \/ s[1].do \notin first,
             NEW j \in 1..Len(r), r[j].on = g, r[j].do \in then
      PROVE  \E i \in 1..Len(r) : i < j /\ r[i].on = g /\ r[i].do \in first
  <2>1. PICK k \in 1..Len(s) : k < j + 1 /\ s[k].on = g /\ s[k].do \in first
    BY <1>1, <1>3 DEF Precedes
  <2>2. PICK i \in 1..Len(r) : k = i + 1
    BY <1>1, <1>3, <2>1
  <2>3. i < j
    BY <1>1, <2>1, <2>2
  <2> QED
    BY <1>1, <2>1, <2>2, <2>3
<1> QED
  BY <1>2, <1>3 DEF Precedes, r

(* The rest is chained, and what follows a step follows it at once.         *)
LEMMA RestChain ==
  ASSUME NEW X, NEW s \in Seq(X), s # << >>, Chained(s)
  PROVE  /\ Chained(Tail(s))
         /\ s[1].do \notin Leaders => Fresh(Tail(s))
         /\ Len(Tail(s)) > 0 => Leads(s[1], Tail(s)[1])
         /\ s[1].do \in Starters => Len(Tail(s)) > 0
<1> DEFINE r == Tail(s)
<1>1. /\ 1 \in 1..Len(s) /\ Len(s) \in Nat /\ Len(r) = Len(s) - 1
      /\ \A i \in 1..Len(r) : i + 1 \in 1..Len(s) /\ r[i] = s[i + 1]
  BY Rest
<1> HIDE DEF r
<1>2. ASSUME NEW i \in 1..Len(r), NEW j \in 1..Len(r), j = i + 1
      PROVE  Leads(r[i], r[j])
  <2>1. Leads(s[i + 1], s[j + 1])
    BY <1>1, <1>2 DEF Chained
  <2> QED
    BY <1>1, <2>1
<1>3. Len(r) > 0 => r[Len(r)].do \notin Starters
  <2>1. SUFFICES ASSUME Len(r) > 0 PROVE r[Len(r)].do \notin Starters
    OBVIOUS
  <2>2. Len(r) \in 1..Len(r) /\ Len(r) + 1 = Len(s)
    BY <1>1, <2>1
  <2> QED
    BY <1>1, <2>2 DEF Chained
<1>4. Len(r) > 0 => Leads(s[1], r[1])
  <2>1. SUFFICES ASSUME Len(r) > 0 PROVE Leads(s[1], r[1])
    OBVIOUS
  <2>2. 1 \in 1..Len(r) /\ 1 + 1 \in 1..Len(s) /\ r[1] = s[1 + 1]
    BY <1>1, <2>1
  <2> QED
    BY <1>1, <2>2 DEF Chained
<1>5. s[1].do \notin Leaders => Fresh(r)
  BY <1>4 DEF Fresh, Leads, Leaders, Followers
<1>6. s[1].do \in Starters => Len(r) > 0
  BY <1>1 DEF Chained
<1> QED
  BY <1>2, <1>3, <1>4, <1>5, <1>6 DEF Chained, r

(* What is left when some steps are dropped. *)
LEMMA WithoutAll ==
  ASSUME NEW X, NEW s \in Seq(X), NEW D, NEW names, NEW g
  PROVE  /\ Without(s, D) \in Seq(X)
         /\ Uses(s, names) => Uses(Without(s, D), names)
         /\ Lacks(s, names) => Lacks(Without(s, D), names)
         /\ On(s, names) => On(Without(s, D), names)
         /\ Only(s, g, names) => Only(Without(s, D), g, names)
         /\ Has(s, g, names) /\ (\A x \in D : x.on # g \/ x.do \notin names) =>
              Has(Without(s, D), g, names)
<1> DEFINE w == Without(s, D)
<1>1. w \in Seq(X)
  BY WithoutEmbeds
<1>2. PICK place \in [1..Len(w) -> 1..Len(s)] :
              /\ \A i \in 1..Len(w) : w[i] = s[place[i]] /\ s[place[i]] \notin D
              /\ \A k \in 1..Len(s) : s[k] \notin D => \E i \in 1..Len(w) : place[i] = k
  BY WithoutEmbeds
<1> HIDE DEF w
<1>3. Uses(s, names) => Uses(w, names)
  BY <1>2 DEF Uses
<1>4. Lacks(s, names) => Lacks(w, names)
  BY <1>2 DEF Lacks
<1>5. On(s, names) => On(w, names)
  BY <1>2 DEF On
<1>6. Only(s, g, names) => Only(w, g, names)
  BY <1>2 DEF Only
<1>7. ASSUME Has(s, g, names), \A x \in D : x.on # g \/ x.do \notin names
      PROVE  Has(w, g, names)
  <2>1. PICK k \in 1..Len(s) : s[k].on = g /\ s[k].do \in names
    BY <1>7 DEF Has
  <2>2. PICK i \in 1..Len(w) : place[i] = k
    BY <1>2, <1>7, <2>1
  <2> QED
    BY <1>2, <2>1, <2>2 DEF Has
<1> QED
  BY <1>1, <1>3, <1>4, <1>5, <1>6, <1>7 DEF w

(* A rule survives if nothing it needs is taken out, ...                    *)
LEMMA WithoutPrecedes ==
  ASSUME NEW X, NEW s \in Seq(X), NEW D, NEW g, NEW first, NEW then,
         Precedes(s, g, first, then), \A x \in D : x.on # g \/ x.do \notin first
  PROVE  Precedes(Without(s, D), g, first, then)
<1> DEFINE w == Without(s, D)
<1>1. PICK place \in [1..Len(w) -> 1..Len(s)] :
              /\ \A i \in 1..Len(w) : w[i] = s[place[i]] /\ s[place[i]] \notin D
              /\ \A i, j \in 1..Len(w) : i < j => place[i] < place[j]
              /\ \A k \in 1..Len(s) : s[k] \notin D => \E i \in 1..Len(w) : place[i] = k
  BY WithoutEmbeds
<1>0. w \in Seq(X)
  BY WithoutEmbeds
<1>2. Len(w) \in Nat /\ Len(s) \in Nat
  BY <1>0
<1> HIDE DEF w
<1>3. SUFFICES ASSUME NEW j \in 1..Len(w), w[j].on = g, w[j].do \in then
               PROVE  \E i \in 1..Len(w) : i < j /\ w[i].on = g /\ w[i].do \in first
  BY DEF Precedes, w
<1>4. PICK k \in 1..Len(s) : k < place[j] /\ s[k].on = g /\ s[k].do \in first
  BY <1>1, <1>3 DEF Precedes
<1>5. PICK i \in 1..Len(w) : place[i] = k
  BY <1>1, <1>4
<1>6. i < j
  <2>1. ~(j < i) /\ i # j
    BY <1>1, <1>2, <1>4, <1>5
  <2> QED
    BY <1>2, <2>1
<1> QED
  BY <1>1, <1>4, <1>5, <1>6

(* ... and so does the chain if no links are broken.                        *)
LEMMA WithoutChain ==
  ASSUME NEW X, NEW s \in Seq(X), NEW D, Chained(s), Len(s) > 0 => s[1].do \notin Followers
         \/ s[1] \in D,
         \A i, j \in 1..Len(s) : j = i + 1 /\ (s[j].do \in Followers \/ s[i].do \in Starters) =>
           (s[i] \in D <=> s[j] \in D)
  PROVE  Chained(Without(s, D)) /\ Fresh(Without(s, D))
<1> DEFINE w == Without(s, D)
<1>1. PICK place \in [1..Len(w) -> 1..Len(s)] :
              /\ \A i \in 1..Len(w) : w[i] = s[place[i]] /\ s[place[i]] \notin D
              /\ \A i, j \in 1..Len(w) : i < j => place[i] < place[j]
              /\ \A k \in 1..Len(s) : s[k] \notin D => \E i \in 1..Len(w) : place[i] = k
  BY WithoutEmbeds
<1>0. w \in Seq(X)
  BY WithoutEmbeds
<1>2. Len(w) \in Nat /\ Len(s) \in Nat
  BY <1>0
<1> HIDE DEF w
<1>a. \A i \in 1..Len(w) : place[i] \in Nat
  BY <1>1, <1>2
<1>3. ASSUME NEW j \in 1..Len(w), w[j].do \in Followers
      PROVE  \E i \in 1..Len(w) : j = i + 1 /\ place[j] = place[i] + 1
  <2>1. place[j] # 1
    BY <1>1, <1>2, <1>3
  <2>2. place[j] - 1 \in 1..Len(s) /\ place[j] = (place[j] - 1) + 1
    BY <1>1, <1>2, <2>1
  <2>3. s[place[j] - 1] \notin D
    BY <1>1, <1>3, <2>2
  <2>4. PICK i \in 1..Len(w) : place[i] = place[j] - 1
    BY <1>1, <2>2, <2>3
  <2>5. i < j
    BY <1>1, <1>2, <2>2, <2>4
  <2>6. ~(i + 1 < j)
    <3>1. SUFFICES ASSUME i + 1 < j PROVE FALSE
      OBVIOUS
    <3>2. i + 1 \in 1..Len(w) /\ i < i + 1
      BY <1>2, <3>1
    <3>3. place[i] < place[i + 1] /\ place[i + 1] < place[j]
      BY <1>1, <3>1, <3>2
    <3>4. place[i] \in Nat /\ place[i + 1] \in Nat /\ place[j] \in Nat
      BY <1>a, <3>2
    <3> QED
      BY <2>4, <3>3, <3>4
  <2>7. j = i + 1
    BY <1>2, <2>5, <2>6
  <2> QED
    BY <2>2, <2>4, <2>7
<1>4. ASSUME NEW i \in 1..Len(w), w[i].do \in Starters
      PROVE  \E j \in 1..Len(w) : j = i + 1 /\ place[j] = place[i] + 1
  <2>1. place[i] # Len(s)
    BY <1>1, <1>2, <1>4 DEF Chained
  <2>2. place[i] + 1 \in 1..Len(s)
    BY <1>1, <1>2, <2>1
  <2>3. s[place[i] + 1] \notin D
    BY <1>1, <1>4, <2>2
  <2>4. PICK j \in 1..Len(w) : place[j] = place[i] + 1
    BY <1>1, <2>2, <2>3
  <2>5. i < j
    <3>1. ~(j < i) /\ i # j
      BY <1>1, <1>a, <2>4
    <3> QED
      BY <1>2, <3>1
  <2>6. ~(i + 1 < j)
    <3>1. SUFFICES ASSUME i + 1 < j PROVE FALSE
      OBVIOUS
    <3>2. i + 1 \in 1..Len(w) /\ i < i + 1
      BY <1>2, <3>1
    <3>3. place[i] < place[i + 1] /\ place[i + 1] < place[j]
      BY <1>1, <3>1, <3>2
    <3>4. place[i] \in Nat /\ place[i + 1] \in Nat /\ place[j] \in Nat
      BY <1>a, <3>2
    <3> QED
      BY <2>4, <3>3, <3>4
  <2>7. j = i + 1
    BY <1>2, <2>5, <2>6
  <2> QED
    BY <2>4, <2>7
<1>5. ASSUME NEW i \in 1..Len(w), NEW j \in 1..Len(w), j = i + 1
      PROVE  Leads(w[i], w[j])
  <2>1. CASE w[j].do \in Followers \/ w[i].do \in Starters
    <3>1. place[j] = place[i] + 1
      BY <1>2, <1>3, <1>4, <1>5, <2>1
    <3>2. Leads(s[place[i]], s[place[j]])
      BY <1>1, <3>1 DEF Chained
    <3> QED
      BY <1>1, <3>2
  <2>2. CASE ~(w[j].do \in Followers \/ w[i].do \in Starters)
    BY <2>2 DEF Leads, Followers, Starters
  <2> QED
    BY <2>1, <2>2
<1>6. ASSUME Len(w) > 0 PROVE w[Len(w)].do \notin Starters /\ w[1].do \notin Followers
  <2>1. Len(w) \in 1..Len(w) /\ 1 \in 1..Len(w)
    BY <1>2, <1>6
  <2> QED
    BY <1>2, <1>3, <1>4, <2>1
<1> QED
  BY <1>5, <1>6 DEF Chained, Fresh, w

-----------------------------------------------------------------------------
(* The rules that the lists of steps keep.                                  *)

(* The steps of _stop                                                       *)
StopNames == {"bump", "halt", "list", "release", "halted"}
(* The operations that arm groups                                           *)
Arming == {"enable", "resume", "recover", "recover_resource", "profile"}
(* The calls that bring a group closer to moving                            *)
Critical == {"arm", "start", "run"}
(* They, and the assignment of Armed                                        *)
Rising == {"arm", "armed", "start", "run"}
(* The steps of a transaction                                               *)
Recording == {"transact", "write", "close", "roll_back"}
(* The operations that an exception ends, or leaves no stop behind          *)
Dropping == {"shutdown"} \cup Maintenance
(* The steps that take the component down for all groups at once            *)
Teardown == {"to_unconfigured", "unconfigured"}

(* Whoever raises g has looked for late calls before,                       *)
Settles(s, g) == Precedes(s, g, {"settled", "arm_unless_armed"}, Rising)
(* and for an unresolved journal;                                           *)
Resolves(s, g) == Precedes(s, g, {"may_acknowledge", "unless_armed"}, Rising \cup {"arm_unless_armed"})
(* a transaction on g comes after a stop of it,                             *)
HaltsFor(s, g) == Precedes(s, g, {"halted"}, {"transact"})
(* and nothing is written before the journal is.                            *)
RecordsFor(s, g) == Precedes(s, g, {"transact"}, {"write", "close", "roll_back"})
(* The rules a list of steps keeps for g                                    *)
Ruled(s, g) == Settles(s, g) /\ Resolves(s, g) /\ HaltsFor(s, g) /\ RecordsFor(s, g)

(* The steps the rules are about                                            *)
Sensitive == Rising \cup Recording \cup {"arm_unless_armed"}

(* A list that has none of the later steps keeps the rule, ...              *)
LEMMA Idle ==
  ASSUME NEW s, NEW g, NEW first, NEW then, \A i \in 1..Len(s) : s[i].on = g => s[i].do \notin then
  PROVE  Precedes(s, g, first, then)
  BY DEF Precedes

(* ... and so does one without sensitive steps, ...                         *)
LEMMA TameRuled ==
  ASSUME NEW s, NEW g, Lacks(s, Sensitive)
  PROVE  Ruled(s, g)
  BY Idle
  DEF Ruled, Settles, Resolves, HaltsFor, RecordsFor, Lacks, Sensitive, Rising, Recording

(* ... and one that is for other groups.                                    *)
LEMMA AbsentRuled ==
  ASSUME NEW s, NEW g, NEW gs, On(s, gs), g \notin gs
  PROVE  Ruled(s, g)
  BY Idle DEF Ruled, Settles, Resolves, HaltsFor, RecordsFor, On

(* The steps of a list of names *)
LEMMA StepsFacts ==
  ASSUME NEW names \in Seq(Names), NEW g \in Groups \cup {"all"}
  PROVE  /\ Steps(names, g) \in Seq(Plans) /\ Len(Steps(names, g)) = Len(names)
         /\ \A i \in 1..Len(names) : Steps(names, g)[i].do = names[i] /\ Steps(names, g)[i].on = g
  BY DEF Steps, Step, Plans

(* What is so of all the names is so of the steps.                          *)
LEMMA StepsSet ==
  ASSUME NEW names \in Seq(Names), NEW g \in Groups \cup {"all"}, NEW set
  PROVE  /\ On(Steps(names, g), {g})
         /\ (\A i \in 1..Len(names) : names[i] \notin set) => Lacks(Steps(names, g), set)
         /\ (\A i \in 1..Len(names) : names[i] \in set) => Uses(Steps(names, g), set)
         /\ (\E i \in 1..Len(names) : names[i] \in set) => Has(Steps(names, g), g, set)
<1> DEFINE s == Steps(names, g)
<1>1. /\ Len(s) = Len(names)
      /\ \A i \in 1..Len(names) : s[i].do = names[i] /\ s[i].on = g
  BY StepsFacts
<1> HIDE DEF s
<1> QED
  <2>1. On(s, {g})
    BY <1>1 DEF On
  <2>2. (\A i \in 1..Len(names) : names[i] \notin set) => Lacks(s, set)
    BY <1>1 DEF Lacks
  <2>3. (\A i \in 1..Len(names) : names[i] \in set) => Uses(s, set)
    BY <1>1 DEF Uses
  <2>4. (\E i \in 1..Len(names) : names[i] \in set) => Has(s, g, set)
    BY <1>1 DEF Has
  <2> QED
    BY <2>1, <2>2, <2>3, <2>4 DEF s

(* A list of names is chained if the names follow each other.               *)
LEMMA StepsChain ==
  ASSUME NEW names \in Seq(Names), NEW g \in Groups \cup {"all"},
         \A i, j \in 1..Len(names) : j = i + 1 =>
            Leads([do |-> names[i], on |-> g], [do |-> names[j], on |-> g]),
         Len(names) > 0 => names[Len(names)] \notin Starters /\ names[1] \notin Followers
  PROVE  Chained(Steps(names, g)) /\ Fresh(Steps(names, g))
<1> DEFINE s == Steps(names, g)
<1>1. /\ Len(s) = Len(names) /\ Len(names) \in Nat
      /\ \A i \in 1..Len(names) : s[i].do = names[i] /\ s[i].on = g
  BY StepsFacts
<1> HIDE DEF s
<1>2. ASSUME NEW i \in 1..Len(names), NEW j \in 1..Len(names), j = i + 1 PROVE Leads(s[i], s[j])
  <2>1. Leads([do |-> names[i], on |-> g], [do |-> names[j], on |-> g])
    BY <1>2
  <2> QED
    BY <1>1, <2>1 DEF Leads
<1>3. Len(s) > 0 => s[Len(s)].do \notin Starters /\ s[1].do \notin Followers
  BY <1>1
<1> QED
  BY <1>1, <1>2, <1>3 DEF Chained, Fresh, s

(* One list for each group *)
LEMMA EachAll ==
  ASSUME NEW D, IsFiniteSet(D), NEW steps \in [D -> Seq(Plans)], NEW names
  PROVE  /\ Each(steps) \in Seq(Plans)
         /\ (\A h \in D : Uses(steps[h], names)) => Uses(Each(steps), names)
         /\ (\A h \in D : Lacks(steps[h], names)) => Lacks(Each(steps), names)
         /\ (\A h \in D : On(steps[h], names)) => On(Each(steps), names)
<1>1. << >> \in Seq(Plans) /\ \A a, b \in Seq(Plans) : a \o b \in Seq(Plans)
  OBVIOUS
<1>2. Each(steps) \in Seq(Plans)
  <2> DEFINE C == Seq(Plans)
  <2>1. << >> \in C /\ (\A a, b \in C : a \in Seq(Plans) /\ b \in Seq(Plans) => a \o b \in C)
        /\ \A h \in D : steps[h] \in C
    BY <1>1
  <2> HIDE DEF C
  <2> QED
    BY <2>1, EachIn
<1>3. ASSUME \A h \in D : Uses(steps[h], names) PROVE Uses(Each(steps), names)
  <2> DEFINE C == {s \in Seq(Plans) : Uses(s, names)}
  <2>1. << >> \in C
    BY <1>1 DEF Uses
  <2>2. \A a, b \in C : a \in Seq(Plans) /\ b \in Seq(Plans) => a \o b \in C
    BY <1>1, JoinedAll
  <2>3. \A h \in D : steps[h] \in C
    BY <1>3
  <2> HIDE DEF C
  <2>4. Each(steps) \in C
    BY <2>1, <2>2, <2>3, EachIn
  <2> QED
    BY <2>4 DEF C
<1>4. ASSUME \A h \in D : Lacks(steps[h], names) PROVE Lacks(Each(steps), names)
  <2> DEFINE C == {s \in Seq(Plans) : Lacks(s, names)}
  <2>1. << >> \in C
    BY <1>1 DEF Lacks
  <2>2. \A a, b \in C : a \in Seq(Plans) /\ b \in Seq(Plans) => a \o b \in C
    BY <1>1, JoinedAll
  <2>3. \A h \in D : steps[h] \in C
    BY <1>4
  <2> HIDE DEF C
  <2>4. Each(steps) \in C
    BY <2>1, <2>2, <2>3, EachIn
  <2> QED
    BY <2>4 DEF C
<1>5. ASSUME \A h \in D : On(steps[h], names) PROVE On(Each(steps), names)
  <2> DEFINE C == {s \in Seq(Plans) : On(s, names)}
  <2>1. << >> \in C
    BY <1>1 DEF On
  <2>2. \A a, b \in C : a \in Seq(Plans) /\ b \in Seq(Plans) => a \o b \in C
    BY <1>1, JoinedAll
  <2>3. \A h \in D : steps[h] \in C
    BY <1>5
  <2> HIDE DEF C
  <2>4. Each(steps) \in C
    BY <2>1, <2>2, <2>3, EachIn
  <2> QED
    BY <2>4 DEF C
<1> QED
  BY <1>2, <1>3, <1>4, <1>5

(* A rule that all blocks keep a phase keeps.                               *)
LEMMA EachPrecedes ==
  ASSUME NEW D, IsFiniteSet(D), NEW steps \in [D -> Seq(Plans)], NEW g, NEW first, NEW then,
         \A h \in D : Precedes(steps[h], g, first, then)
  PROVE  Precedes(Each(steps), g, first, then)
<1> DEFINE C == {s \in Seq(Plans) : Precedes(s, g, first, then)}
<1>1. << >> \in C
  BY DEF Precedes
<1>2. \A a, b \in C : a \in Seq(Plans) /\ b \in Seq(Plans) => a \o b \in C
  <2>1. SUFFICES ASSUME NEW a \in C, NEW b \in C PROVE a \o b \in C
    OBVIOUS
  <2>2. a \in Seq(Plans) /\ b \in Seq(Plans) /\ a \o b \in Seq(Plans)
        /\ Precedes(a, g, first, then) /\ Precedes(b, g, first, then)
    OBVIOUS
  <2>3. Precedes(a \o b, g, first, then)
    BY <2>2, JoinedPrecedes
  <2> QED
    BY <2>2, <2>3
<1>3. \A h \in D : steps[h] \in C
  OBVIOUS
<1> HIDE DEF C
<1>4. Each(steps) \in C
  BY <1>1, <1>2, <1>3, EachIn
<1> QED
  BY <1>4 DEF C

(* Chained blocks make a chained phase.                                     *)
LEMMA EachChain ==
  ASSUME NEW D, IsFiniteSet(D), NEW steps \in [D -> Seq(Plans)],
         \A h \in D : Chained(steps[h]) /\ Fresh(steps[h])
  PROVE  Chained(Each(steps)) /\ Fresh(Each(steps))
<1> DEFINE C == {s \in Seq(Plans) : Chained(s) /\ Fresh(s)}
<1>1. << >> \in C
  BY DEF Chained, Fresh
<1>2. \A a, b \in C : a \in Seq(Plans) /\ b \in Seq(Plans) => a \o b \in C
  <2>1. SUFFICES ASSUME NEW a \in C, NEW b \in C PROVE a \o b \in C
    OBVIOUS
  <2>2. a \in Seq(Plans) /\ b \in Seq(Plans) /\ a \o b \in Seq(Plans)
        /\ Chained(a) /\ Fresh(a) /\ Chained(b) /\ Fresh(b)
    OBVIOUS
  <2>3. Chained(a \o b) /\ Fresh(a \o b)
    BY <2>2, JoinedChain
  <2> QED
    BY <2>2, <2>3
<1>3. \A h \in D : steps[h] \in C
  OBVIOUS
<1> HIDE DEF C
<1>4. Each(steps) \in C
  BY <1>1, <1>2, <1>3, EachIn
<1> QED
  BY <1>4 DEF C

(* A phase has what its blocks have.                                        *)
LEMMA EachReaches ==
  ASSUME NEW D, IsFiniteSet(D), NEW steps \in [D -> Seq(Plans)], NEW h \in D, NEW g, NEW names,
         Has(steps[h], g, names)
  PROVE  Has(Each(steps), g, names)
<1>1. PICK k \in 1..Len(steps[h]) : steps[h][k].on = g /\ steps[h][k].do \in names
  BY DEF Has
<1>2. PICK i \in 1..Len(Each(steps)) : Each(steps)[i] = steps[h][k]
  BY EachHas
<1> QED
  BY <1>1, <1>2 DEF Has

-----------------------------------------------------------------------------
(* The blocks, the phases and the programs.                                 *)

(* The blocks: _stop, ...                                                   *)
LEMMA StopBlock ==
  ASSUME NEW g \in Groups
  PROVE  /\ Stop(g) \in Seq(Plans) /\ Chained(Stop(g)) /\ Fresh(Stop(g)) /\ On(Stop(g), {g})
         /\ Uses(Stop(g), {"bump", "halt", "list", "halted"})
         /\ Len(Stop(g)) = 4
         /\ \A i \in 1..4 : Stop(g)[i].do = <<"bump", "halt", "list", "halted">>[i] /\ Stop(g)[i].on = g
<1> DEFINE names == <<"bump", "halt", "list", "halted">>
<1>1. names \in Seq(Names) /\ Len(names) = 4 /\ names[1] = "bump" /\ names[2] = "halt"
      /\ names[3] = "list" /\ names[4] = "halted"
  <2>1. {"bump", "halt", "list", "halted"} \subseteq Names
    BY DEF Names, Mutations, Lifecycle, Reads, Checked, Assigned, Others
  <2> QED
    BY <2>1
<1>2. Stop(g) = Steps(names, g)
  BY DEF Stop
<1> HIDE DEF names
<1>3. \A i \in 1..Len(names) : names[i] \in {"bump", "halt", "list", "halted"}
  BY <1>1
<1>4. \A i, j \in 1..Len(names) : j = i + 1 =>
            Leads([do |-> names[i], on |-> g], [do |-> names[j], on |-> g])
  BY <1>1 DEF Leads, Followers, Starters
<1>5. Chained(Stop(g)) /\ Fresh(Stop(g))
  BY <1>1, <1>2, <1>4, StepsChain DEF Followers, Starters
<1>6. On(Stop(g), {g}) /\ Uses(Stop(g), {"bump", "halt", "list", "halted"})
  BY <1>1, <1>2, <1>3, StepsSet
<1> QED
  <2>1. g \in Groups \cup {"all"} /\ Len(names) = 4
    BY <1>1
  <2>2. /\ Steps(names, g) \in Seq(Plans) /\ Len(Steps(names, g)) = 4
        /\ \A i \in 1..4 : Steps(names, g)[i].do = names[i] /\ Steps(names, g)[i].on = g
    BY <1>1, <2>1, StepsFacts
  <2> QED
    BY <1>2, <1>5, <1>6, <2>2 DEF names

(* ... _init, ...                                                           *)
LEMMA InitGroupBlock ==
  ASSUME NEW g \in Groups
  PROVE  /\ InitGroup(g) \in Seq(Plans) /\ Chained(InitGroup(g)) /\ Fresh(InitGroup(g))
               /\ On(InitGroup(g), {g})
         /\ Uses(InitGroup(g), {"may_init", "to_inactive", "initialize", "verify", "initialized"})
         /\ Len(InitGroup(g)) = 5
         /\ \A i \in 1..5 : InitGroup(g)[i].do = <<"may_init", "to_inactive", "initialize",
               "verify", "initialized">>[i] /\ InitGroup(g)[i].on = g
<1> DEFINE names == <<"may_init", "to_inactive", "initialize", "verify", "initialized">>
<1>1. names \in Seq(Names) /\ Len(names) = 5 /\ names[1] = "may_init"
      /\ names[2] = "to_inactive" /\ names[3] = "initialize" /\ names[4] = "verify"
      /\ names[5] = "initialized"
  <2>1. {"may_init", "to_inactive", "initialize", "verify", "initialized"} \subseteq Names
    BY DEF Names, Mutations, Lifecycle, Reads, Checked, Assigned, Others
  <2> QED
    BY <2>1
<1>2. InitGroup(g) = Steps(names, g)
  BY DEF InitGroup
<1> HIDE DEF names
<1>3. \A i \in 1..Len(names) : names[i] \in {"may_init", "to_inactive", "initialize", "verify",
      "initialized"}
  BY <1>1
<1>4. \A i, j \in 1..Len(names) : j = i + 1 =>
            Leads([do |-> names[i], on |-> g], [do |-> names[j], on |-> g])
  BY <1>1 DEF Leads, Followers, Starters
<1>5. Chained(InitGroup(g)) /\ Fresh(InitGroup(g))
  BY <1>1, <1>2, <1>4, StepsChain DEF Followers, Starters
<1>6. On(InitGroup(g), {g}) /\ Uses(InitGroup(g), {"may_init", "to_inactive", "initialize",
      "verify", "initialized"})
  BY <1>1, <1>2, <1>3, StepsSet
<1> QED
  <2>1. g \in Groups \cup {"all"} /\ Len(names) = 5
    BY <1>1
  <2>2. /\ Steps(names, g) \in Seq(Plans) /\ Len(Steps(names, g)) = 5
        /\ \A i \in 1..5 : Steps(names, g)[i].do = names[i] /\ Steps(names, g)[i].on = g
    BY <1>1, <2>1, StepsFacts
  <2> QED
    BY <1>2, <1>5, <1>6, <2>2 DEF names

(* ... _prepare, ...                                                        *)
LEMMA PrepareBlock ==
  ASSUME NEW g \in Groups
  PROVE  /\ Prepare(g) \in Seq(Plans) /\ Chained(Prepare(g)) /\ Fresh(Prepare(g)) /\ On(Prepare(g), {g})
         /\ Uses(Prepare(g), {"may_prepare", "lingering", "to_active", "prepare", "ready"})
         /\ Len(Prepare(g)) = 5
         /\ \A i \in 1..5 : Prepare(g)[i].do = <<"may_prepare", "lingering", "to_active",
               "prepare", "ready">>[i] /\ Prepare(g)[i].on = g
<1> DEFINE names == <<"may_prepare", "lingering", "to_active", "prepare", "ready">>
<1>1. names \in Seq(Names) /\ Len(names) = 5 /\ names[1] = "may_prepare"
      /\ names[2] = "lingering" /\ names[3] = "to_active" /\ names[4] = "prepare"
      /\ names[5] = "ready"
  <2>1. {"may_prepare", "lingering", "to_active", "prepare", "ready"} \subseteq Names
    BY DEF Names, Mutations, Lifecycle, Reads, Checked, Assigned, Others
  <2> QED
    BY <2>1
<1>2. Prepare(g) = Steps(names, g)
  BY DEF Prepare
<1> HIDE DEF names
<1>3. \A i \in 1..Len(names) : names[i] \in {"may_prepare", "lingering", "to_active", "prepare",
      "ready"}
  BY <1>1
<1>4. \A i, j \in 1..Len(names) : j = i + 1 =>
            Leads([do |-> names[i], on |-> g], [do |-> names[j], on |-> g])
  BY <1>1 DEF Leads, Followers, Starters
<1>5. Chained(Prepare(g)) /\ Fresh(Prepare(g))
  BY <1>1, <1>2, <1>4, StepsChain DEF Followers, Starters
<1>6. On(Prepare(g), {g}) /\ Uses(Prepare(g), {"may_prepare", "lingering", "to_active",
      "prepare", "ready"})
  BY <1>1, <1>2, <1>3, StepsSet
<1> QED
  <2>1. g \in Groups \cup {"all"} /\ Len(names) = 5
    BY <1>1
  <2>2. /\ Steps(names, g) \in Seq(Plans) /\ Len(Steps(names, g)) = 5
        /\ \A i \in 1..5 : Steps(names, g)[i].do = names[i] /\ Steps(names, g)[i].on = g
    BY <1>1, <2>1, StepsFacts
  <2> QED
    BY <1>2, <1>5, <1>6, <2>2 DEF names

(* ... _acknowledge, ...                                                    *)
LEMMA AcknowledgeBlock ==
  ASSUME NEW g \in Groups
  PROVE  /\ Acknowledge(g) \in Seq(Plans) /\ Chained(Acknowledge(g)) /\ Fresh(Acknowledge(g))
               /\ On(Acknowledge(g), {g})
         /\ Uses(Acknowledge(g), {"may_acknowledge", "maintenance_clear", "acknowledge"})
         /\ Len(Acknowledge(g)) = 3
         /\ \A i \in 1..3 : Acknowledge(g)[i].do = <<"may_acknowledge", "maintenance_clear",
               "acknowledge">>[i] /\ Acknowledge(g)[i].on = g
<1> DEFINE names == <<"may_acknowledge", "maintenance_clear", "acknowledge">>
<1>1. names \in Seq(Names) /\ Len(names) = 3 /\ names[1] = "may_acknowledge"
      /\ names[2] = "maintenance_clear" /\ names[3] = "acknowledge"
  <2>1. {"may_acknowledge", "maintenance_clear", "acknowledge"} \subseteq Names
    BY DEF Names, Mutations, Lifecycle, Reads, Checked, Assigned, Others
  <2> QED
    BY <2>1
<1>2. Acknowledge(g) = Steps(names, g)
  BY DEF Acknowledge
<1> HIDE DEF names
<1>3. \A i \in 1..Len(names) : names[i] \in {"may_acknowledge", "maintenance_clear", "acknowledge"}
  BY <1>1
<1>4. \A i, j \in 1..Len(names) : j = i + 1 =>
            Leads([do |-> names[i], on |-> g], [do |-> names[j], on |-> g])
  BY <1>1 DEF Leads, Followers, Starters
<1>5. Chained(Acknowledge(g)) /\ Fresh(Acknowledge(g))
  BY <1>1, <1>2, <1>4, StepsChain DEF Followers, Starters
<1>6. On(Acknowledge(g), {g}) /\ Uses(Acknowledge(g), {"may_acknowledge", "maintenance_clear",
      "acknowledge"})
  BY <1>1, <1>2, <1>3, StepsSet
<1> QED
  <2>1. g \in Groups \cup {"all"} /\ Len(names) = 3
    BY <1>1
  <2>2. /\ Steps(names, g) \in Seq(Plans) /\ Len(Steps(names, g)) = 3
        /\ \A i \in 1..3 : Steps(names, g)[i].do = names[i] /\ Steps(names, g)[i].on = g
    BY <1>1, <2>1, StepsFacts
  <2> QED
    BY <1>2, <1>5, <1>6, <2>2 DEF names

(* ... _arm, ...                                                            *)
LEMMA ArmBlock ==
  ASSUME NEW g \in Groups
  PROVE  /\ Arm(g) \in Seq(Plans) /\ Chained(Arm(g)) /\ Fresh(Arm(g)) /\ On(Arm(g), {g})
         /\ Uses(Arm(g), {"settled", "arm", "armed"})
         /\ Len(Arm(g)) = 3
         /\ \A i \in 1..3 : Arm(g)[i].do = <<"settled", "arm", "armed">>[i] /\ Arm(g)[i].on = g
<1> DEFINE names == <<"settled", "arm", "armed">>
<1>1. names \in Seq(Names) /\ Len(names) = 3 /\ names[1] = "settled" /\ names[2] = "arm"
      /\ names[3] = "armed"
  <2>1. {"settled", "arm", "armed"} \subseteq Names
    BY DEF Names, Mutations, Lifecycle, Reads, Checked, Assigned, Others
  <2> QED
    BY <2>1
<1>2. Arm(g) = Steps(names, g)
  BY DEF Arm
<1> HIDE DEF names
<1>3. \A i \in 1..Len(names) : names[i] \in {"settled", "arm", "armed"}
  BY <1>1
<1>4. \A i, j \in 1..Len(names) : j = i + 1 =>
            Leads([do |-> names[i], on |-> g], [do |-> names[j], on |-> g])
  BY <1>1 DEF Leads, Followers, Starters
<1>5. Chained(Arm(g)) /\ Fresh(Arm(g))
  BY <1>1, <1>2, <1>4, StepsChain DEF Followers, Starters
<1>6. On(Arm(g), {g}) /\ Uses(Arm(g), {"settled", "arm", "armed"})
  BY <1>1, <1>2, <1>3, StepsSet
<1> QED
  <2>1. g \in Groups \cup {"all"} /\ Len(names) = 3
    BY <1>1
  <2>2. /\ Steps(names, g) \in Seq(Plans) /\ Len(Steps(names, g)) = 3
        /\ \A i \in 1..3 : Steps(names, g)[i].do = names[i] /\ Steps(names, g)[i].on = g
    BY <1>1, <2>1, StepsFacts
  <2> QED
    BY <1>2, <1>5, <1>6, <2>2 DEF names

(* ... the start of the controllers, ...                                    *)
LEMMA StartBlock ==
  ASSUME NEW g \in Groups
  PROVE  /\ Start(g) \in Seq(Plans) /\ Chained(Start(g)) /\ Fresh(Start(g)) /\ On(Start(g), {g})
         /\ Uses(Start(g), {"start", "run", "running"})
         /\ Len(Start(g)) = 3
         /\ \A i \in 1..3 : Start(g)[i].do = <<"start", "run", "running">>[i] /\ Start(g)[i].on = g
<1> DEFINE names == <<"start", "run", "running">>
<1>1. names \in Seq(Names) /\ Len(names) = 3 /\ names[1] = "start" /\ names[2] = "run"
      /\ names[3] = "running"
  <2>1. {"start", "run", "running"} \subseteq Names
    BY DEF Names, Mutations, Lifecycle, Reads, Checked, Assigned, Others
  <2> QED
    BY <2>1
<1>2. Start(g) = Steps(names, g)
  BY DEF Start
<1> HIDE DEF names
<1>3. \A i \in 1..Len(names) : names[i] \in {"start", "run", "running"}
  BY <1>1
<1>4. \A i, j \in 1..Len(names) : j = i + 1 =>
            Leads([do |-> names[i], on |-> g], [do |-> names[j], on |-> g])
  BY <1>1 DEF Leads, Followers, Starters
<1>5. Chained(Start(g)) /\ Fresh(Start(g))
  BY <1>1, <1>2, <1>4, StepsChain DEF Followers, Starters
<1>6. On(Start(g), {g}) /\ Uses(Start(g), {"start", "run", "running"})
  BY <1>1, <1>2, <1>3, StepsSet
<1> QED
  <2>1. g \in Groups \cup {"all"} /\ Len(names) = 3
    BY <1>1
  <2>2. /\ Steps(names, g) \in Seq(Plans) /\ Len(Steps(names, g)) = 3
        /\ \A i \in 1..3 : Steps(names, g)[i].do = names[i] /\ Steps(names, g)[i].on = g
    BY <1>1, <2>1, StepsFacts
  <2> QED
    BY <1>2, <1>5, <1>6, <2>2 DEF names

(* ... and maintenance.                                                     *)
LEMMA MaintainBlock ==
  ASSUME NEW g \in Groups
  PROVE  /\ Maintain(g) \in Seq(Plans) /\ Chained(Maintain(g)) /\ Fresh(Maintain(g))
               /\ On(Maintain(g), {g})
         /\ Uses(Maintain(g), {"disable", "verify", "fit", "transact", "write", "close", "maintained"})
         /\ Len(Maintain(g)) = 7
         /\ \A i \in 1..7 : Maintain(g)[i].do = <<"disable", "verify", "fit", "transact",
               "write", "close", "maintained">>[i] /\ Maintain(g)[i].on = g
<1> DEFINE names == <<"disable", "verify", "fit", "transact", "write", "close", "maintained">>
<1>1. names \in Seq(Names) /\ Len(names) = 7 /\ names[1] = "disable" /\ names[2] = "verify"
      /\ names[3] = "fit" /\ names[4] = "transact" /\ names[5] = "write" /\ names[6] = "close"
      /\ names[7] = "maintained"
  <2>1. {"disable", "verify", "fit", "transact", "write", "close", "maintained"} \subseteq Names
    BY DEF Names, Mutations, Lifecycle, Reads, Checked, Assigned, Others
  <2> QED
    BY <2>1
<1>2. Maintain(g) = Steps(names, g)
  BY DEF Maintain
<1> HIDE DEF names
<1>3. \A i \in 1..Len(names) : names[i] \in {"disable", "verify", "fit", "transact", "write",
      "close", "maintained"}
  BY <1>1
<1>4. \A i, j \in 1..Len(names) : j = i + 1 =>
            Leads([do |-> names[i], on |-> g], [do |-> names[j], on |-> g])
  BY <1>1 DEF Leads, Followers, Starters
<1>5. Chained(Maintain(g)) /\ Fresh(Maintain(g))
  BY <1>1, <1>2, <1>4, StepsChain DEF Followers, Starters
<1>6. On(Maintain(g), {g}) /\ Uses(Maintain(g), {"disable", "verify", "fit", "transact",
      "write", "close", "maintained"})
  BY <1>1, <1>2, <1>3, StepsSet
<1> QED
  <2>1. g \in Groups \cup {"all"} /\ Len(names) = 7
    BY <1>1
  <2>2. /\ Steps(names, g) \in Seq(Plans) /\ Len(Steps(names, g)) = 7
        /\ \A i \in 1..7 : Steps(names, g)[i].do = names[i] /\ Steps(names, g)[i].on = g
    BY <1>1, <2>1, StepsFacts
  <2> QED
    BY <1>2, <1>5, <1>6, <2>2 DEF names

(* What a worker with operation o that holds gs works through. *)
Script(s, o, gs) ==
  /\ s \in Seq(Plans) /\ Chained(s)
  /\ On(s, gs \cup {"all"}) /\ Only(s, "all", Teardown) /\ (o # "shutdown" => On(s, gs))
  /\ o \notin Arming => Lacks(s, Rising \cup {"arm_unless_armed"})
  /\ o \notin Maintenance => Lacks(s, Recording)
  /\ o \in Dropping => Lacks(s, {"fault"})

(* A list of steps for gs that may be put anywhere                          *)
Sound(s, gs) == s \in Seq(Plans) /\ Chained(s) /\ Fresh(s) /\ On(s, gs)

(* The empty list is sound.                                                 *)
LEMMA SoundEmpty == \A gs : Sound(<< >>, gs)
  BY DEF Sound, Chained, Fresh, On

(* Sound lists make a sound list.                                           *)
LEMMA SoundJoin ==
  ASSUME NEW a, NEW b, NEW gs, Sound(a, gs), Sound(b, gs)
  PROVE  Sound(a \o b, gs)
<1>1. a \in Seq(Plans) /\ b \in Seq(Plans) /\ a \o b \in Seq(Plans)
  BY DEF Sound
<1>2. Chained(a \o b) /\ Fresh(a \o b)
  BY <1>1, JoinedChain DEF Sound
<1>3. On(a \o b, gs)
  BY <1>1, JoinedAll DEF Sound
<1> QED
  BY <1>1, <1>2, <1>3 DEF Sound

(* A list for these groups is one for more.                                 *)
LEMMA OnMore ==
  ASSUME NEW s, NEW gs, NEW hs, On(s, gs), gs \subseteq hs
  PROVE  On(s, hs)
  BY DEF On

(* Sound blocks make a sound phase.                                         *)
LEMMA SoundEach ==
  ASSUME NEW D \in SUBSET Groups, NEW steps, DOMAIN steps = D, steps = [h \in D |-> steps[h]],
         \A h \in D : Sound(steps[h], {h})
  PROVE  Sound(Each(steps), D) /\ IsFiniteSet(D) /\ steps \in [D -> Seq(Plans)]
<1>1. IsFiniteSet(D)
  BY CoordinatorAssumption, FS_Subset DEF CoordinatorAssumption
<1>2. steps \in [D -> Seq(Plans)]
  BY DEF Sound
<1>3. ASSUME NEW h \in D PROVE On(steps[h], D)
  <2>1. On(steps[h], {h}) /\ {h} \subseteq D
    BY DEF Sound
  <2> QED
    BY <2>1, OnMore
<1>4. Each(steps) \in Seq(Plans) /\ On(Each(steps), D)
  BY <1>1, <1>2, <1>3, EachAll
<1>5. Chained(Each(steps)) /\ Fresh(Each(steps))
  BY <1>1, <1>2, EachChain DEF Sound
<1> QED
  BY <1>1, <1>2, <1>4, <1>5 DEF Sound

(* A list of other steps lacks these.                                       *)
LEMMA UsesLacks ==
  ASSUME NEW s, NEW names, NEW other, Uses(s, names), names \cap other = {}
  PROVE  Lacks(s, other)
  BY DEF Uses, Lacks

(* A list that lacks these lacks fewer.                                     *)
LEMMA LacksLess ==
  ASSUME NEW s, NEW names, NEW other, Lacks(s, names), other \subseteq names
  PROVE  Lacks(s, other)
  BY DEF Lacks

(* Lists that keep the rules make one that does.                            *)
LEMMA RuledJoin ==
  ASSUME NEW a \in Seq(Plans), NEW b \in Seq(Plans), NEW g, Ruled(a, g), Ruled(b, g)
  PROVE  Ruled(a \o b, g)
<1>1. Settles(a \o b, g)
  BY JoinedPrecedes DEF Ruled, Settles
<1>2. Resolves(a \o b, g)
  BY JoinedPrecedes DEF Ruled, Resolves
<1>3. HaltsFor(a \o b, g)
  BY JoinedPrecedes DEF Ruled, HaltsFor
<1>4. RecordsFor(a \o b, g)
  BY JoinedPrecedes DEF Ruled, RecordsFor
<1> QED
  BY <1>1, <1>2, <1>3, <1>4 DEF Ruled

(* The steps of each phase                                                  *)
InitNames == {"may_init", "to_inactive", "initialize", "verify", "initialized"}
PrepareNames == {"may_prepare", "lingering", "to_active", "prepare", "ready"}
AcknowledgeNames == {"may_acknowledge", "maintenance_clear", "acknowledge"}
ArmNames == {"settled", "arm", "armed"}
StartNames == {"start", "run", "running"}
MaintainNames == {"disable", "verify", "fit", "transact", "write", "close", "maintained"}
SafeNames == InitNames \cup PrepareNames \cup AcknowledgeNames

(* A stop ends with `halted`.                                               *)
LEMMA StopHalts ==
  ASSUME NEW g \in Groups
  PROVE  Has(Stop(g), g, {"halted"})
<1>1. /\ Len(Stop(g)) = 4
      /\ \A i \in 1..4 : Stop(g)[i].do = <<"bump", "halt", "list", "halted">>[i] /\ Stop(g)[i].on = g
  BY StopBlock
<1>2. Stop(g)[4].do = "halted" /\ 4 \in 1..4
  BY <1>1
<1> QED
  BY <1>1, <1>2 DEF Has

(* _arm looks for late calls first.                                         *)
LEMMA ArmSettles ==
  ASSUME NEW g \in Groups, NEW h
  PROVE  Settles(Arm(g), h)
<1>1. /\ Len(Arm(g)) = 3
      /\ \A i \in 1..3 : Arm(g)[i].do = <<"settled", "arm", "armed">>[i] /\ Arm(g)[i].on = g
  BY ArmBlock
<1>2. Arm(g)[1].do = "settled" /\ 1 \in 1..3
  BY <1>1
<1>3. SUFFICES ASSUME NEW j \in 1..3, h = g, Arm(g)[j].do \in Rising
               PROVE  \E i \in 1..3 : i < j /\ Arm(g)[i].on = h /\ Arm(g)[i].do \in {"settled",
                      "arm_unless_armed"}
  BY <1>1 DEF Settles, Precedes
<1>4. j # 1
  BY <1>2, <1>3 DEF Rising
<1> QED
  BY <1>1, <1>2, <1>3, <1>4

(* _acknowledge looks at the journal.                                       *)
LEMMA AcknowledgeHas ==
  ASSUME NEW g \in Groups
  PROVE  Has(Acknowledge(g), g, {"may_acknowledge", "unless_armed"})
<1>1. /\ Len(Acknowledge(g)) = 3
      /\ \A i \in 1..3 : Acknowledge(g)[i].do = <<"may_acknowledge", "maintenance_clear",
            "acknowledge">>[i] /\ Acknowledge(g)[i].on = g
  BY AcknowledgeBlock
<1>2. Acknowledge(g)[1].do = "may_acknowledge" /\ 1 \in 1..3
  BY <1>1
<1> QED
  BY <1>1, <1>2 DEF Has

(* Maintenance writes the journal first.                                    *)
LEMMA MaintainRecords ==
  ASSUME NEW g \in Groups, NEW h
  PROVE  RecordsFor(Maintain(g), h)
<1>1. /\ Len(Maintain(g)) = 7
      /\ \A i \in 1..7 : Maintain(g)[i].do = <<"disable", "verify", "fit", "transact", "write",
            "close", "maintained">>[i] /\ Maintain(g)[i].on = g
  BY MaintainBlock
<1>2. /\ Maintain(g)[1].do = "disable" /\ Maintain(g)[2].do = "verify"
            /\ Maintain(g)[3].do = "fit" /\ Maintain(g)[4].do = "transact"
      /\ 4 \in 1..7
  BY <1>1
<1>3. SUFFICES ASSUME NEW j \in 1..7, h = g, Maintain(g)[j].do \in {"write", "close", "roll_back"}
               PROVE  \E i \in 1..7 : i < j /\ Maintain(g)[i].on = h
                      /\ Maintain(g)[i].do \in {"transact"}
  BY <1>1 DEF RecordsFor, Precedes
<1>4. j # 1 /\ j # 2 /\ j # 3 /\ j # 4
  BY <1>2, <1>3
<1> QED
  BY <1>1, <1>2, <1>3, <1>4

(* One phase for all of an operation's groups *)
LEMMA Phase ==
  ASSUME NEW gs \in SUBSET Groups
  PROVE  /\ Sound(Stops(gs), gs) /\ Uses(Stops(gs), StopNames)
         /\ Sound(Inits(gs), gs) /\ Uses(Inits(gs), InitNames)
         /\ Sound(Prepares(gs), gs) /\ Uses(Prepares(gs), PrepareNames)
         /\ Sound(Acknowledges(gs), gs) /\ Uses(Acknowledges(gs), AcknowledgeNames)
         /\ \A g \in gs : Has(Acknowledges(gs), g, {"may_acknowledge", "unless_armed"})
         /\ Sound(Arms(gs), gs) /\ Uses(Arms(gs), ArmNames) /\ \A g : Settles(Arms(gs), g)
         /\ Sound(Starts(gs), gs) /\ Uses(Starts(gs), StartNames)
<1>1. /\ Sound(Stops(gs), gs) /\ Uses(Stops(gs), StopNames)
  <2> DEFINE steps == [g \in gs |-> Stop(g)]
  <2>1. \A h \in gs : Sound(steps[h], {h}) /\ Uses(steps[h], StopNames) /\ steps[h] = Stop(h)
    <3>1. ASSUME NEW h \in gs PROVE Sound(Stop(h), {h}) /\ Uses(Stop(h), StopNames)
      <4>1. Sound(Stop(h), {h})
        BY StopBlock DEF Sound
      <4>2. Uses(Stop(h), {"bump", "halt", "list", "halted"})
        BY StopBlock
      <4> QED
        BY <4>1, <4>2 DEF Uses, StopNames
    <3> QED BY <3>1
  <2>2. DOMAIN steps = gs /\ steps = [h \in gs |-> steps[h]]
    OBVIOUS
  <2>3. Stops(gs) = Each(steps)
    BY DEF Stops
  <2> HIDE DEF steps
  <2>4. Sound(Each(steps), gs) /\ IsFiniteSet(gs) /\ steps \in [gs -> Seq(Plans)]
    BY <2>1, <2>2, SoundEach
  <2>5. Uses(Each(steps), StopNames)
    BY <2>1, <2>4, EachAll
  <2> QED
    BY <2>3, <2>4, <2>5
<1>2. Sound(Inits(gs), gs) /\ Uses(Inits(gs), InitNames)
  <2> DEFINE steps == [g \in gs |-> InitGroup(g)]
  <2>1. \A h \in gs : Sound(steps[h], {h}) /\ Uses(steps[h], InitNames) /\ steps[h] = InitGroup(h)
    <3>1. ASSUME NEW h \in gs PROVE Sound(InitGroup(h), {h}) /\ Uses(InitGroup(h), InitNames)
      BY InitGroupBlock DEF Sound, InitNames
    <3> QED BY <3>1
  <2>2. DOMAIN steps = gs /\ steps = [h \in gs |-> steps[h]]
    OBVIOUS
  <2>3. Inits(gs) = Each(steps)
    BY DEF Inits
  <2> HIDE DEF steps
  <2>4. Sound(Each(steps), gs) /\ IsFiniteSet(gs) /\ steps \in [gs -> Seq(Plans)]
    BY <2>1, <2>2, SoundEach
  <2>5. Uses(Each(steps), InitNames)
    BY <2>1, <2>4, EachAll
  <2> QED
    BY <2>3, <2>4, <2>5
<1>3. Sound(Prepares(gs), gs) /\ Uses(Prepares(gs), PrepareNames)
  <2> DEFINE steps == [g \in gs |-> Prepare(g)]
  <2>1. \A h \in gs : Sound(steps[h], {h}) /\ Uses(steps[h], PrepareNames) /\ steps[h] = Prepare(h)
    <3>1. ASSUME NEW h \in gs PROVE Sound(Prepare(h), {h}) /\ Uses(Prepare(h), PrepareNames)
      BY PrepareBlock DEF Sound, PrepareNames
    <3> QED BY <3>1
  <2>2. DOMAIN steps = gs /\ steps = [h \in gs |-> steps[h]]
    OBVIOUS
  <2>3. Prepares(gs) = Each(steps)
    BY DEF Prepares
  <2> HIDE DEF steps
  <2>4. Sound(Each(steps), gs) /\ IsFiniteSet(gs) /\ steps \in [gs -> Seq(Plans)]
    BY <2>1, <2>2, SoundEach
  <2>5. Uses(Each(steps), PrepareNames)
    BY <2>1, <2>4, EachAll
  <2> QED
    BY <2>3, <2>4, <2>5
<1>6. Sound(Starts(gs), gs) /\ Uses(Starts(gs), StartNames)
  <2> DEFINE steps == [g \in gs |-> Start(g)]
  <2>1. \A h \in gs : Sound(steps[h], {h}) /\ Uses(steps[h], StartNames) /\ steps[h] = Start(h)
    <3>1. ASSUME NEW h \in gs PROVE Sound(Start(h), {h}) /\ Uses(Start(h), StartNames)
      BY StartBlock DEF Sound, StartNames
    <3> QED BY <3>1
  <2>2. DOMAIN steps = gs /\ steps = [h \in gs |-> steps[h]]
    OBVIOUS
  <2>3. Starts(gs) = Each(steps)
    BY DEF Starts
  <2> HIDE DEF steps
  <2>4. Sound(Each(steps), gs) /\ IsFiniteSet(gs) /\ steps \in [gs -> Seq(Plans)]
    BY <2>1, <2>2, SoundEach
  <2>5. Uses(Each(steps), StartNames)
    BY <2>1, <2>4, EachAll
  <2> QED
    BY <2>3, <2>4, <2>5
<1>4. /\ Sound(Acknowledges(gs), gs) /\ Uses(Acknowledges(gs), AcknowledgeNames)
      /\ \A g \in gs : Has(Acknowledges(gs), g, {"may_acknowledge", "unless_armed"})
  <2> DEFINE steps == [g \in gs |-> Acknowledge(g)]
  <2>1. \A h \in gs : Sound(steps[h], {h}) /\ Uses(steps[h], AcknowledgeNames)
        /\ steps[h] = Acknowledge(h)
    <3>1. ASSUME NEW h \in gs PROVE Sound(Acknowledge(h), {h}) /\ Uses(Acknowledge(h), AcknowledgeNames)
      BY AcknowledgeBlock DEF Sound, AcknowledgeNames
    <3> QED BY <3>1
  <2>2. DOMAIN steps = gs /\ steps = [h \in gs |-> steps[h]]
    OBVIOUS
  <2>3. Acknowledges(gs) = Each(steps)
    BY DEF Acknowledges
  <2> HIDE DEF steps
  <2>4. Sound(Each(steps), gs) /\ IsFiniteSet(gs) /\ steps \in [gs -> Seq(Plans)]
    BY <2>1, <2>2, SoundEach
  <2>5. Uses(Each(steps), AcknowledgeNames)
    BY <2>1, <2>4, EachAll
  <2>7. \A g \in gs : Has(Each(steps), g, {"may_acknowledge", "unless_armed"})
    BY <2>1, <2>4, EachReaches, AcknowledgeHas
  <2> QED
    BY <2>3, <2>4, <2>5, <2>7
<1>5. Sound(Arms(gs), gs) /\ Uses(Arms(gs), ArmNames) /\ \A g : Settles(Arms(gs), g)
  <2> DEFINE steps == [g \in gs |-> Arm(g)]
  <2>1. \A h \in gs : Sound(steps[h], {h}) /\ Uses(steps[h], ArmNames) /\ steps[h] = Arm(h)
    <3>1. ASSUME NEW h \in gs PROVE Sound(Arm(h), {h}) /\ Uses(Arm(h), ArmNames)
      BY ArmBlock DEF Sound, ArmNames
    <3> QED BY <3>1
  <2>2. DOMAIN steps = gs /\ steps = [h \in gs |-> steps[h]]
    OBVIOUS
  <2>3. Arms(gs) = Each(steps)
    BY DEF Arms
  <2> HIDE DEF steps
  <2>4. Sound(Each(steps), gs) /\ IsFiniteSet(gs) /\ steps \in [gs -> Seq(Plans)]
    BY <2>1, <2>2, SoundEach
  <2>5. Uses(Each(steps), ArmNames)
    BY <2>1, <2>4, EachAll
  <2>6. \A g : Settles(Each(steps), g)
    BY <2>1, <2>4, EachPrecedes, ArmSettles, ZenonT(30) DEF Settles
  <2> QED
    BY <2>3, <2>4, <2>5, <2>6
<1> QED
  BY <1>1, <1>2, <1>3, <1>4, <1>5, <1>6

(* The steps that look at the journal                                       *)
Acknowledging == {"may_acknowledge", "unless_armed"}

(* A list with no step of a rule satisfies it. *)
LEMMA TamePrecedes ==
  ASSUME NEW s, NEW g, NEW first, NEW then, NEW names, Lacks(s, names), then \subseteq names
  PROVE  Precedes(s, g, first, then)
  BY DEF Precedes, Lacks

(* A list without sensitive steps keeps every rule, ...                     *)
LEMMA TameParts ==
  ASSUME NEW s, NEW g, Lacks(s, Sensitive)
  PROVE  Settles(s, g) /\ Resolves(s, g) /\ HaltsFor(s, g) /\ RecordsFor(s, g)
  BY TameRuled DEF Ruled

(* Lists without steps of maintenance *)
LEMMA Unrecorded ==
  ASSUME NEW s, NEW g, Lacks(s, Recording)
  PROVE  HaltsFor(s, g) /\ RecordsFor(s, g)
<1>1. {"transact"} \subseteq Recording /\ {"write", "close", "roll_back"} \subseteq Recording
  BY DEF Recording
<1> QED
  BY <1>1, TamePrecedes DEF HaltsFor, RecordsFor

(* ... one that raises nothing the rules of raising.                        *)
LEMMA Unrisen ==
  ASSUME NEW s, NEW g, Lacks(s, Rising \cup {"arm_unless_armed"})
  PROVE  Settles(s, g) /\ Resolves(s, g)
  BY TamePrecedes DEF Settles, Resolves

(* A phase of single steps.                                                 *)
LEMMA OnePhase ==
  ASSUME NEW gs \in SUBSET Groups, NEW name \in Names, name \notin Followers, name \notin Starters
  PROVE  /\ Sound(Ones(name, gs), gs) /\ Uses(Ones(name, gs), {name})
         /\ \A g \in gs : Has(Ones(name, gs), g, {name})
<1> DEFINE steps == [g \in gs |-> Steps(<<name>>, g)]
<1>1. ASSUME NEW h \in gs
      PROVE  /\ Sound(Steps(<<name>>, h), {h}) /\ Uses(Steps(<<name>>, h), {name})
             /\ Has(Steps(<<name>>, h), h, {name})
  <2> DEFINE names == <<name>>
  <2>1. names \in Seq(Names) /\ Len(names) = 1 /\ names[1] = name /\ h \in Groups \cup {"all"}
    OBVIOUS
  <2> HIDE DEF names
  <2>2. Steps(names, h) \in Seq(Plans)
    BY <2>1, StepsFacts
  <2>3. Chained(Steps(names, h)) /\ Fresh(Steps(names, h))
    <3>1. \A i, j \in 1..Len(names) : j = i + 1 =>
            Leads([do |-> names[i], on |-> h], [do |-> names[j], on |-> h])
      BY <2>1
    <3> QED
      BY <3>1, <2>1, StepsChain
  <2>4. On(Steps(names, h), {h}) /\ Uses(Steps(names, h), {name}) /\ Has(Steps(names, h), h, {name})
    <3>1. (\A i \in 1..Len(names) : names[i] \in {name}) /\ \E i \in 1..Len(names) : names[i] \in {name}
      BY <2>1
    <3> QED
      BY <2>1, <3>1, StepsSet
  <2> QED
    BY <2>2, <2>3, <2>4 DEF Sound, names
<1>2. \A h \in gs : Sound(steps[h], {h}) /\ Uses(steps[h], {name}) /\ Has(steps[h], h, {name})
  BY <1>1
<1>3. DOMAIN steps = gs /\ steps = [h \in gs |-> steps[h]]
  OBVIOUS
<1>4. Ones(name, gs) = Each(steps)
  BY DEF Ones
<1> HIDE DEF steps
<1>5. Sound(Each(steps), gs) /\ IsFiniteSet(gs) /\ steps \in [gs -> Seq(Plans)]
  BY <1>2, <1>3, SoundEach
<1>6. Uses(Each(steps), {name})
  BY <1>2, <1>5, EachAll
<1>7. \A g \in gs : Has(Each(steps), g, {name})
  BY <1>2, <1>5, EachReaches
<1> QED
  BY <1>4, <1>5, <1>6, <1>7

(* Acknowledged before it is armed *)
LEMMA ThenArms ==
  ASSUME NEW gs \in SUBSET Groups, NEW a, Sound(a, gs), Lacks(a, Sensitive),
         \A g \in gs : Has(a, g, Acknowledging)
  PROVE  Sound(a \o Arms(gs), gs) /\ \A g : Ruled(a \o Arms(gs), g)
<1>1. a \in Seq(Plans) /\ Arms(gs) \in Seq(Plans) /\ Sound(Arms(gs), gs) /\ Uses(Arms(gs), ArmNames)
  BY Phase DEF Sound
<1>2. Sound(a \o Arms(gs), gs)
  BY <1>1, SoundJoin
<1>3. ASSUME NEW g PROVE Ruled(a \o Arms(gs), g)
  <2>1. Settles(a, g) /\ Resolves(a, g) /\ HaltsFor(a, g) /\ RecordsFor(a, g)
    BY TameParts
  <2>2. Settles(Arms(gs), g)
    BY Phase
  <2>3. Lacks(Arms(gs), Recording)
    BY <1>1, UsesLacks DEF ArmNames, Recording
  <2>4. HaltsFor(Arms(gs), g) /\ RecordsFor(Arms(gs), g)
    BY <2>3, Unrecorded
  <2>5. Settles(a \o Arms(gs), g)
    BY <1>1, <2>1, <2>2, JoinedPrecedes DEF Settles
  <2>6. HaltsFor(a \o Arms(gs), g)
    BY <1>1, <2>1, <2>4, JoinedPrecedes DEF HaltsFor
  <2>7. RecordsFor(a \o Arms(gs), g)
    BY <1>1, <2>1, <2>4, JoinedPrecedes DEF RecordsFor
  <2>8. Resolves(a \o Arms(gs), g)
    <3>1. CASE g \in gs
      BY <1>1, <2>1, <3>1, JoinedPrecedes DEF Resolves, Acknowledging
    <3>2. CASE g \notin gs
      <4>1. Resolves(Arms(gs), g)
        BY <1>1, <3>2, AbsentRuled DEF Sound, Ruled
      <4> QED
        BY <1>1, <2>1, <4>1, JoinedPrecedes DEF Resolves
    <3> QED
      BY <3>1, <3>2
  <2> QED
    BY <2>5, <2>6, <2>7, <2>8 DEF Ruled
<1> QED
  BY <1>2, <1>3

(* The union of the names of phases. *)
LEMMA LacksJoin ==
  ASSUME NEW a \in Seq(Plans), NEW b \in Seq(Plans), NEW names, Lacks(a, names), Lacks(b, names)
  PROVE  Lacks(a \o b, names)
<1> DEFINE g == "all"
<1>1. Lacks(a \o b, names) <=> Lacks(a, names) /\ Lacks(b, names)
  BY ONLY JoinedAll, a \in Seq(Plans), b \in Seq(Plans)
<1> QED
  BY <1>1

(* Lists of these steps and of those make one of both.                      *)
LEMMA UsesJoin ==
  ASSUME NEW a \in Seq(Plans), NEW b \in Seq(Plans), NEW names, NEW others, NEW all,
         Uses(a, names), Uses(b, others), names \subseteq all, others \subseteq all
  PROVE  Uses(a \o b, all)
<1>1. Uses(a, all) /\ Uses(b, all)
  BY DEF Uses
<1> QED
  BY <1>1, JoinedAll

(* The first phases of an enable                                            *)
Prepared(gs) == Prepares(gs) \o Acknowledges(gs)

(* The phases of an enable keep the rules.                                  *)
LEMMA EnablesSound ==
  ASSUME NEW gs \in SUBSET Groups
  PROVE  /\ Sound(Enables(gs), gs) /\ \A g : Ruled(Enables(gs), g)
         /\ Uses(Enables(gs), SafeNames \cup ArmNames)
         /\ Sound(Prepared(gs), gs) /\ Uses(Prepared(gs), SafeNames)
         /\ \A g \in gs : Has(Prepared(gs), g, Acknowledging)
<1>1. /\ Sound(Prepares(gs), gs) /\ Uses(Prepares(gs), PrepareNames)
      /\ Sound(Acknowledges(gs), gs) /\ Uses(Acknowledges(gs), AcknowledgeNames)
      /\ \A g \in gs : Has(Acknowledges(gs), g, Acknowledging)
      /\ Sound(Arms(gs), gs) /\ Uses(Arms(gs), ArmNames)
  BY Phase DEF Acknowledging
<1>2. /\ Prepares(gs) \in Seq(Plans) /\ Acknowledges(gs) \in Seq(Plans) /\ Arms(gs) \in Seq(Plans)
  BY <1>1 DEF Sound
<1>3. Sound(Prepared(gs), gs)
  BY <1>1, SoundJoin DEF Prepared
<1>4. Uses(Prepared(gs), SafeNames)
  <2>1. PrepareNames \subseteq SafeNames /\ AcknowledgeNames \subseteq SafeNames
    BY DEF SafeNames
  <2> QED
    BY <2>1, <1>1, <1>2, UsesJoin DEF Prepared
<1>5. \A g \in gs : Has(Prepared(gs), g, Acknowledging)
  BY <1>1, <1>2, JoinedAll DEF Prepared
<1>6. Lacks(Prepared(gs), Sensitive)
  BY <1>4, UsesLacks
  DEF SafeNames, InitNames, PrepareNames, AcknowledgeNames, Sensitive, Rising, Recording
<1>7. Sound(Enables(gs), gs) /\ \A g : Ruled(Enables(gs), g)
  BY <1>3, <1>5, <1>6, ThenArms DEF Enables, Prepared
<1>8. Uses(Enables(gs), SafeNames \cup ArmNames)
  <2> DEFINE a == Prepared(gs)
             all == SafeNames \cup ArmNames
  <2>1. a \in Seq(Plans) /\ Uses(a, SafeNames) /\ Enables(gs) = a \o Arms(gs)
    BY <1>3, <1>4 DEF Sound, Enables, Prepared
  <2>2. SafeNames \subseteq all /\ ArmNames \subseteq all
    OBVIOUS
  <2> HIDE DEF a, all
  <2>4. Arms(gs) \in Seq(Plans) /\ Uses(Arms(gs), ArmNames)
    BY <1>1, <1>2
  <2>5. Uses(a \o Arms(gs), all)
    BY <2>1, <2>2, <2>4, UsesJoin
  <2>3. Uses(Enables(gs), all)
    BY <2>1, <2>5
  <2> QED
    BY <2>3 DEF all
<1> QED
  BY <1>3, <1>4, <1>5, <1>7, <1>8

(* What StopNames are not *)
LEMMA StopsTame ==
  ASSUME NEW s, Uses(s, StopNames)
  PROVE  Lacks(s, Sensitive) /\ Lacks(s, {"fault"}) /\ Lacks(s, {"switched"}) /\ Lacks(s,
         {"arm_unless_armed"})
<1>1. StopNames \cap Sensitive = {} /\ StopNames \cap {"fault"} = {} /\ StopNames \cap {"switched"} = {}
      /\ StopNames \cap {"arm_unless_armed"} = {}
  BY DEF StopNames, Sensitive, Rising, Recording
<1> QED
  BY <1>1, UsesLacks

(* A list that keeps them may come after a tame one.                        *)
LEMMA RuledAfter ==
  ASSUME NEW gs, NEW a, NEW b, Sound(a, gs), Sound(b, gs), Lacks(a, Sensitive), \A g : Ruled(b, g)
  PROVE  Sound(a \o b, gs) /\ \A g : Ruled(a \o b, g)
<1>1. Sound(a \o b, gs) /\ a \in Seq(Plans) /\ b \in Seq(Plans)
  BY SoundJoin DEF Sound
<1>2. ASSUME NEW g PROVE Ruled(a \o b, g)
  BY <1>1, TameRuled, RuledJoin
<1> QED
  BY <1>1, <1>2

(* The phases of a resume keep the rules, ...                               *)
LEMMA ResumesSound ==
  ASSUME NEW gs \in SUBSET Groups
  PROVE  /\ Sound(Resumes(gs), gs) /\ \A g : Ruled(Resumes(gs), g)
         /\ Lacks(Resumes(gs), Recording) /\ Lacks(Resumes(gs), {"switched"})
<1> DEFINE first == Ones("if_halted", gs)
           second == Ones("unless_armed", gs)
           third == Ones("arm_unless_armed", gs)
           last == Starts(gs)
           before == (first \o second) \o third
<1>0. {"if_halted", "unless_armed", "arm_unless_armed"} \subseteq Names \ (Followers \cup Starters)
  BY DEF Names, Checked, Followers, Starters
<1>1. /\ Sound(first, gs) /\ Uses(first, {"if_halted"})
      /\ Sound(second, gs) /\ Uses(second, {"unless_armed"}) /\ \A g \in gs : Has(second, g,
            {"unless_armed"})
      /\ Sound(third, gs) /\ Uses(third, {"arm_unless_armed"}) /\ \A g \in gs : Has(third, g,
            {"arm_unless_armed"})
      /\ Sound(last, gs) /\ Uses(last, StartNames)
  BY <1>0, OnePhase, Phase
<1>2. Sound(first \o second, gs) /\ Sound(before, gs) /\ Sound(Resumes(gs), gs)
  BY <1>1, SoundJoin DEF Resumes
<1>3. /\ first \in Seq(Plans) /\ second \in Seq(Plans) /\ third \in Seq(Plans) /\ last \in Seq(Plans)
      /\ first \o second \in Seq(Plans) /\ before \in Seq(Plans)
  BY <1>1, <1>2 DEF Sound
<1> DEFINE N == {"if_halted", "unless_armed", "arm_unless_armed"}
<1>a. /\ {"if_halted"} \subseteq N /\ {"unless_armed"} \subseteq N /\ {"arm_unless_armed"} \subseteq N
      /\ N \subseteq N /\ before = (first \o second) \o third
      /\ N \cap Rising = {} /\ N \cap {"switched"} = {} /\ N \cap Recording = {}
      /\ {"if_halted", "unless_armed"} \cap Sensitive = {}
      /\ {"if_halted"} \subseteq {"if_halted", "unless_armed"}
            /\ {"unless_armed"} \subseteq {"if_halted", "unless_armed"}
  BY DEF Sensitive, Rising, Recording
<1> HIDE DEF N, first, second, third, last, before
<1>4. Uses(first \o second, N) /\ Uses(before, N)
  <2>1. Uses(first \o second, N)
    BY <1>1, <1>3, <1>a, UsesJoin
  <2>2. Uses(before, N)
    <3> DEFINE a == first \o second
    <3>1. a \in Seq(Plans) /\ Uses(a, N) /\ before = a \o third
      BY <1>3, <1>a, <2>1
    <3> HIDE DEF a
    <3> QED
      BY <1>1, <1>3, <1>a, <3>1, UsesJoin
  <2> QED
    BY <2>1, <2>2
<1>5. \A g \in gs : Has(before, g, Acknowledging) /\ Has(before, g, {"settled", "arm_unless_armed"})
  <2>1. ASSUME NEW g \in gs PROVE Has(second, g, Acknowledging) /\ Has(third, g, {"settled",
               "arm_unless_armed"})
    BY <1>1 DEF Has, Acknowledging
  <2> QED
    BY <2>1, <1>3, <1>a, JoinedAll
<1>6. Resumes(gs) = before \o last
  BY DEF Resumes, first, second, third, before, last
<1>7. Lacks(before, Rising) /\ Lacks(last, Recording) /\ Lacks(before, {"switched"})
      /\ Lacks(last, {"switched"}) /\ Lacks(before, Recording)
  <2>1. StartNames \cap Recording = {} /\ StartNames \cap {"switched"} = {}
    BY DEF StartNames, Recording
  <2> QED
    BY <1>1, <1>4, <1>a, <2>1, UsesLacks
<1>8. ASSUME NEW g PROVE Ruled(Resumes(gs), g)
  <2>1. Settles(before, g) /\ Resolves(before, g) /\ HaltsFor(before, g) /\ RecordsFor(before, g)
    <3>1. Settles(before, g) /\ HaltsFor(before, g) /\ RecordsFor(before, g)
      BY <1>7, TamePrecedes, Unrecorded DEF Settles
    <3>2. Resolves(before, g)
      <4> DEFINE a == first \o second
      <4>1. a \in Seq(Plans) /\ before = a \o third
        BY <1>3, <1>a
      <4>2. Uses(a, {"if_halted", "unless_armed"})
        BY <1>1, <1>3, <1>a, UsesJoin
      <4>3. g \in gs => Has(a, g, Acknowledging)
        <5>1. g \in gs => Has(second, g, Acknowledging)
          BY <1>1 DEF Has, Acknowledging
        <5> QED
          BY <5>1, <1>3, JoinedAll
      <4> HIDE DEF a
      <4>4. Lacks(a, Sensitive)
        BY <4>2, <1>a, UsesLacks
      <4>5. Resolves(a, g)
        BY <4>4, TameParts
      <4>6. g \notin gs => Resolves(third, g)
        BY <1>1, AbsentRuled DEF Sound, Ruled
      <4>7. Has(a, g, Acknowledging) => Resolves(a \o third, g)
        BY <4>1, <4>5, <1>3, TamePrecedes, JoinedPrecedes DEF Resolves, Acknowledging
      <4>8. Resolves(third, g) => Resolves(a \o third, g)
        BY <4>1, <4>5, <1>3, JoinedPrecedes DEF Resolves
      <4> QED
        BY <4>1, <4>3, <4>6, <4>7, <4>8
    <3> QED
      BY <3>1, <3>2
  <2>2. HaltsFor(last, g) /\ RecordsFor(last, g)
    BY <1>7, Unrecorded
  <2>3. HaltsFor(Resumes(gs), g) /\ RecordsFor(Resumes(gs), g)
    BY <1>3, <1>6, <2>1, <2>2, JoinedPrecedes DEF HaltsFor, RecordsFor
  <2>4. Settles(Resumes(gs), g) /\ Resolves(Resumes(gs), g)
    <3>1. CASE g \in gs
      BY <3>1, <1>3, <1>5, <1>6, <2>1, JoinedPrecedes DEF Settles, Resolves, Acknowledging
    <3>2. CASE g \notin gs
      <4>1. Settles(last, g) /\ Resolves(last, g)
        BY <1>1, <3>2, AbsentRuled DEF Sound, Ruled
      <4> QED
        BY <4>1, <1>3, <1>6, <2>1, JoinedPrecedes DEF Settles, Resolves
    <3> QED
      BY <3>1, <3>2
  <2> QED
    BY <2>3, <2>4 DEF Ruled
<1>9. Lacks(Resumes(gs), Recording) /\ Lacks(Resumes(gs), {"switched"})
  BY <1>3, <1>6, <1>7, LacksJoin
<1> QED
  BY <1>2, <1>8, <1>9

(* ... and those of a recovery.                                             *)
LEMMA RearmsSound ==
  ASSUME NEW gs \in SUBSET Groups
  PROVE  /\ Sound(Rearms(gs), gs) /\ \A g : Ruled(Rearms(gs), g)
         /\ Uses(Rearms(gs), SafeNames \cup ArmNames)
<1>1. Sound(Inits(gs), gs) /\ Uses(Inits(gs), InitNames) /\ Inits(gs) \in Seq(Plans)
  BY Phase DEF Sound
<1>2. Sound(Enables(gs), gs) /\ Uses(Enables(gs), SafeNames \cup ArmNames) /\ Enables(gs) \in Seq(Plans)
      /\ \A g : Ruled(Enables(gs), g)
  BY EnablesSound DEF Sound
<1>3. Lacks(Inits(gs), Sensitive)
  BY <1>1, UsesLacks DEF InitNames, Sensitive, Rising, Recording
<1>4. InitNames \subseteq SafeNames \cup ArmNames
      /\ SafeNames \cup ArmNames \subseteq SafeNames \cup ArmNames
  BY DEF SafeNames
<1> DEFINE names == SafeNames \cup ArmNames
<1> HIDE DEF names
<1>5. Uses(Inits(gs) \o Enables(gs), names)
  BY <1>1, <1>2, <1>4, UsesJoin DEF names
<1> QED
  BY <1>1, <1>2, <1>3, <1>5, RuledAfter DEF Rearms, names

(* Blocks that keep the rules make a phase that does.                       *)
LEMMA EachRuled ==
  ASSUME NEW D \in SUBSET Groups, NEW steps, DOMAIN steps = D, steps = [h \in D |-> steps[h]],
         \A h \in D : Sound(steps[h], {h}), \A h \in D : \A g : Ruled(steps[h], g)
  PROVE  Sound(Each(steps), D) /\ \A g : Ruled(Each(steps), g)
<1>1. Sound(Each(steps), D) /\ IsFiniteSet(D) /\ steps \in [D -> Seq(Plans)]
  BY SoundEach
<1>2. ASSUME NEW g PROVE Ruled(Each(steps), g)
  <2>1. \A h \in D : Settles(steps[h], g) /\ Resolves(steps[h], g) /\ HaltsFor(steps[h], g)
        /\ RecordsFor(steps[h], g)
    BY DEF Ruled
  <2>2. Settles(Each(steps), g)
    BY <1>1, <2>1, EachPrecedes DEF Settles
  <2>3. Resolves(Each(steps), g)
    BY <1>1, <2>1, EachPrecedes DEF Resolves
  <2>4. HaltsFor(Each(steps), g)
    BY <1>1, <2>1, EachPrecedes DEF HaltsFor
  <2>5. RecordsFor(Each(steps), g)
    BY <1>1, <2>1, EachPrecedes DEF RecordsFor
  <2> QED
    BY <2>2, <2>3, <2>4, <2>5 DEF Ruled
<1> QED
  BY <1>1, <1>2

(* A stop of one group *)
LEMMA StopSound ==
  ASSUME NEW g \in Groups
  PROVE  /\ Sound(Stop(g), {g}) /\ Uses(Stop(g), StopNames) /\ Stop(g) \in Seq(Plans)
         /\ Lacks(Stop(g), Sensitive) /\ Lacks(Stop(g), Recording) /\ Lacks(Stop(g), Rising)
         /\ Lacks(Stop(g), {"fault"}) /\ Lacks(Stop(g), {"switched"})
         /\ Lacks(Stop(g), Rising \cup {"arm_unless_armed"})
         /\ \A h : Ruled(Stop(g), h)
<1>1. Sound(Stop(g), {g}) /\ Stop(g) \in Seq(Plans)
  BY StopBlock DEF Sound
<1>2. Uses(Stop(g), StopNames)
  <2>1. Uses(Stop(g), {"bump", "halt", "list", "halted"})
    BY StopBlock
  <2> QED
    BY <2>1 DEF Uses, StopNames
<1>3. StopNames \cap Sensitive = {} /\ StopNames \cap Recording = {} /\ StopNames \cap Rising = {}
      /\ StopNames \cap {"fault"} = {} /\ StopNames \cap {"switched"} = {}
      /\ StopNames \cap (Rising \cup {"arm_unless_armed"}) = {}
  BY DEF StopNames, Sensitive, Rising, Recording
<1>4. /\ Lacks(Stop(g), Sensitive) /\ Lacks(Stop(g), Recording) /\ Lacks(Stop(g), Rising)
      /\ Lacks(Stop(g), {"fault"}) /\ Lacks(Stop(g), {"switched"})
      /\ Lacks(Stop(g), Rising \cup {"arm_unless_armed"})
  BY <1>2, <1>3, UsesLacks
<1>5. \A h : Ruled(Stop(g), h)
  BY <1>4, TameRuled
<1> QED
  BY <1>1, <1>2, <1>4, <1>5

(* A single step *)
LEMMA OneStep ==
  ASSUME NEW name \in Names, NEW g \in Groups \cup {"all"}, name \notin Starters
  PROVE  /\ Steps(<<name>>, g) \in Seq(Plans) /\ Chained(Steps(<<name>>, g))
         /\ name \notin Followers => Fresh(Steps(<<name>>, g))
         /\ On(Steps(<<name>>, g), {g}) /\ Uses(Steps(<<name>>, g), {name})
         /\ Has(Steps(<<name>>, g), g, {name})
         /\ Len(Steps(<<name>>, g)) = 1 /\ Steps(<<name>>, g)[1].do = name /\ Steps(<<name>>,
               g)[1].on = g
<1> DEFINE names == <<name>>
           s == Steps(names, g)
<1>1. names \in Seq(Names) /\ Len(names) = 1 /\ names[1] = name
  OBVIOUS
<1> HIDE DEF names
<1>2. s \in Seq(Plans) /\ Len(s) = 1 /\ s[1].do = name /\ s[1].on = g
  BY <1>1, StepsFacts
<1> HIDE DEF s
<1>3. Chained(s) /\ (name \notin Followers => Fresh(s))
  BY <1>2 DEF Chained, Fresh
<1>4. On(s, {g}) /\ Uses(s, {name}) /\ Has(s, g, {name})
  BY <1>2 DEF On, Uses, Has
<1> QED
  BY <1>2, <1>3, <1>4 DEF s, names

(* A transaction keeps the rules.                                           *)
LEMMA MaintainSound ==
  ASSUME NEW g \in Groups
  PROVE  /\ Sound(Stop(g) \o Maintain(g), {g})
         /\ \A h : Ruled(Stop(g) \o Maintain(g), h)
         /\ Lacks(Stop(g) \o Maintain(g), Rising \cup {"arm_unless_armed"})
         /\ Lacks(Stop(g) \o Maintain(g), {"fault"})
<1> DEFINE s == Maintain(g)
<1>1. Sound(s, {g}) /\ s \in Seq(Plans) /\ Uses(s, MaintainNames)
  BY MaintainBlock DEF Sound, MaintainNames
<1>2. MaintainNames \cap (Rising \cup {"arm_unless_armed"}) = {}
      /\ MaintainNames \cap {"fault"} = {} /\ MaintainNames \cap Rising = {}
  BY DEF MaintainNames, Rising
<1>3. Lacks(s, Rising \cup {"arm_unless_armed"}) /\ Lacks(s, {"fault"}) /\ Lacks(s, Rising)
  BY <1>1, <1>2, UsesLacks
<1>4. ASSUME NEW h PROVE Ruled(Stop(g) \o s, h)
  <2>1. Settles(Stop(g), h) /\ Resolves(Stop(g), h) /\ HaltsFor(Stop(g), h) /\ RecordsFor(Stop(g), h)
    BY StopSound DEF Ruled
  <2>2. Settles(s, h) /\ Resolves(s, h)
    BY <1>3, Unrisen
  <2>3. RecordsFor(s, h)
    BY MaintainRecords
  <2> HIDE DEF s
  <2>4. Settles(Stop(g) \o s, h)
    BY <1>1, <2>1, <2>2, StopSound, JoinedPrecedes DEF Settles
  <2>5. Resolves(Stop(g) \o s, h)
    BY <1>1, <2>1, <2>2, StopSound, JoinedPrecedes DEF Resolves
  <2>6. RecordsFor(Stop(g) \o s, h)
    BY <1>1, <2>1, <2>3, StopSound, JoinedPrecedes DEF RecordsFor
  <2>7. HaltsFor(Stop(g) \o s, h)
    <3>1. CASE h = g
      BY <3>1, <1>1, <2>1, StopSound, StopHalts, JoinedPrecedes DEF HaltsFor
    <3>2. CASE h # g
      <4>1. HaltsFor(s, h)
        BY <1>1, <3>2, AbsentRuled DEF Sound, Ruled
      <4> QED
        BY <1>1, <2>1, <4>1, StopSound, JoinedPrecedes DEF HaltsFor
    <3> QED
      BY <3>1, <3>2
  <2> QED
    BY <2>4, <2>5, <2>6, <2>7 DEF Ruled
<1>5. Sound(Stop(g) \o s, {g})
  BY <1>1, StopSound, SoundJoin
<1>6. Lacks(Stop(g) \o s, Rising \cup {"arm_unless_armed"}) /\ Lacks(Stop(g) \o s, {"fault"})
  BY <1>1, <1>3, StopSound, LacksJoin
<1> QED
  BY <1>4, <1>5, <1>6

(* So does the restart with the other profile.                              *)
LEMMA RestartSound ==
  ASSUME NEW g \in Groups
  PROVE  /\ Sound(Restart(g), {g}) /\ \A h : Ruled(Restart(g), h)
         /\ Lacks(Restart(g), Recording)
<1> DEFINE one == Steps(<<"switched">>, g)
           a == one \o InitGroup(g)
           ea == Prepare(g) \o Acknowledge(g)
           e == ea \o Arm(g)
           b == a \o e
           s == b \o Start(g)
<1>1. s = Restart(g)
  BY DEF Restart, Enable
<1>2. "switched" \in Names /\ "switched" \notin Followers /\ "switched" \notin Starters
  BY DEF Names, Checked, Followers, Starters
<1>3. /\ Sound(one, {g}) /\ Uses(one, {"switched"}) /\ Has(one, g, {"switched"}) /\ one \in Seq(Plans)
  BY <1>2, OneStep DEF Sound
<1>4. /\ Sound(InitGroup(g), {g}) /\ Uses(InitGroup(g), InitNames) /\ InitGroup(g) \in Seq(Plans)
      /\ Sound(Prepare(g), {g}) /\ Uses(Prepare(g), PrepareNames) /\ Prepare(g) \in Seq(Plans)
      /\ Sound(Acknowledge(g), {g}) /\ Uses(Acknowledge(g), AcknowledgeNames)
            /\ Acknowledge(g) \in Seq(Plans)
      /\ Sound(Arm(g), {g}) /\ Uses(Arm(g), ArmNames) /\ Arm(g) \in Seq(Plans)
      /\ Sound(Start(g), {g}) /\ Uses(Start(g), StartNames) /\ Start(g) \in Seq(Plans)
  BY InitGroupBlock, PrepareBlock, AcknowledgeBlock, ArmBlock, StartBlock
     DEF Sound, InitNames, PrepareNames, AcknowledgeNames, ArmNames, StartNames
<1>5. Has(Acknowledge(g), g, Acknowledging)
  BY AcknowledgeHas DEF Acknowledging
<1>6. Has(Arm(g), g, {"settled", "arm_unless_armed"})
  <2>1. /\ Len(Arm(g)) = 3
        /\ \A i \in 1..3 : Arm(g)[i].do = <<"settled", "arm", "armed">>[i] /\ Arm(g)[i].on = g
    BY ArmBlock
  <2>2. Arm(g)[1].do = "settled" /\ Arm(g)[1].on = g /\ 1 \in 1..3
    BY <2>1
  <2> QED
    BY <2>1, <2>2 DEF Has
<1> DEFINE P == {"switched"} \cup SafeNames
<1>7. /\ {"switched"} \subseteq P /\ InitNames \subseteq P /\ PrepareNames \subseteq P
            /\ AcknowledgeNames \subseteq P
      /\ P \cap Sensitive = {} /\ P \cap Recording = {} /\ P \subseteq P
      /\ ArmNames \cap Recording = {} /\ StartNames \cap Recording = {}
  BY DEF SafeNames, InitNames, PrepareNames, AcknowledgeNames, Sensitive, Rising, Recording,
         ArmNames, StartNames
<1> HIDE DEF P, one
<1>8. Sound(a, {g}) /\ a \in Seq(Plans) /\ Uses(a, P) /\ Has(a, g, {"switched"})
  <2>1. Sound(a, {g}) /\ a \in Seq(Plans)
    BY <1>3, <1>4, SoundJoin DEF Sound
  <2>2. Uses(a, P)
    BY <1>3, <1>4, <1>7, UsesJoin, SMTT(30)
  <2>3. Has(a, g, {"switched"})
    BY <1>3, <1>4, JoinedAll
  <2> QED
    BY <2>1, <2>2, <2>3
<1>9. Sound(ea, {g}) /\ ea \in Seq(Plans) /\ Uses(ea, P) /\ Has(ea, g, Acknowledging)
  <2>1. Sound(ea, {g}) /\ ea \in Seq(Plans)
    BY <1>4, SoundJoin DEF Sound
  <2>2. Uses(ea, P)
    <3>1. /\ Prepare(g) \in Seq(Plans) /\ Uses(Prepare(g), PrepareNames) /\ PrepareNames \subseteq P
          /\ Acknowledge(g) \in Seq(Plans) /\ Uses(Acknowledge(g), AcknowledgeNames)
                /\ AcknowledgeNames \subseteq P
      BY <1>4, <1>7
    <3> QED
      BY <3>1, UsesJoin
  <2>3. Has(ea, g, Acknowledging)
    BY <1>4, <1>5, JoinedAll
  <2> QED
    BY <2>1, <2>2, <2>3
<1> HIDE DEF a, ea
<1>10. Sound(e, {g}) /\ e \in Seq(Plans) /\ Has(e, g, Acknowledging) /\ Has(e, g, {"settled",
       "arm_unless_armed"})
       /\ Lacks(e, Recording)
  <2>1. Sound(e, {g}) /\ e \in Seq(Plans)
    BY <1>4, <1>9, SoundJoin DEF Sound
  <2>2. Has(e, g, Acknowledging) /\ Has(e, g, {"settled", "arm_unless_armed"})
    BY <1>4, <1>6, <1>9, JoinedAll
  <2>3. Lacks(ea, Recording) /\ Lacks(Arm(g), Recording)
    BY <1>4, <1>7, <1>9, UsesLacks
  <2>4. Lacks(e, Recording)
    BY <1>4, <1>9, <2>3, LacksJoin
  <2> QED
    BY <2>1, <2>2, <2>4
<1>11. \A h : Settles(e, h) /\ (h # g => Ruled(e, h)) /\ Resolves(e, h)
  <2>1. SUFFICES ASSUME NEW h PROVE Settles(e, h) /\ (h # g => Ruled(e, h)) /\ Resolves(e, h)
    OBVIOUS
  <2>2. Lacks(ea, Sensitive)
    BY <1>7, <1>9, UsesLacks
  <2>3. Settles(ea, h) /\ Resolves(ea, h)
    BY <2>2, TameParts
  <2>4. Settles(e, h)
    BY <1>4, <1>9, <2>3, ArmSettles, JoinedPrecedes DEF Settles
  <2>5. h # g => Ruled(e, h)
    <3>1. h # g => h \notin {g} /\ On(e, {g})
      BY <1>10 DEF Sound
    <3> QED
      BY <3>1, AbsentRuled
  <2>6. h = g => Resolves(e, h)
    BY <1>4, <1>9, <2>3, JoinedPrecedes DEF Resolves, Acknowledging
  <2> QED
    BY <2>4, <2>5, <2>6 DEF Ruled
<1> HIDE DEF e
<1>12. Sound(b, {g}) /\ b \in Seq(Plans) /\ Has(b, g, Acknowledging) /\ Has(b, g, {"settled",
       "arm_unless_armed"})
       /\ Lacks(b, Recording) /\ Has(b, g, {"switched"})
  <2>1. Sound(b, {g}) /\ b \in Seq(Plans)
    BY <1>8, <1>10, SoundJoin DEF Sound
  <2>2. Has(b, g, Acknowledging) /\ Has(b, g, {"settled", "arm_unless_armed"}) /\ Has(b, g,
        {"switched"})
    BY <1>8, <1>10, JoinedAll
  <2>3. Lacks(a, Recording)
    BY <1>7, <1>8, UsesLacks
  <2>4. Lacks(b, Recording)
    BY <1>8, <1>10, <2>3, LacksJoin
  <2> QED
    BY <2>1, <2>2, <2>4
<1>13. \A h : Settles(b, h) /\ Resolves(b, h)
  <2>1. SUFFICES ASSUME NEW h PROVE Settles(b, h) /\ Resolves(b, h)
    OBVIOUS
  <2>2. Lacks(a, Sensitive)
    BY <1>7, <1>8, UsesLacks
  <2>3. Settles(a, h) /\ Resolves(a, h)
    BY <2>2, TameParts
  <2> QED
    BY <1>8, <1>10, <1>11, <2>3, JoinedPrecedes DEF Settles, Resolves
<1> HIDE DEF b
<1>14. Sound(s, {g}) /\ s \in Seq(Plans) /\ Lacks(s, Recording)
  <2>1. Sound(s, {g}) /\ s \in Seq(Plans)
    BY <1>4, <1>12, SoundJoin DEF Sound
  <2>2. Lacks(Start(g), Recording)
    BY <1>4, <1>7, UsesLacks
  <2> QED
    BY <2>1, <2>2, <1>4, <1>12, LacksJoin
<1>15. ASSUME NEW h PROVE Ruled(s, h)
  <2>1. CASE h = g
    <3>1. Settles(s, h) /\ Resolves(s, h)
      BY <2>1, <1>4, <1>12, <1>13, JoinedPrecedes DEF Settles, Resolves, Acknowledging
    <3>2. HaltsFor(s, h) /\ RecordsFor(s, h)
      BY <1>14, Unrecorded
    <3> QED
      BY <3>1, <3>2 DEF Ruled
  <2>2. CASE h # g
    <3>1. h \notin {g} /\ On(s, {g})
      BY <2>2, <1>14 DEF Sound
    <3> QED
      BY <3>1, AbsentRuled
  <2> QED
    BY <2>1, <2>2
<1> QED
  BY <1>1, <1>14, <1>15

(* A sound list suits its operation.                                        *)
LEMMA SoundScript ==
  ASSUME NEW s, NEW o, NEW gs \in SUBSET Groups, Sound(s, gs),
         o \notin Arming => Lacks(s, Rising \cup {"arm_unless_armed"}),
         o \notin Maintenance => Lacks(s, Recording),
         o \in Dropping => Lacks(s, {"fault"})
  PROVE  Script(s, o, gs) /\ Fresh(s)
<1>1. s \in Seq(Plans) /\ Chained(s) /\ On(s, gs) /\ Fresh(s)
  BY DEF Sound
<1>2. On(s, gs \cup {"all"})
  BY <1>1, OnMore
<1>3. "all" \notin gs
  BY CoordinatorAssumption DEF CoordinatorAssumption
<1>4. Only(s, "all", Teardown)
  BY <1>1, <1>3 DEF Only, On
<1> QED
  BY <1>1, <1>2, <1>4 DEF Script

(* A scope is a set of groups, and a profile is for one.                    *)
LEMMA ScopesOfGroups ==
  ASSUME NEW action \in Actions, NEW gs \in Scopes(action)
  PROVE  gs \in SUBSET Groups /\ (action = "profile" => \E g \in Groups : gs = {g})
  BY CoordinatorAssumption DEF CoordinatorAssumption, Scopes, Actions

(* The words a program of rearming has *)
LEMMA SafeArmNames ==
  ASSUME NEW s, Uses(s, SafeNames \cup ArmNames)
  PROVE  Lacks(s, Recording) /\ Lacks(s, {"switched"})
<1>1. (SafeNames \cup ArmNames) \cap Recording = {} /\ (SafeNames \cup ArmNames) \cap {"switched"} = {}
  BY DEF SafeNames, InitNames, PrepareNames, AcknowledgeNames, ArmNames, Recording
<1> QED
  BY <1>1, UsesLacks

(* The stops keep the rules, ...                                            *)
LEMMA StopsSound ==
  ASSUME NEW gs \in SUBSET Groups
  PROVE  /\ Sound(Stops(gs), gs) /\ Stops(gs) \in Seq(Plans) /\ Lacks(Stops(gs), Sensitive)
         /\ Lacks(Stops(gs), Recording) /\ Lacks(Stops(gs), Rising \cup {"arm_unless_armed"})
         /\ Lacks(Stops(gs), {"fault"}) /\ Lacks(Stops(gs), {"switched"})
<1>1. Sound(Stops(gs), gs) /\ Uses(Stops(gs), StopNames)
  BY Phase
<1>2. StopNames \cap Sensitive = {} /\ StopNames \cap Recording = {}
      /\ StopNames \cap {"fault"} = {} /\ StopNames \cap {"switched"} = {}
      /\ StopNames \cap (Rising \cup {"arm_unless_armed"}) = {}
  BY DEF StopNames, Sensitive, Rising, Recording
<1> QED
  BY <1>1, <1>2, UsesLacks DEF Sound

(* ... a shutdown, ...                                                      *)
LEMMA ShutdownSound ==
  ASSUME NEW gs \in SUBSET Groups
  PROVE  /\ Script(Program("shutdown", gs), "shutdown", gs) /\ Fresh(Program("shutdown", gs))
         /\ \A g : Ruled(Program("shutdown", gs), g)
<1> DEFINE steps == [g \in gs |-> Stop(g) \o Steps(<<"stopped">>, g)]
           down == IF Frees(gs) THEN Steps(<<"to_unconfigured">>, "all") ELSE << >>
           names == Sensitive \cup {"arm_unless_armed", "fault"}
<1>1. Program("shutdown", gs) = Each(steps) \o down
  BY DEF Program, Maintenance, Shuts
<1>2. \A h \in gs : Sound(steps[h], {h}) /\ (\A g : Ruled(steps[h], g)) /\ Lacks(steps[h], names)
  <2>1. SUFFICES ASSUME NEW h \in gs
                 PROVE  LET s == Stop(h) \o Steps(<<"stopped">>, h)
                        IN  Sound(s, {h}) /\ (\A g : Ruled(s, g)) /\ Lacks(s, names)
    OBVIOUS
  <2>2. "stopped" \in Names /\ "stopped" \notin Followers /\ "stopped" \notin Starters
    BY DEF Names, Assigned, Followers, Starters
  <2> DEFINE one == Steps(<<"stopped">>, h)
  <2>3. Sound(one, {h}) /\ Uses(one, {"stopped"}) /\ one \in Seq(Plans)
    BY <2>2, OneStep DEF Sound
  <2>4. Uses(Stop(h), StopNames) /\ Stop(h) \in Seq(Plans) /\ Sound(Stop(h), {h})
    BY StopSound
  <2>5. StopNames \cap names = {} /\ {"stopped"} \cap names = {} /\ Sensitive \subseteq names
    BY DEF StopNames, Sensitive, Rising, Recording
  <2> HIDE DEF one, names
  <2>6. Lacks(Stop(h), names) /\ Lacks(one, names)
    BY <2>3, <2>4, <2>5, UsesLacks
  <2>7. Lacks(Stop(h) \o one, names)
    BY <2>3, <2>4, <2>6, LacksJoin
  <2>8. Lacks(Stop(h) \o one, Sensitive)
    BY <2>5, <2>7, LacksLess
  <2>9. \A g : Ruled(Stop(h) \o one, g)
    BY <2>8, TameRuled
  <2>10. Sound(Stop(h) \o one, {h})
    BY <2>3, <2>4, SoundJoin
  <2> QED
    BY <2>7, <2>9, <2>10 DEF one
<1>3. DOMAIN steps = gs /\ steps = [h \in gs |-> steps[h]]
  OBVIOUS
<1>4. down \in Seq(Plans) /\ Chained(down) /\ Fresh(down) /\ On(down, {"all"}) /\ Uses(down,
      {"to_unconfigured"})
  <2>1. CASE Frees(gs)
    <3>1. "to_unconfigured" \in Names /\ "to_unconfigured" \notin Followers
          /\ "to_unconfigured" \notin Starters
      BY DEF Names, Others, Followers, Starters
    <3> QED
      BY <2>1, <3>1, OneStep
  <2>2. CASE ~Frees(gs)
    BY <2>2 DEF Chained, Fresh, On, Uses
  <2> QED
    BY <2>1, <2>2
<1>0. {"to_unconfigured"} \cap names = {} /\ Sensitive \subseteq names
      /\ Rising \cup {"arm_unless_armed"} \subseteq names
      /\ Recording \subseteq names /\ {"fault"} \subseteq names
  BY DEF Sensitive, Rising, Recording
<1> HIDE DEF steps, down, names
<1> DEFINE s == Each(steps) \o down
<1>5. Sound(Each(steps), gs) /\ IsFiniteSet(gs) /\ steps \in [gs -> Seq(Plans)]
  BY <1>2, <1>3, SoundEach
<1>6. Each(steps) \in Seq(Plans) /\ Chained(Each(steps)) /\ On(Each(steps), gs)
      /\ Lacks(Each(steps), names)
      /\ Fresh(Each(steps))
  <2>1. Lacks(Each(steps), names)
    BY <1>2, <1>5, EachAll
  <2> QED
    BY <1>5, <2>1 DEF Sound
<1>7. Lacks(down, names)
  BY <1>0, <1>4, UsesLacks
<1>8. Lacks(s, names)
  BY <1>4, <1>6, <1>7, LacksJoin
<1>9. s \in Seq(Plans) /\ Chained(s) /\ Fresh(s)
  BY <1>4, <1>6, JoinedChain
<1>10. On(s, gs \cup {"all"})
  <2>1. On(Each(steps), gs \cup {"all"}) /\ On(down, gs \cup {"all"})
    BY <1>4, <1>6 DEF On
  <2> DEFINE g == "all"
  <2>2. Only(down, "all", {"to_unconfigured"})
    BY <1>4 DEF Only, Uses
  <2> QED
    BY <2>1, <1>4, <1>6, JoinedAll
<1>11. Only(s, "all", Teardown)
  <2>1. "all" \notin gs
    BY CoordinatorAssumption DEF CoordinatorAssumption
  <2>2. Only(Each(steps), "all", Teardown) /\ Only(down, "all", Teardown)
    BY <1>4, <1>6, <2>1 DEF Only, On, Uses, Teardown
  <2> QED
    BY <2>2, <1>4, <1>6, JoinedAll
<1> HIDE DEF s
<1>12. Lacks(s, Sensitive) /\ Lacks(s, Rising \cup {"arm_unless_armed"}) /\ Lacks(s, Recording)
       /\ Lacks(s, {"fault"})
  BY <1>0, <1>8, LacksLess
<1>13. \A g : Ruled(s, g)
  BY <1>12, TameRuled
<1>14. Script(s, "shutdown", gs)
  BY <1>9, <1>10, <1>11, <1>12 DEF Script
<1> QED
  BY <1>1, <1>9, <1>13, <1>14 DEF s

(* ... maintenance, ...                                                     *)
LEMMA MaintenanceSound ==
  ASSUME NEW action \in Maintenance, NEW gs \in SUBSET Groups
  PROVE  /\ Script(Program(action, gs), action, gs) /\ Fresh(Program(action, gs))
         /\ \A g : Ruled(Program(action, gs), g)
<1> DEFINE steps == [g \in gs |-> Stop(g) \o Maintain(g)]
<1>1. Program(action, gs) = Each(steps)
  BY DEF Program, Maintenance
<1>2. \A h \in gs : /\ Sound(steps[h], {h}) /\ (\A g : Ruled(steps[h], g))
                    /\ Lacks(steps[h], Rising \cup {"arm_unless_armed"}) /\ Lacks(steps[h], {"fault"})
  BY MaintainSound
<1>3. DOMAIN steps = gs /\ steps = [h \in gs |-> steps[h]]
  OBVIOUS
<1> HIDE DEF steps
<1>4. Sound(Each(steps), gs) /\ \A g : Ruled(Each(steps), g)
  BY <1>2, <1>3, EachRuled
<1>5. IsFiniteSet(gs) /\ steps \in [gs -> Seq(Plans)]
  BY <1>2, <1>3, SoundEach
<1>6. Lacks(Each(steps), Rising \cup {"arm_unless_armed"}) /\ Lacks(Each(steps), {"fault"})
  BY <1>2, <1>5, EachAll
<1>7. Script(Each(steps), action, gs) /\ Fresh(Each(steps))
  BY <1>4, <1>6, SoundScript
<1> QED
  BY <1>1, <1>4, <1>7

(* ... a profile switch, ...                                                *)
LEMMA ProfileSound ==
  ASSUME NEW g \in Groups
  PROVE  /\ Script(Program("profile", {g}), "profile", {g}) /\ Fresh(Program("profile", {g}))
         /\ \A h : Ruled(Program("profile", {g}), h)
<1> DEFINE steps == [h \in {g} |-> Switch(h)]
<1>1. Program("profile", {g}) = Each(steps)
  BY DEF Program, Maintenance
<1>2. steps[g] = Stop(g) \o (IF state[g] = "Running" THEN Restart(g) ELSE << >>)
  BY DEF Switch
<1>3. DOMAIN steps = {g} /\ steps = [h \in {g} |-> steps[h]] /\ {g} \in SUBSET Groups
  OBVIOUS
<1> HIDE DEF steps
<1> DEFINE s == steps[g]
<1>4. /\ Sound(s, {g}) /\ (\A h : Ruled(s, h)) /\ Lacks(s, Recording)
  <2>1. CASE state[g] # "Running"
    <3>1. s = Stop(g)
      <4>1. Stop(g) \in Seq(Plans)
        BY StopSound
      <4> QED
        BY <1>2, <2>1, <4>1
    <3> QED
      BY <3>1, StopSound
  <2>2. CASE state[g] = "Running"
    <3>1. s = Stop(g) \o Restart(g)
      BY <1>2, <2>2
    <3>2. Sound(s, {g}) /\ \A h : Ruled(s, h)
      BY <3>1, StopSound, RestartSound, RuledAfter
    <3>3. Restart(g) \in Seq(Plans)
      BY RestartSound DEF Sound
    <3>4. Lacks(s, Recording)
      <4>1. Stop(g) \in Seq(Plans) /\ Lacks(Stop(g), Recording) /\ Lacks(Restart(g), Recording)
        BY StopSound, RestartSound
      <4> QED
        BY <3>1, <3>3, <4>1, LacksJoin
    <3> QED
      BY <3>2, <3>4
  <2> QED
    BY <2>1, <2>2
<1>5. Sound(Each(steps), {g}) /\ \A h : Ruled(Each(steps), h)
  BY <1>3, <1>4, EachRuled
<1>6. IsFiniteSet({g}) /\ steps \in [{g} -> Seq(Plans)]
  BY <1>3, <1>4, SoundEach
<1>7. Lacks(Each(steps), Recording)
  BY <1>4, <1>6, EachAll
<1>10. Script(Each(steps), "profile", {g}) /\ Fresh(Each(steps))
  BY <1>3, <1>5, <1>7, SoundScript DEF Arming, Dropping, Maintenance
<1> QED
  BY <1>1, <1>5, <1>10

(* ... and every operation.                                                 *)
LEMMA ProgramSound ==
  ASSUME NEW action \in Actions, NEW gs \in Scopes(action)
  PROVE  /\ gs \in SUBSET Groups
         /\ Script(Program(action, gs), action, gs) /\ Fresh(Program(action, gs))
         /\ \A g : Ruled(Program(action, gs), g)
         /\ action = "profile" => \E g \in Groups : gs = {g}
<1> DEFINE s == Program(action, gs)
<1>1. gs \in SUBSET Groups /\ (action = "profile" => \E g \in Groups : gs = {g})
  BY ScopesOfGroups
<1>2. CASE action = "init"
  <2>1. s = Inits(gs)
    BY <1>2 DEF Program, Maintenance
  <2>2. Sound(Inits(gs), gs) /\ Uses(Inits(gs), InitNames)
    BY <1>1, Phase
  <2>3. InitNames \cap Sensitive = {} /\ InitNames \cap (Rising \cup {"arm_unless_armed"}) = {}
        /\ InitNames \cap Recording = {}
    BY DEF InitNames, Sensitive, Rising, Recording
  <2>4. Lacks(s, Sensitive) /\ Lacks(s, Rising \cup {"arm_unless_armed"}) /\ Lacks(s, Recording)
    BY <2>1, <2>2, <2>3, UsesLacks
  <2>5. \A g : Ruled(s, g)
    BY <2>4, TameRuled
  <2>6. Script(s, action, gs) /\ Fresh(s)
    BY <1>1, <1>2, <2>1, <2>2, <2>4, SoundScript DEF Dropping, Maintenance
  <2> QED
    BY <1>1, <1>2, <2>5, <2>6
<1>3. CASE action = "enable"
  <2>1. s = Enables(gs)
    BY <1>3 DEF Program, Maintenance
  <2>2. Sound(s, gs) /\ (\A g : Ruled(s, g)) /\ Lacks(s, Recording)
    BY <1>1, <2>1, EnablesSound, SafeArmNames
  <2> QED
    BY <1>1, <1>3, <2>2, SoundScript DEF Dropping, Maintenance, Arming
<1>4. CASE action = "resume"
  <2>1. s = Resumes(gs)
    BY <1>4 DEF Program, Maintenance
  <2> QED
    BY <1>1, <1>4, <2>1, ResumesSound, SoundScript DEF Dropping, Maintenance, Arming
<1>5. CASE action = "halt"
  <2>1. s = Stops(gs)
    BY <1>5 DEF Program, Maintenance
  <2>2. \A g : Ruled(s, g)
    BY <1>1, <2>1, StopsSound, TameRuled
  <2> QED
    BY <1>1, <1>5, <2>1, <2>2, StopsSound, SoundScript
<1>6. CASE action = "recover"
  <2>1. s = Stops(gs) \o Rearms(gs)
    BY <1>6 DEF Program, Maintenance
  <2>2. Sound(Rearms(gs), gs) /\ (\A g : Ruled(Rearms(gs), g)) /\ Lacks(Rearms(gs), Recording)
    BY <1>1, RearmsSound, SafeArmNames
  <2>3. Sound(s, gs) /\ \A g : Ruled(s, g)
    BY <1>1, <2>1, <2>2, StopsSound, RuledAfter
  <2>4. Lacks(s, Recording)
    BY <1>1, <2>1, <2>2, StopsSound, LacksJoin DEF Sound
  <2> QED
    BY <1>1, <1>6, <2>3, <2>4, SoundScript DEF Dropping, Maintenance, Arming
<1>7. CASE action = "recover_resource"
  <2> DEFINE one == Ones("rebuild", gs)
             a == Stops(gs) \o one
  <2>1. s = a \o Rearms(gs)
    BY <1>7 DEF Program, Maintenance
  <2>2. Sound(Rearms(gs), gs) /\ (\A g : Ruled(Rearms(gs), g)) /\ Lacks(Rearms(gs), Recording)
    BY <1>1, RearmsSound, SafeArmNames
  <2>3. Sound(one, gs) /\ Uses(one, {"rebuild"})
    <3>1. "rebuild" \in Names /\ "rebuild" \notin Followers /\ "rebuild" \notin Starters
      BY DEF Names, Checked, Followers, Starters
    <3> QED
      BY <1>1, <3>1, OnePhase
  <2>4. Lacks(one, Sensitive) /\ Lacks(one, Recording)
    <3>1. {"rebuild"} \cap Sensitive = {} /\ {"rebuild"} \cap Recording = {}
      BY DEF Sensitive, Rising, Recording
    <3> QED
      BY <2>3, <3>1, UsesLacks
  <2> HIDE DEF one
  <2>5. Sound(a, gs) /\ Lacks(a, Sensitive) /\ Lacks(a, Recording) /\ a \in Seq(Plans)
    <3>1. Sound(a, gs) /\ a \in Seq(Plans)
      BY <1>1, <2>3, StopsSound, SoundJoin DEF Sound
    <3>2. one \in Seq(Plans)
      BY <2>3 DEF Sound
    <3> QED
      BY <1>1, <2>4, <3>1, <3>2, StopsSound, LacksJoin
  <2> HIDE DEF a
  <2>6. Sound(s, gs) /\ \A g : Ruled(s, g)
    BY <1>1, <2>1, <2>2, <2>5, RuledAfter
  <2>7. Lacks(s, Recording)
    BY <1>1, <2>1, <2>2, <2>5, LacksJoin DEF Sound
  <2> QED
    BY <1>1, <1>7, <2>6, <2>7, SoundScript DEF Dropping, Maintenance, Arming
<1>8. CASE action = "shutdown"
  BY <1>1, <1>8, ShutdownSound
<1>9. CASE action = "profile"
  BY <1>1, <1>9, ProfileSound
<1>10. CASE action \in Maintenance
  <2>1. action # "profile"
    BY <1>10 DEF Maintenance
  <2> QED
    BY <1>1, <1>10, <2>1, MaintenanceSound
<1> QED
  BY <1>2, <1>3, <1>4, <1>5, <1>6, <1>7, <1>8, <1>9, <1>10 DEF Actions, Maintenance

-----------------------------------------------------------------------------
(* Which lists suit a thread.                                               *)

(* The steps of the monitor                                                 *)
MonitorNames == StopNames \cup {"fault", "condemned", "lock_dirty", "status", "resources", "suspect",
                                "confirm", "maintenance_lock"}
(* those that are for no group,                                             *)
RoundNames == {"lock_dirty", "status", "resources"}
(* and of the takeover                                                      *)
OwnerNames == {"owner_status", "owner_lost", "owner_list", "taken_over", "release_owned"}

(* Every stop ends in Fault.                                                *)
Faulted(s) == \A i \in 1..Len(s) : s[i].do \in StopNames =>
  \E j \in 1..Len(s) : i < j /\ s[j].on = s[i].on /\ s[j].do = "fault"

(* What the monitor works through                                           *)
Watch(s, o) ==
  /\ s \in Seq(Plans) /\ Chained(s) /\ Uses(s, MonitorNames) /\ Only(s, "all", RoundNames)
  /\ o = "converge" => Uses(s, StopNames \cup {"fault"}) /\ Faulted(s)

(* What the takeover works through                                          *)
Takes(s) == s \in Seq(Plans) /\ Chained(s) /\ Uses(s, OwnerNames) /\ On(s, {"all"})

(* A list for thread t with operation o that holds gs                       *)
Suits(t, o, gs, s) ==
  /\ t \in Workers => Script(s, o, gs)
  /\ t = "monitor" => Watch(s, o)
  /\ t = "owner" => Takes(s)

(* A list that suits a thread is a chained list.                            *)
LEMMA SuitsBasic ==
  ASSUME NEW t \in Threads, NEW o, NEW gs, NEW s, Suits(t, o, gs, s)
  PROVE  s \in Seq(Plans) /\ Chained(s)
  BY DEF Threads, Suits, Script, Watch, Takes

(* The empty list suits every thread.                                       *)
LEMMA SuitsEmpty == \A t, o, gs : Suits(t, o, gs, << >>) /\ << >> \in Seq(Plans)
  BY DEF Suits, Script, Watch, Takes, Chained, On, Only, Lacks, Uses, Faulted

(* The group of a step of a worker *)
LEMMA HeadOf ==
  ASSUME NEW t \in Threads, NEW o, NEW gs \in SUBSET Groups, NEW s, Suits(t, o, gs, s), s # << >>
  PROVE  /\ Head(s) = s[1] /\ s[1] \in Plans /\ 1 \in 1..Len(s)
         /\ t \in Workers /\ s[1].do \notin Teardown => s[1].on \in gs /\ s[1].on # "all"
         /\ t \in Workers /\ o # "shutdown" => s[1].on \in gs /\ s[1].on # "all"
         /\ t = "monitor" => s[1].do \in MonitorNames /\ (s[1].do \notin RoundNames
               => s[1].on \in Groups)
         /\ t = "owner" => s[1].do \in OwnerNames /\ s[1].on = "all"
<1>1. s \in Seq(Plans)
  BY SuitsBasic
<1>2. Head(s) = s[1] /\ s[1] \in Plans /\ 1 \in 1..Len(s)
  BY <1>1, Rest
<1>3. "all" \notin gs
  BY CoordinatorAssumption DEF CoordinatorAssumption
<1>4. s[1].on \in Groups \cup {"all"}
  BY <1>2 DEF Plans
<1>5. CASE t \in Workers
  <2>1. On(s, gs \cup {"all"}) /\ Only(s, "all", Teardown) /\ (o # "shutdown" => On(s, gs))
    BY <1>5 DEF Suits, Script
  <2>2. t # "monitor" /\ t # "owner"
    BY <1>5, CoordinatorAssumption DEF CoordinatorAssumption
  <2> QED
    BY <1>2, <1>3, <2>1, <2>2 DEF On, Only
<1>6. CASE t = "monitor"
  <2>1. Uses(s, MonitorNames) /\ Only(s, "all", RoundNames)
    BY <1>6 DEF Suits, Watch
  <2>2. t \notin Workers
    BY <1>6, CoordinatorAssumption DEF CoordinatorAssumption
  <2> QED
    BY <1>2, <1>4, <1>6, <2>1, <2>2 DEF Uses, Only
<1>7. CASE t = "owner"
  <2>1. t \notin Workers
    BY <1>7, CoordinatorAssumption DEF CoordinatorAssumption
  <2> QED
    BY <1>2, <1>7, <2>1 DEF Suits, Takes, Uses, On
<1> QED
  BY <1>5, <1>6, <1>7 DEF Threads

(* The rest of a list that suits does.                                      *)
LEMMA SuitsTail ==
  ASSUME NEW t \in Threads, NEW o, NEW gs, NEW s, Suits(t, o, gs, s), s # << >>
  PROVE  Suits(t, o, gs, Tail(s))
<1> DEFINE r == Tail(s)
<1>1. s \in Seq(Plans) /\ Chained(s)
  BY SuitsBasic
<1>2. r \in Seq(Plans) /\ Chained(r)
  BY <1>1, Rest, RestChain
<1>3. /\ Len(s) \in Nat /\ Len(r) = Len(s) - 1
      /\ \A i \in 1..Len(r) : i + 1 \in 1..Len(s) /\ r[i] = s[i + 1]
      /\ \A k \in 1..Len(s) : k = 1 \/ \E i \in 1..Len(r) : k = i + 1
  BY <1>1, Rest
<1> HIDE DEF r
<1>4. ASSUME NEW names
      PROVE  /\ Uses(s, names) => Uses(r, names)
             /\ Lacks(s, names) => Lacks(r, names)
             /\ On(s, names) => On(r, names)
             /\ Only(s, "all", names) => Only(r, "all", names)
  BY <1>3 DEF Uses, Lacks, On, Only
<1>5. Faulted(s) => Faulted(r)
  <2>1. SUFFICES ASSUME Faulted(s), NEW i \in 1..Len(r), r[i].do \in StopNames
                 PROVE  \E j \in 1..Len(r) : i < j /\ r[j].on = r[i].on /\ r[j].do = "fault"
    BY DEF Faulted
  <2>2. i + 1 \in 1..Len(s) /\ r[i] = s[i + 1]
    BY <1>3
  <2>3. PICK j \in 1..Len(s) : i + 1 < j /\ s[j].on = s[i + 1].on /\ s[j].do = "fault"
    BY <2>1, <2>2 DEF Faulted
  <2>4. PICK k \in 1..Len(r) : j = k + 1
    BY <1>3, <2>3
  <2> QED
    BY <1>3, <2>2, <2>3, <2>4, SMTT(30)
<1>6. t \in Workers => Script(r, o, gs)
  BY <1>2, <1>4 DEF Suits, Script
<1>7. t = "monitor" => Watch(r, o)
  BY <1>2, <1>4, <1>5 DEF Suits, Watch
<1>8. t = "owner" => Takes(r)
  BY <1>2, <1>4 DEF Suits, Takes
<1> QED
  BY <1>6, <1>7, <1>8 DEF Suits, r

(* Joined, for lists of steps *)
LEMMA JoinedPlans ==
  ASSUME NEW a \in Seq(Plans), NEW b \in Seq(Plans)
  PROVE  /\ a \o b \in Seq(Plans) /\ Len(a) \in Nat /\ Len(b) \in Nat /\ Len(a \o b) = Len(a) + Len(b)
         /\ \A i \in 1..Len(a) : i \in 1..Len(a \o b) /\ (a \o b)[i] = a[i]
         /\ \A i \in 1..Len(b) : Len(a) + i \in 1..Len(a \o b) /\ (a \o b)[Len(a) + i] = b[i]
         /\ \A k \in 1..Len(a \o b) : k \in 1..Len(a) \/ \E i \in 1..Len(b) : k = Len(a) + i
<1>1. Len(a) \in Nat /\ Len(b) \in Nat
  OBVIOUS
<1> QED
  BY <1>1, Joined

(* What holds of all steps of two lists *)
LEMMA JoinedSets ==
  ASSUME NEW a \in Seq(Plans), NEW b \in Seq(Plans), NEW names
  PROVE  /\ Uses(a, names) /\ Uses(b, names) => Uses(a \o b, names)
         /\ Lacks(a, names) /\ Lacks(b, names) => Lacks(a \o b, names)
         /\ On(a, names) /\ On(b, names) => On(a \o b, names)
         /\ Only(a, "all", names) /\ Only(b, "all", names) => Only(a \o b, "all", names)
<1> DEFINE c == a \o b
<1>2. /\ c \in Seq(Plans) /\ Len(a) \in Nat /\ Len(b) \in Nat /\ Len(c) = Len(a) + Len(b)
      /\ \A i \in 1..Len(a) : i \in 1..Len(c) /\ c[i] = a[i]
      /\ \A i \in 1..Len(b) : Len(a) + i \in 1..Len(c) /\ c[Len(a) + i] = b[i]
      /\ \A k \in 1..Len(c) : k \in 1..Len(a) \/ \E i \in 1..Len(b) : k = Len(a) + i
  BY JoinedPlans
<1> HIDE DEF c
<1>3. Uses(a, names) /\ Uses(b, names) => Uses(c, names)
  BY <1>2 DEF Uses
<1>4. Lacks(a, names) /\ Lacks(b, names) => Lacks(c, names)
  BY <1>2 DEF Lacks
<1>5. On(a, names) /\ On(b, names) => On(c, names)
  BY <1>2 DEF On
<1>6. Only(a, "all", names) /\ Only(b, "all", names) => Only(c, "all", names)
  BY <1>2 DEF Only
<1> QED
  BY <1>3, <1>4, <1>5, <1>6 DEF c

(* The joining of lists, whatever their chain *)
LEMMA SuitsJoined ==
  ASSUME NEW t \in Threads, NEW o, NEW gs, NEW a, NEW b, Suits(t, o, gs, a), Suits(t, o, gs, b),
         Chained(a \o b)
  PROVE  Suits(t, o, gs, a \o b)
<1> DEFINE c == a \o b
<1>1. a \in Seq(Plans) /\ b \in Seq(Plans)
  BY SuitsBasic
<1>2. /\ c \in Seq(Plans) /\ Len(a) \in Nat /\ Len(b) \in Nat /\ Len(c) = Len(a) + Len(b)
      /\ \A i \in 1..Len(a) : i \in 1..Len(c) /\ c[i] = a[i]
      /\ \A i \in 1..Len(b) : Len(a) + i \in 1..Len(c) /\ c[Len(a) + i] = b[i]
      /\ \A k \in 1..Len(c) : k \in 1..Len(a) \/ \E i \in 1..Len(b) : k = Len(a) + i
  BY <1>1, Joined
<1> HIDE DEF c
<1>4. \A names :
             /\ Uses(a, names) /\ Uses(b, names) => Uses(c, names)
             /\ Lacks(a, names) /\ Lacks(b, names) => Lacks(c, names)
             /\ On(a, names) /\ On(b, names) => On(c, names)
             /\ Only(a, "all", names) /\ Only(b, "all", names) => Only(c, "all", names)
  BY <1>1, JoinedSets DEF c
<1>5. Faulted(a) /\ Faulted(b) => Faulted(c)
  <2>1. SUFFICES ASSUME Faulted(a), Faulted(b), NEW k \in 1..Len(c), c[k].do \in StopNames
                 PROVE  \E j \in 1..Len(c) : k < j /\ c[j].on = c[k].on /\ c[j].do = "fault"
    BY DEF Faulted
  <2>2. CASE k \in 1..Len(a)
    <3>1. c[k] = a[k]
      BY <1>2, <2>2
    <3>2. PICK j \in 1..Len(a) : k < j /\ a[j].on = a[k].on /\ a[j].do = "fault"
      BY <2>1, <2>2, <3>1 DEF Faulted
    <3> QED
      BY <1>2, <3>1, <3>2
  <2>3. CASE k \notin 1..Len(a)
    <3>1. PICK i \in 1..Len(b) : k = Len(a) + i
      BY <1>2, <2>3
    <3>2. PICK j \in 1..Len(b) : i < j /\ b[j].on = b[i].on /\ b[j].do = "fault"
      BY <1>2, <2>1, <3>1 DEF Faulted
    <3>3. Len(a) + j \in 1..Len(c) /\ c[Len(a) + j] = b[j] /\ c[k] = b[i] /\ k < Len(a) + j
      BY <1>2, <3>1, <3>2
    <3> QED
      BY <3>2, <3>3
  <2> QED
    BY <2>2, <2>3
<1>3. Chained(c)
  BY DEF c
<1>6. t \in Workers => Script(c, o, gs)
  BY <1>2, <1>3, <1>4 DEF Suits, Script
<1>7. t = "monitor" => Watch(c, o)
  BY <1>2, <1>3, <1>4, <1>5 DEF Suits, Watch
<1>8. t = "owner" => Takes(c)
  BY <1>2, <1>3, <1>4 DEF Suits, Takes
<1> QED
  BY <1>6, <1>7, <1>8 DEF Suits, c

(* Lists that suit make one that suits.                                     *)
LEMMA SuitsJoin ==
  ASSUME NEW t \in Threads, NEW o, NEW gs, NEW a, NEW b, Suits(t, o, gs, a), Suits(t, o, gs, b),
         Fresh(b)
  PROVE  Suits(t, o, gs, a \o b)
<1>1. a \in Seq(Plans) /\ Chained(a) /\ b \in Seq(Plans) /\ Chained(b)
  BY SuitsBasic
<1>2. Chained(a \o b)
  BY <1>1, JoinedChain
<1> QED
  BY <1>2, SuitsJoined

(* Going on with `steps` before the rest *)
LEMMA SuitsInsert ==
  ASSUME NEW t \in Threads, NEW o, NEW gs, NEW s, Suits(t, o, gs, s), s # << >>,
         NEW steps, Suits(t, o, gs, steps), steps = << >> \/ s[1].do \notin Leaders
  PROVE  Suits(t, o, gs, steps \o Tail(s))
<1>1. Suits(t, o, gs, Tail(s)) /\ s \in Seq(Plans) /\ Chained(s)
  BY SuitsTail, SuitsBasic
<1>2. Tail(s) \in Seq(Plans)
  BY <1>1, Rest
<1>3. CASE steps = << >>
  <2>1. steps \o Tail(s) = Tail(s)
    BY <1>2, <1>3
  <2> QED
    BY <1>1, <2>1
<1>4. CASE steps # << >>
  <2>1. Fresh(Tail(s))
    BY <1>1, <1>4, RestChain
  <2> QED
    BY <1>1, <2>1, SuitsJoin
<1> QED
  BY <1>3, <1>4

(* The step a stop inserts.                                                 *)
LEMMA ReleaseStep ==
  ASSUME NEW g \in Groups
  PROVE  LET one == Steps(<<"release">>, g)
         IN  /\ one \in Seq(Plans) /\ Chained(one) /\ On(one, {g}) /\ Uses(one, {"release"})
             /\ Len(one) = 1 /\ one[1].do = "release" /\ one[1].on = g
<1>1. "release" \in Names /\ "release" \notin Starters /\ g \in Groups \cup {"all"}
  BY DEF Names, Mutations, Starters
<1>2. Steps(<<"release">>, g) \in Seq(Plans) /\ Chained(Steps(<<"release">>, g))
  BY <1>1, OneStep
<1>3. On(Steps(<<"release">>, g), {g}) /\ Uses(Steps(<<"release">>, g), {"release"})
  BY <1>1, OneStep
<1>4. /\ Len(Steps(<<"release">>, g)) = 1 /\ Steps(<<"release">>, g)[1].do = "release"
      /\ Steps(<<"release">>, g)[1].on = g
  BY <1>1, OneStep
<1> QED
  BY <1>2, <1>3, <1>4

(* A controller that was found active is released before the stop is concluded *)
LEMMA SuitsRelease ==
  ASSUME NEW t \in Threads, NEW o, NEW gs \in SUBSET Groups, NEW s, Suits(t, o, gs, s), s # << >>,
         s[1].do = "list", t # "owner"
  PROVE  /\ Suits(t, o, gs, Steps(<<"release">>, s[1].on) \o Tail(s))
         /\ Tail(s) \in Seq(Plans) /\ Steps(<<"release">>, s[1].on) \in Seq(Plans)
<1> DEFINE g == s[1].on
           one == Steps(<<"release">>, g)
           r == Tail(s)
<1>0. "release" \in Names /\ "release" \notin Starters /\ "list" \notin Teardown
      /\ "list" \notin RoundNames
      /\ {"release"} \cap (Rising \cup {"arm_unless_armed"}) = {} /\ {"release"} \cap Recording = {}
      /\ {"release"} \cap {"fault"} = {} /\ "release" \in StopNames /\ "release" \in MonitorNames
  BY DEF Names, Mutations, Starters, Teardown, RoundNames, Rising, Recording, StopNames,
         MonitorNames
<1>1. s \in Seq(Plans) /\ Chained(s) /\ Suits(t, o, gs, r)
  BY SuitsBasic, SuitsTail
<1>2. g \in Groups /\ (t \in Workers => g \in gs)
  BY <1>0, HeadOf DEF Threads
<1>3. one \in Seq(Plans) /\ Chained(one) /\ On(one, {g}) /\ Uses(one, {"release"})
      /\ Len(one) = 1 /\ one[1].do = "release" /\ one[1].on = g
  BY <1>2, ReleaseStep
<1>4. r \in Seq(Plans) /\ Chained(r) /\ (Len(r) > 0 => Leads(s[1], r[1]))
  BY <1>1, Rest, RestChain
<1> HIDE DEF one, r, g
<1>5. Chained(one \o r)
  <2> DEFINE c == one \o r
  <2>1. /\ c \in Seq(Plans) /\ Len(one) \in Nat /\ Len(r) \in Nat /\ Len(c) = 1 + Len(r)
        /\ \A i \in 1..1 : i \in 1..Len(c) /\ c[i] = one[i]
        /\ \A i \in 1..Len(r) : 1 + i \in 1..Len(c) /\ c[1 + i] = r[i]
        /\ \A k \in 1..Len(c) : k \in 1..1 \/ \E i \in 1..Len(r) : k = 1 + i
    <3>1. /\ c \in Seq(Plans) /\ Len(c) = Len(one) + Len(r)
          /\ \A i \in 1..Len(one) : i \in 1..Len(c) /\ c[i] = one[i]
          /\ \A i \in 1..Len(r) : Len(one) + i \in 1..Len(c) /\ c[Len(one) + i] = r[i]
          /\ \A k \in 1..Len(c) : k \in 1..Len(one) \/ \E i \in 1..Len(r) : k = Len(one) + i
      <4>1. one \in Seq(Plans) /\ r \in Seq(Plans)
        BY <1>3, <1>4
      <4> QED
        BY <4>1, JoinedPlans
    <3>2. Len(r) \in Nat /\ Len(one) = 1
      BY <1>3, <1>4
    <3> QED
      BY <3>1, <3>2
  <2> HIDE DEF c
  <2>2. c[1].do = "release" /\ c[1].on = g
    BY <1>3, <2>1
  <2>3. ASSUME NEW i \in 1..Len(c), NEW j \in 1..Len(c), j = i + 1 PROVE Leads(c[i], c[j])
    <3>1. CASE i = 1
      <4>1. Len(r) > 0 /\ c[j] = r[1] /\ 1 \in 1..Len(r)
        BY <2>1, <2>3, <3>1
      <4>2. Leads(s[1], r[1])
        BY <1>4, <4>1
      <4> QED
        BY <2>2, <3>1, <4>1, <4>2, <1>0 DEF Leads, Followers, Starters, g
    <3>2. CASE i # 1
      <4>1. i - 1 \in 1..Len(r) /\ j - 1 \in 1..Len(r) /\ c[i] = r[i - 1] /\ c[j] = r[j - 1]
            /\ j - 1 = (i - 1) + 1
        BY <2>1, <2>3, <3>2
      <4> QED
        BY <1>4, <4>1 DEF Chained
    <3> QED
      BY <3>1, <3>2
  <2>4. Len(c) > 0 => c[Len(c)].do \notin Starters
    <3>1. CASE Len(r) = 0
      BY <2>1, <2>2, <3>1, <1>0
    <3>2. CASE Len(r) > 0
      <4>1. c[Len(c)] = r[Len(r)]
        BY <2>1, <3>2
      <4> QED
        BY <1>4, <3>2, <4>1 DEF Chained
    <3> QED
      BY <2>1, <3>1, <3>2
  <2> QED
    BY <2>3, <2>4 DEF Chained, c
<1> DEFINE c == one \o r
<1>6. \A names :
             /\ Uses(one, names) /\ Uses(r, names) => Uses(c, names)
             /\ Lacks(one, names) /\ Lacks(r, names) => Lacks(c, names)
             /\ On(one, names) /\ On(r, names) => On(c, names)
             /\ Only(one, "all", names) /\ Only(r, "all", names) => Only(c, "all", names)
  BY <1>3, <1>4, JoinedSets
<1>7. c \in Seq(Plans) /\ Chained(c)
  BY <1>3, <1>4, <1>5, Joined
<1>8. \A names : Only(one, "all", names)
  <2>1. g # "all"
    BY <1>2, CoordinatorAssumption DEF CoordinatorAssumption
  <2> QED
    BY <1>3, <2>1 DEF Only, On
<1> HIDE DEF c
<1>9. t \in Workers => Script(c, o, gs)
  <2>1. t \in Workers => On(one, gs) /\ On(one, gs \cup {"all"})
    BY <1>2, <1>3 DEF On
  <2>2. Lacks(one, Rising \cup {"arm_unless_armed"}) /\ Lacks(one, Recording) /\ Lacks(one, {"fault"})
    BY <1>0, <1>3, UsesLacks
  <2>3. t \in Workers => Script(r, o, gs)
    BY <1>1 DEF Suits, r
  <2> QED
    BY <1>6, <1>7, <1>8, <2>1, <2>2, <2>3 DEF Script
<1>10. t = "monitor" => Watch(c, o)
  <2>1. t = "monitor" => Watch(r, o)
    BY <1>1 DEF Suits, r
  <2>2. Uses(one, MonitorNames) /\ Uses(one, StopNames \cup {"fault"})
    BY <1>0, <1>3 DEF Uses
  <2>3. ASSUME t = "monitor", o = "converge" PROVE Faulted(c)
    <3>1. Faulted(s) /\ Faulted(r)
      BY <2>1, <2>3 DEF Suits, Watch
    <3>2. PICK j \in 1..Len(s) : 1 < j /\ s[j].on = g /\ s[j].do = "fault"
      <4>1. 1 \in 1..Len(s) /\ s[1].do \in StopNames
        BY <1>1, Rest DEF StopNames
      <4> QED
        BY <3>1, <4>1 DEF Faulted, g
    <3>3. PICK k \in 1..Len(r) : j = k + 1 /\ r[k] = s[j]
      BY <1>1, <3>2, Rest DEF r
    <3>4. /\ Len(c) = 1 + Len(r) /\ Len(r) \in Nat
          /\ \A i \in 1..1 : i \in 1..Len(c) /\ c[i] = one[i]
          /\ \A i \in 1..Len(r) : 1 + i \in 1..Len(c) /\ c[1 + i] = r[i]
          /\ \A i \in 1..Len(c) : i \in 1..1 \/ \E m \in 1..Len(r) : i = 1 + m
      <4>1. /\ Len(c) = Len(one) + Len(r)
            /\ \A i \in 1..Len(one) : i \in 1..Len(c) /\ c[i] = one[i]
            /\ \A i \in 1..Len(r) : Len(one) + i \in 1..Len(c) /\ c[Len(one) + i] = r[i]
            /\ \A i \in 1..Len(c) : i \in 1..Len(one) \/ \E m \in 1..Len(r) : i = Len(one) + m
        <5>1. one \in Seq(Plans) /\ r \in Seq(Plans)
          BY <1>3, <1>4
        <5> QED
          BY <5>1, JoinedPlans DEF c
      <4>2. Len(r) \in Nat /\ Len(one) = 1
        BY <1>3, <1>4
      <4> QED
        BY <4>1, <4>2
    <3>5. SUFFICES ASSUME NEW i \in 1..Len(c), c[i].do \in StopNames
                   PROVE  \E m \in 1..Len(c) : i < m /\ c[m].on = c[i].on /\ c[m].do = "fault"
      BY DEF Faulted
    <3>6. CASE i = 1
      <4>1. c[i].on = g
        BY <1>3, <3>4, <3>6
      <4>2. 1 + k \in 1..Len(c) /\ c[1 + k] = r[k] /\ i < 1 + k
        BY <3>3, <3>4, <3>6
      <4> QED
        BY <3>2, <3>3, <4>1, <4>2
    <3>7. CASE i # 1
      <4>1. PICK m \in 1..Len(r) : i = 1 + m
        BY <3>4, <3>7
      <4>2. PICK n \in 1..Len(r) : m < n /\ r[n].on = r[m].on /\ r[n].do = "fault"
        BY <3>1, <3>4, <3>5, <4>1 DEF Faulted
      <4> QED
        BY <3>4, <4>1, <4>2, SMTT(30)
    <3> QED
      BY <3>6, <3>7
  <2> QED
    BY <1>6, <1>7, <1>8, <2>1, <2>2, <2>3 DEF Watch
<1> QED
  BY <1>3, <1>4, <1>9, <1>10 DEF Suits, c, one, r, g

(* The steps of a stop that ends in Fault                                   *)
FaultNames == StopNames \cup {"fault"}

(* A stop after which the group becomes Fault *)
LEMMA StopToFaultSound ==
  ASSUME NEW g \in Groups
  PROVE  /\ Sound(StopToFault(g), {g}) /\ StopToFault(g) \in Seq(Plans)
         /\ Uses(StopToFault(g), FaultNames) /\ Faulted(StopToFault(g)) /\ Has(StopToFault(g),
               g, {"fault"})
<1> DEFINE one == Steps(<<"fault">>, g)
           a == Stop(g)
           s == a \o one
<1>1. "fault" \in Names /\ "fault" \notin Followers /\ "fault" \notin Starters
      /\ g \in Groups \cup {"all"}
  BY DEF Names, Assigned, Followers, Starters
<1>2. one \in Seq(Plans) /\ Sound(one, {g}) /\ Uses(one, {"fault"})
      /\ Len(one) = 1 /\ one[1].do = "fault" /\ one[1].on = g
  BY <1>1, OneStep DEF Sound
<1>3. a \in Seq(Plans) /\ Sound(a, {g}) /\ Uses(a, StopNames)
  BY StopSound
<1> HIDE DEF one, a
<1>4. Sound(s, {g}) /\ s \in Seq(Plans)
  BY <1>2, <1>3, SoundJoin DEF Sound
<1>5. Uses(s, FaultNames)
  BY <1>2, <1>3, UsesJoin DEF FaultNames
<1>6. /\ Len(a) \in Nat /\ Len(one) = 1 /\ Len(s) = Len(a) + Len(one)
      /\ \A i \in 1..Len(a) : i \in 1..Len(s) /\ s[i] = a[i]
      /\ \A i \in 1..Len(one) : Len(a) + i \in 1..Len(s) /\ s[Len(a) + i] = one[i]
      /\ \A k \in 1..Len(s) : k \in 1..Len(a) \/ \E i \in 1..Len(one) : k = Len(a) + i
  BY <1>2, <1>3, JoinedPlans
<1>7. Len(a) + 1 \in 1..Len(s) /\ s[Len(a) + 1].do = "fault" /\ s[Len(a) + 1].on = g
  BY <1>2, <1>6
<1>8. On(s, {g})
  BY <1>4 DEF Sound
<1> HIDE DEF s
<1>9. Has(s, g, {"fault"})
  BY <1>7 DEF Has
<1>10. Faulted(s)
  <2>1. SUFFICES ASSUME NEW k \in 1..Len(s), s[k].do \in StopNames
                 PROVE  \E j \in 1..Len(s) : k < j /\ s[j].on = s[k].on /\ s[j].do = "fault"
    BY DEF Faulted
  <2>2. k # Len(a) + 1
    BY <1>7, <2>1 DEF StopNames
  <2>3. k < Len(a) + 1
    BY <1>6, <2>2
  <2>4. s[k].on = g
    BY <1>8 DEF On
  <2> QED
    BY <1>7, <2>3, <2>4
<1> QED
  BY <1>4, <1>5, <1>9, <1>10 DEF s, a, one, StopToFault

(* A stop that ends in Fault keeps every rule.                              *)
LEMMA FaultTame ==
  ASSUME NEW s, Uses(s, FaultNames)
  PROVE  /\ Lacks(s, Sensitive) /\ Lacks(s, {"switched"}) /\ Lacks(s, Rising \cup {"arm_unless_armed"})
         /\ Lacks(s, Recording) /\ Uses(s, MonitorNames)
<1>1. FaultNames \cap Sensitive = {} /\ FaultNames \cap {"switched"} = {}
      /\ FaultNames \cap (Rising \cup {"arm_unless_armed"}) = {} /\ FaultNames \cap Recording = {}
      /\ FaultNames \subseteq MonitorNames
  BY DEF FaultNames, StopNames, Sensitive, Rising, Recording, MonitorNames
<1> QED
  BY <1>1, UsesLacks DEF Uses

(* Two lists in which every stop leads to Fault *)
LEMMA FaultedJoin ==
  ASSUME NEW a \in Seq(Plans), NEW b \in Seq(Plans), Faulted(a), Faulted(b)
  PROVE  Faulted(a \o b)
<1> DEFINE c == a \o b
<1>2. /\ Len(a) \in Nat /\ Len(b) \in Nat /\ Len(c) = Len(a) + Len(b)
      /\ \A i \in 1..Len(a) : i \in 1..Len(c) /\ c[i] = a[i]
      /\ \A i \in 1..Len(b) : Len(a) + i \in 1..Len(c) /\ c[Len(a) + i] = b[i]
      /\ \A k \in 1..Len(c) : k \in 1..Len(a) \/ \E i \in 1..Len(b) : k = Len(a) + i
  BY JoinedPlans
<1> HIDE DEF c
<1>3. SUFFICES ASSUME NEW k \in 1..Len(c), c[k].do \in StopNames
               PROVE  \E j \in 1..Len(c) : k < j /\ c[j].on = c[k].on /\ c[j].do = "fault"
  BY DEF Faulted, c
<1>4. CASE k \in 1..Len(a)
  <2>1. c[k] = a[k]
    BY <1>2, <1>4
  <2>2. PICK j \in 1..Len(a) : k < j /\ a[j].on = a[k].on /\ a[j].do = "fault"
    BY <1>3, <1>4, <2>1 DEF Faulted
  <2> QED
    BY <1>2, <2>1, <2>2
<1>5. CASE k \notin 1..Len(a)
  <2>1. PICK i \in 1..Len(b) : k = Len(a) + i
    BY <1>2, <1>5
  <2>2. PICK j \in 1..Len(b) : i < j /\ b[j].on = b[i].on /\ b[j].do = "fault"
    BY <1>2, <1>3, <2>1 DEF Faulted
  <2>3. Len(a) + j \in 1..Len(c) /\ c[Len(a) + j] = b[j] /\ c[k] = b[i] /\ k < Len(a) + j
    BY <1>2, <2>1, <2>2
  <2> QED
    BY <2>2, <2>3
<1> QED
  BY <1>4, <1>5

(* converge() *)
LEMMA ConvergeSound ==
  /\ Watch(ConvergeSteps, "converge")
  /\ \A g \in Groups : Has(ConvergeSteps, g, {"fault"})
<1> DEFINE steps == [g \in Groups |-> StopToFault(g)]
           s == Each(steps)
<1>1. \A h \in Groups : /\ Sound(steps[h], {h}) /\ steps[h] \in Seq(Plans) /\ Uses(steps[h], FaultNames)
                        /\ Faulted(steps[h]) /\ Has(steps[h], h, {"fault"})
  BY StopToFaultSound
<1>2. DOMAIN steps = Groups /\ steps = [h \in Groups |-> steps[h]] /\ Groups \in SUBSET Groups
  OBVIOUS
<1> HIDE DEF steps
<1>3. Sound(s, Groups) /\ IsFiniteSet(Groups) /\ steps \in [Groups -> Seq(Plans)]
  BY <1>1, <1>2, SoundEach
<1>4. Uses(s, FaultNames)
  BY <1>1, <1>3, EachAll
<1>5. \A g \in Groups : Has(s, g, {"fault"})
  BY <1>1, <1>3, EachReaches
<1>6. Faulted(s)
  <2> DEFINE C == {x \in Seq(Plans) : Faulted(x)}
  <2>1. << >> \in C
    BY DEF Faulted
  <2>2. \A a, b \in C : a \in Seq(Plans) /\ b \in Seq(Plans) => a \o b \in C
    <3>1. SUFFICES ASSUME NEW a \in C, NEW b \in C PROVE a \o b \in C
      OBVIOUS
    <3>2. a \in Seq(Plans) /\ b \in Seq(Plans) /\ Faulted(a) /\ Faulted(b) /\ a \o b \in Seq(Plans)
      OBVIOUS
    <3>3. Faulted(a \o b)
      BY <3>2, FaultedJoin
    <3> QED
      BY <3>2, <3>3
  <2>3. \A h \in Groups : steps[h] \in C
    BY <1>1
  <2> HIDE DEF C
  <2>4. s \in C
    BY <1>3, <2>1, <2>2, <2>3, EachIn
  <2> QED
    BY <2>4 DEF C
<1>7. Only(s, "all", RoundNames)
  <2>1. On(s, Groups) /\ "all" \notin Groups
    BY <1>3, CoordinatorAssumption DEF Sound, CoordinatorAssumption
  <2> QED
    BY <2>1 DEF On, Only
<1>8. s \in Seq(Plans) /\ Chained(s) /\ Uses(s, MonitorNames)
  BY <1>3, <1>4, FaultTame DEF Sound
<1> HIDE DEF s
<1>9. Watch(s, "converge")
  BY <1>4, <1>6, <1>7, <1>8 DEF Watch, FaultNames
<1> QED
  BY <1>5, <1>9 DEF s, steps, ConvergeSteps

(* The steps of a list.                                                     *)
LEMMA Members ==
  ASSUME NEW s \in Seq(Plans)
  PROVE  \A k \in 1..Len(s) : s[k] \in ToSet(s)
  BY DEF ToSet

(* Dropping the steps of one group *)
LEMMA WithoutFaulted ==
  ASSUME NEW s \in Seq(Plans), NEW g, Faulted(s)
  PROVE  Faulted(Without(s, {x \in ToSet(s) : x.on = g}))
<1> DEFINE D == {x \in ToSet(s) : x.on = g}
           w == Without(s, D)
<1>1. /\ w \in Seq(Plans)
      /\ \E place \in [1..Len(w) -> 1..Len(s)] :
           /\ \A i \in 1..Len(w) : w[i] = s[place[i]] /\ s[place[i]] \notin D
           /\ \A i, j \in 1..Len(w) : i < j => place[i] < place[j]
           /\ \A k \in 1..Len(s) : s[k] \notin D => \E i \in 1..Len(w) : place[i] = k
  <2> HIDE DEF D
  <2> QED
    BY WithoutEmbeds
<1>2. \A k \in 1..Len(s) : s[k] \in D <=> s[k].on = g
  BY DEF ToSet
<1> HIDE DEF D, w
<1>3. PICK place \in [1..Len(w) -> 1..Len(s)] :
           /\ \A i \in 1..Len(w) : w[i] = s[place[i]] /\ s[place[i]] \notin D
           /\ \A i, j \in 1..Len(w) : i < j => place[i] < place[j]
           /\ \A k \in 1..Len(s) : s[k] \notin D => \E i \in 1..Len(w) : place[i] = k
  BY <1>1
<1>4. Len(w) \in Nat /\ Len(s) \in Nat
  BY <1>1
<1>5. SUFFICES ASSUME NEW i \in 1..Len(w), w[i].do \in StopNames
               PROVE  \E j \in 1..Len(w) : i < j /\ w[j].on = w[i].on /\ w[j].do = "fault"
  BY DEF Faulted, w, D
<1>6. PICK k \in 1..Len(s) : place[i] < k /\ s[k].on = s[place[i]].on /\ s[k].do = "fault"
  BY <1>3, <1>5 DEF Faulted
<1>7. s[k] \notin D
  BY <1>2, <1>3, <1>6
<1>8. PICK j \in 1..Len(w) : place[j] = k
  BY <1>3, <1>7
<1>9. place[i] \in Nat /\ place[j] \in Nat
  <2>1. place \in [1..Len(w) -> 1..Len(s)]
    OBVIOUS
  <2> QED
    BY <1>4, <2>1
<1>10. ~(j < i) /\ i # j
  BY <1>3, <1>6, <1>8, <1>9
<1>11. i < j
  BY <1>4, <1>10
<1> QED
  BY <1>3, <1>6, <1>8, <1>11

(* What suits a thread, less some of it *)
LEMMA SuitsLess ==
  ASSUME NEW t \in Threads, NEW o, NEW gs, NEW s, Suits(t, o, gs, s), NEW D,
         Chained(Without(s, D)), t = "monitor" /\ o = "converge" => Faulted(Without(s, D))
  PROVE  Suits(t, o, gs, Without(s, D)) /\ Without(s, D) \in Seq(Plans)
<1> DEFINE w == Without(s, D)
<1>1. s \in Seq(Plans)
  BY SuitsBasic
<1>2. \A names :
        /\ Uses(s, names) => Uses(w, names)
        /\ Lacks(s, names) => Lacks(w, names)
        /\ On(s, names) => On(w, names)
        /\ Only(s, "all", names) => Only(w, "all", names)
  BY <1>1, WithoutAll
<1>3. w \in Seq(Plans)
  BY <1>1, WithoutEmbeds
<1> HIDE DEF w
<1>4. t \in Workers => Script(w, o, gs)
  BY <1>2, <1>3 DEF Suits, Script, w
<1>5. t = "monitor" => Watch(w, o)
  BY <1>2, <1>3 DEF Suits, Watch, w
<1>6. t = "owner" => Takes(w)
  BY <1>2, <1>3 DEF Suits, Takes, w
<1> QED
  BY <1>3, <1>4, <1>5, <1>6 DEF Suits, w

(* What is left when a group has been given up suits, ...                   *)
LEMMA SuitsWithoutGroup ==
  ASSUME NEW t \in Threads, NEW o, NEW gs, NEW s, Suits(t, o, gs, s), s # << >>
  PROVE  LET w == WithoutGroup(Tail(s), s[1].on)
         IN  Suits(t, o, gs, w) /\ Fresh(w) /\ w \in Seq(Plans)
<1> DEFINE r == Tail(s)
           D == {x \in ToSet(r) : x.on = s[1].on}
           w == Without(r, D)
<1>1. s \in Seq(Plans) /\ Chained(s) /\ Suits(t, o, gs, r)
  BY SuitsBasic, SuitsTail
<1>2. r \in Seq(Plans) /\ Chained(r) /\ (Len(r) > 0 => Leads(s[1], r[1]))
  BY <1>1, Rest, RestChain
<1>3. \A k \in 1..Len(r) : r[k] \in D <=> r[k].on = s[1].on
  <2>1. \A k \in 1..Len(r) : r[k] \in ToSet(r)
    BY <1>2, Members
  <2> QED
    BY <2>1
<1>4. Len(r) > 0 => r[1].do \notin Followers \/ r[1] \in D
  <2>1. SUFFICES ASSUME Len(r) > 0, r[1].do \in Followers PROVE r[1] \in D
    OBVIOUS
  <2>2. 1 \in 1..Len(r) /\ Leads(s[1], r[1])
    BY <1>2, <2>1
  <2>3. r[1].on = s[1].on
    BY <2>1, <2>2 DEF Leads
  <2> QED
    BY <1>3, <2>2, <2>3
<1>5. ASSUME NEW i \in 1..Len(r), NEW j \in 1..Len(r), j = i + 1, r[j].do \in Followers
             \/ r[i].do \in Starters
      PROVE  r[i] \in D <=> r[j] \in D
  <2>1. r[i].on = r[j].on
    BY <1>2, <1>5 DEF Chained, Leads
  <2> QED
    BY <1>3, <2>1
<1> HIDE DEF D
<1>6. Chained(w) /\ Fresh(w)
  <2> HIDE DEF r
  <2> QED
    BY <1>2, <1>4, <1>5, WithoutChain
<1>7. t = "monitor" /\ o = "converge" => Faulted(w)
  <2>1. t = "monitor" /\ o = "converge" => Faulted(r)
    BY <1>1 DEF Suits, Watch
  <2> QED
    BY <1>2, <2>1, WithoutFaulted DEF D
<1> QED
  BY <1>1, <1>6, <1>7, SuitsLess DEF D, WithoutGroup

(* ... and what is left when the component has been rebuilt.                *)
LEMMA SuitsRebuilt ==
  ASSUME NEW t \in Threads, NEW o, NEW gs, NEW s, Suits(t, o, gs, s), s # << >>, s[1].do = "rebuilt"
  PROVE  LET w == WithoutName(Tail(s), "rebuild")
         IN  Suits(t, o, gs, w) /\ Fresh(w) /\ w \in Seq(Plans) /\ Tail(s) \in Seq(Plans)
<1> DEFINE r == Tail(s)
           D == {x \in ToSet(r) : x.do = "rebuild"}
           w == Without(r, D)
<1>1. s \in Seq(Plans) /\ Chained(s) /\ Suits(t, o, gs, r)
  BY SuitsBasic, SuitsTail
<1>2. r \in Seq(Plans) /\ Chained(r) /\ Fresh(r)
  BY <1>1, Rest, RestChain DEF Leaders
<1>3. \A k \in 1..Len(r) : r[k] \in D <=> r[k].do = "rebuild"
  <2>1. \A k \in 1..Len(r) : r[k] \in ToSet(r)
    BY <1>2, Members
  <2> QED
    BY <2>1
<1>4. Len(r) > 0 => r[1].do \notin Followers \/ r[1] \in D
  BY <1>2 DEF Fresh
<1>5. ASSUME NEW i \in 1..Len(r), NEW j \in 1..Len(r), j = i + 1, r[j].do \in Followers
             \/ r[i].do \in Starters
      PROVE  r[i] \in D <=> r[j] \in D
  <2>1. Leads(r[i], r[j])
    BY <1>2, <1>5 DEF Chained
  <2>2. r[i].do # "rebuild" /\ r[j].do # "rebuild"
    BY <1>5, <2>1 DEF Leads, Followers, Starters
  <2> QED
    BY <1>3, <2>2
<1> HIDE DEF D
<1>6. Chained(w) /\ Fresh(w)
  <2> HIDE DEF r
  <2> QED
    BY <1>2, <1>4, <1>5, WithoutChain
<1>7. t # "monitor"
  <2>1. t = "monitor" => s[1].do \in MonitorNames
    <3>1. 1 \in 1..Len(s)
      BY <1>1, Rest
    <3> QED
      BY <3>1 DEF Suits, Watch, Uses
  <2> QED
    BY <2>1 DEF MonitorNames, StopNames
<1> QED
  BY <1>1, <1>2, <1>6, <1>7, SuitsLess DEF D, WithoutName

(* Blocks that a worker's operation inserts for a group it holds *)
LEMMA SuitsWorker ==
  ASSUME NEW t \in Workers, NEW o, NEW gs \in SUBSET Groups, NEW g \in gs, NEW a, Sound(a, {g}),
         o \notin Arming => Lacks(a, Rising \cup {"arm_unless_armed"}),
         o \notin Maintenance => Lacks(a, Recording),
         o \in Dropping => Lacks(a, {"fault"})
  PROVE  Suits(t, o, gs, a)
<1>1. Sound(a, gs)
  BY OnMore DEF Sound
<1>2. Script(a, o, gs)
  BY <1>1, SoundScript
<1>3. t # "monitor" /\ t # "owner"
  BY CoordinatorAssumption DEF CoordinatorAssumption
<1> QED
  BY <1>2, <1>3 DEF Suits

-----------------------------------------------------------------------------
(* The threads are in order at every step.                                  *)

(* What a thread can be doing                                               *)
Ops == asked \cup {"", "monitor", "converge", "owner"}

(* What thread t can be doing                                               *)
Role(t, o) ==
  /\ t \in Workers => o \in Actions \cup {""}
  /\ t = "monitor" => o \in {"", "monitor", "converge"}
  /\ t = "owner" => o \in {"", "owner"}

(* The steps of the monitor for which it holds a lock                       *)
Stopping == StopNames \cup {"condemned"}

(* Where the monitor stops a group it holds that one, and does nothing else before. *)
Guarded(s, gs) == \A i \in 1..Len(s) : s[i].do \in Stopping =>
  gs = {s[i].on} /\ \A j \in 1..Len(s) : j < i => s[j].do \in StopNames

(* What a thread does, holds and has left goes together.                    *)
Fits(t, o, gs, s) ==
  /\ Role(t, o) /\ gs \subseteq Groups /\ Suits(t, o, gs, s)
  /\ o = "" => s = << >> /\ gs = {}
  /\ t = "monitor" /\ o = "monitor" => Guarded(s, gs)

(* No two threads hold the same lock.                                       *)
Disjoint == \A t, u \in Threads : t # u => held[t] \cap held[u] = {}

(* The threads are in order.                                                *)
Threading ==
  /\ op \in [Threads -> Ops] /\ held \in [Threads -> SUBSET Groups] /\ errors \in [Threads -> BOOLEAN]
  /\ todo \in [Threads -> Seq(Plans)] /\ asked \in Workloads /\ Disjoint
  /\ \A t \in Threads : Fits(t, op[t], held[t], todo[t])

(* The steps within a transaction. *)
Unrecoverable == {"write", "close", "roll_back"}

(* Within a transaction the journal names the axis.                         *)
Recorded == \A t \in Workers : At(t, Unrecoverable) => ~Resolved(GroupOf(t))

(* Both                                                                     *)
Threaded == Threading /\ Recorded

(* A step of one thread keeps the others in order.                          *)
LEMMA OneThread ==
  ASSUME Threading, NEW t \in Threads, NEW o \in Ops, NEW gs \in SUBSET Groups, NEW s, Fits(t,
         o, gs, s),
         op' = [op EXCEPT ![t] = o], held' = [held EXCEPT ![t] = gs], todo' = [todo EXCEPT ![t] = s],
         errors' \in [Threads -> BOOLEAN], UNCHANGED asked,
         \A u \in Threads \ {t} : gs \cap held[u] = {}
  PROVE  Threading'
<1>1. op' \in [Threads -> Ops'] /\ held' \in [Threads -> SUBSET Groups]
  BY DEF Threading, Ops
<1>2. s \in Seq(Plans)
  BY SuitsBasic DEF Fits
<1>3. todo' \in [Threads -> Seq(Plans)]
  BY <1>2 DEF Threading
<1>4. \A u \in Threads : /\ u = t => op'[u] = o /\ held'[u] = gs /\ todo'[u] = s
                         /\ u # t => op'[u] = op[u] /\ held'[u] = held[u] /\ todo'[u] = todo[u]
  BY DEF Threading
<1>5. ASSUME NEW u \in Threads PROVE Fits(u, op'[u], held'[u], todo'[u])
  BY <1>4 DEF Threading
<1>6. Disjoint'
  BY <1>4 DEF Threading, Disjoint
<1>7. asked' \in Workloads
  BY DEF Threading
<1>8. \A u \in Threads : Fits(u, op[u], held[u], todo[u])'
  BY <1>5 DEF Fits, Role, Suits, Guarded, Script, Watch, Takes
<1> QED
  BY <1>1, <1>3, <1>6, <1>7, <1>8 DEF Threading

(* What is known of the first step.                                         *)
LEMMA HeadFacts ==
  ASSUME Threading, NEW t \in Threads, todo[t] # << >>
  PROVE  LET s == todo[t]
         IN  /\ s \in Seq(Plans) /\ Chained(s) /\ 1 \in 1..Len(s) /\ Head(s) = s[1] /\ s[1] \in Plans
             /\ Tail(s) \in Seq(Plans) /\ Chained(Tail(s))
             /\ held[t] \in SUBSET Groups /\ Suits(t, op[t], held[t], s) /\ Role(t, op[t]) /\ op[t] # ""
             /\ t \in Workers /\ s[1].do \notin Teardown => s[1].on \in held[t]
             /\ t \in Workers /\ op[t] # "shutdown" => s[1].on \in held[t]
             /\ t = "monitor" => s[1].do \in MonitorNames /\ (s[1].do \notin RoundNames
                   => s[1].on \in Groups)
             /\ t = "owner" => s[1].do \in OwnerNames /\ s[1].on = "all"
<1>1. Suits(t, op[t], held[t], todo[t]) /\ Role(t, op[t]) /\ held[t] \in SUBSET Groups /\ op[t] # ""
  BY DEF Threading, Fits
<1>2. todo[t] \in Seq(Plans) /\ Chained(todo[t])
  BY <1>1, SuitsBasic
<1>3. Tail(todo[t]) \in Seq(Plans) /\ Chained(Tail(todo[t]))
  BY <1>2, Rest, RestChain
<1>4. /\ Head(todo[t]) = todo[t][1] /\ todo[t][1] \in Plans /\ 1 \in 1..Len(todo[t])
      /\ t \in Workers /\ todo[t][1].do \notin Teardown => todo[t][1].on \in held[t]
      /\ t \in Workers /\ op[t] # "shutdown" => todo[t][1].on \in held[t]
      /\ t = "monitor" => todo[t][1].do \in MonitorNames /\ (todo[t][1].do \notin RoundNames
            => todo[t][1].on \in Groups)
      /\ t = "owner" => todo[t][1].do \in OwnerNames /\ todo[t][1].on = "all"
  <2> DEFINE o == op[t]
             gs == held[t]
             s == todo[t]
  <2>1. Suits(t, o, gs, s) /\ gs \in SUBSET Groups /\ s # << >>
    BY <1>1
  <2> HIDE DEF o, gs, s
  <2>2. /\ Head(s) = s[1] /\ s[1] \in Plans /\ 1 \in 1..Len(s)
        /\ t \in Workers /\ s[1].do \notin Teardown => s[1].on \in gs /\ s[1].on # "all"
        /\ t \in Workers /\ o # "shutdown" => s[1].on \in gs /\ s[1].on # "all"
        /\ t = "monitor" => s[1].do \in MonitorNames /\ (s[1].do \notin RoundNames
              => s[1].on \in Groups)
        /\ t = "owner" => s[1].do \in OwnerNames /\ s[1].on = "all"
    BY <2>1, HeadOf
  <2> QED
    BY <2>2 DEF o, gs, s
<1> QED
  BY <1>1, <1>2, <1>3, <1>4

(* Steps that may be inserted while the monitor stops a group.              *)
LEMMA GuardedInsert ==
  ASSUME NEW s \in Seq(Plans), s # << >>, NEW gs, Guarded(s, gs), NEW steps \in Seq(Plans),
         s[1].do \in StopNames => Uses(steps, StopNames) /\ On(steps, {s[1].on}),
         s[1].do \notin StopNames => Lacks(steps, Stopping)
  PROVE  Guarded(steps \o Tail(s), gs)
<1> DEFINE r == Tail(s)
           c == steps \o r
<1>1. r \in Seq(Plans) /\ 1 \in 1..Len(s) /\ Len(s) \in Nat /\ Len(r) = Len(s) - 1
      /\ \A i \in 1..Len(r) : i + 1 \in 1..Len(s) /\ r[i] = s[i + 1]
  BY Rest
<1> HIDE DEF r
<1>2. /\ Len(steps) \in Nat /\ Len(r) \in Nat /\ Len(c) = Len(steps) + Len(r)
      /\ \A i \in 1..Len(steps) : i \in 1..Len(c) /\ c[i] = steps[i]
      /\ \A i \in 1..Len(r) : Len(steps) + i \in 1..Len(c) /\ c[Len(steps) + i] = r[i]
      /\ \A k \in 1..Len(c) : k \in 1..Len(steps) \/ \E i \in 1..Len(r) : k = Len(steps) + i
  BY <1>1, JoinedPlans
<1> HIDE DEF c
<1>3. SUFFICES ASSUME NEW k \in 1..Len(c), c[k].do \in Stopping
               PROVE  gs = {c[k].on} /\ \A j \in 1..Len(c) : j < k => c[j].do \in StopNames
  BY DEF Guarded, c, r
<1>4. CASE s[1].do \notin StopNames
  <2>1. k \notin 1..Len(steps)
    BY <1>2, <1>3, <1>4 DEF Lacks
  <2>2. PICK i \in 1..Len(r) : k = Len(steps) + i
    BY <1>2, <2>1
  <2>3. s[i + 1].do \in Stopping /\ 1 < i + 1 /\ i + 1 \in 1..Len(s)
    BY <1>1, <1>2, <1>3, <2>2
  <2>4. s[1].do \in StopNames
    BY <1>1, <2>3 DEF Guarded
  <2> QED
    BY <1>4, <2>4
<1>5. CASE s[1].do \in StopNames
  <2>1. gs = {s[1].on}
    BY <1>1, <1>5 DEF Guarded, Stopping
  <2>2. \A j \in 1..Len(steps) : c[j].do \in StopNames /\ c[j].on = s[1].on
    BY <1>2, <1>5 DEF Uses, On
  <2>3. CASE k \in 1..Len(steps)
    <3>1. \A j \in 1..Len(c) : j < k => j \in 1..Len(steps)
      BY <1>2, <2>3
    <3> QED
      BY <2>1, <2>2, <2>3, <3>1
  <2>4. CASE k \notin 1..Len(steps)
    <3>1. PICK i \in 1..Len(r) : k = Len(steps) + i
      BY <1>2, <2>4
    <3>2. s[i + 1].do \in Stopping /\ i + 1 \in 1..Len(s) /\ c[k] = s[i + 1]
      BY <1>1, <1>2, <1>3, <3>1
    <3>3. gs = {s[i + 1].on} /\ \A j \in 1..Len(s) : j < i + 1 => s[j].do \in StopNames
      BY <3>2 DEF Guarded
    <3>4. ASSUME NEW j \in 1..Len(c), j < k PROVE c[j].do \in StopNames
      <4>1. CASE j \in 1..Len(steps)
        BY <2>2, <4>1
      <4>2. CASE j \notin 1..Len(steps)
        <5>1. PICK m \in 1..Len(r) : j = Len(steps) + m
          BY <1>2, <4>2
        <5>2. m + 1 \in 1..Len(s) /\ c[j] = s[m + 1] /\ m + 1 < i + 1
          BY <1>1, <1>2, <3>1, <3>4, <5>1
        <5> QED
          BY <3>3, <5>2
      <4> QED
        BY <4>1, <4>2
    <3> QED
      BY <3>2, <3>3, <3>4
  <2> QED
    BY <2>3, <2>4
<1> QED
  BY <1>4, <1>5

(* The group lists of others *)
LEMMA Apart ==
  ASSUME Threading, NEW t \in Threads, NEW gs, gs \subseteq held[t]
  PROVE  \A u \in Threads \ {t} : gs \cap held[u] = {}
  BY DEF Threading, Disjoint

(* The step is done and `steps` come before the rest. *)
LEMMA Going ==
  ASSUME Threaded, NEW t \in Threads, todo[t] # << >>, NEW steps \in Seq(Plans), Continue(t, steps),
         Suits(t, op[t], held[t], steps \o Tail(todo[t])),
         t = "monitor" /\ op[t] = "monitor" => Guarded(steps \o Tail(todo[t]), held[t]),
         Lacks(steps, Recording), todo[t][1].do # "transact",
         errors' \in [Threads -> BOOLEAN], UNCHANGED <<asked, journal, dirty>>
  PROVE  Threaded'
<1> DEFINE s == steps \o Tail(todo[t])
<1>0. Threading /\ Recorded
  BY DEF Threaded
<1>1. op[t] \in Ops /\ op' = [op EXCEPT ![t] = op[t]] /\ held' = [held EXCEPT ![t] = held[t]]
      /\ held[t] \in SUBSET Groups
  BY <1>0 DEF Threading, Continue
<1>2. todo' = [todo EXCEPT ![t] = s]
  BY <1>0 DEF Continue, Threading
<1>3. Fits(t, op[t], held[t], s)
  BY <1>0, HeadFacts DEF Fits
<1>4. Threading'
  <2>1. \A u \in Threads \ {t} : held[t] \cap held[u] = {}
    BY <1>0, Apart
  <2>2. UNCHANGED asked
    OBVIOUS
  <2> HIDE DEF s
  <2> QED
    BY <1>0, <1>1, <1>2, <1>3, <2>1, <2>2, OneThread
<1>5. \A u \in Threads : u # t => todo'[u] = todo[u]
  BY <1>0, <1>2 DEF Threading
<1>6. todo'[t] = s
  BY <1>0, <1>2 DEF Threading
<1>7. \A g : Resolved(g)' <=> Resolved(g)
  BY DEF Resolved
<1>8. ASSUME NEW u \in Workers, At(u, Unrecoverable)' PROVE ~Resolved(GroupOf(u))'
  <2>1. CASE u # t
    <3>1. todo'[u] = todo[u]
      BY <1>5, <2>1 DEF Threads
    <3>2. At(u, Unrecoverable) /\ GroupOf(u)' = GroupOf(u)
      BY <1>8, <3>1 DEF At, GroupOf
    <3>3. ~Resolved(GroupOf(u))
      BY <1>0, <3>2 DEF Recorded
    <3> QED
      BY <1>7, <3>2, <3>3 DEF Resolved, GroupOf
  <2>2. CASE u = t
    <3>1. s # << >> /\ Head(s).do \in Unrecoverable /\ GroupOf(u)' = Head(s).on
      BY <1>6, <1>8, <2>2 DEF At, GroupOf
    <3>2. todo[t] \in Seq(Plans) /\ Tail(todo[t]) \in Seq(Plans) /\ Chained(todo[t])
      BY <1>0, HeadFacts
    <3>3. s \in Seq(Plans) /\ 1 \in 1..Len(s) /\ Head(s) = s[1]
      <4>1. s \in Seq(Plans)
        BY <3>2
      <4> QED
        BY <3>1, <4>1, Rest
    <3>4. steps = << >>
      <4>1. SUFFICES ASSUME steps # << >> PROVE FALSE
        OBVIOUS
      <4>2. 1 \in 1..Len(steps)
        BY <4>1, Rest
      <4>3. s[1] = steps[1]
        BY <3>2, <4>2, JoinedPlans
      <4> QED
        BY <3>1, <3>3, <4>2, <4>3 DEF Lacks, Recording, Unrecoverable
    <3>5. s = Tail(todo[t])
      BY <3>2, <3>4
    <3>6. Leads(todo[t][1], s[1])
      BY <3>2, <3>3, <3>5, RestChain, SMTT(30)
    <3>7. todo[t][1].do = "write" /\ todo[t][1].on = s[1].on
      BY <3>1, <3>3, <3>6 DEF Leads, Followers, Unrecoverable
    <3>8. At(t, Unrecoverable) /\ GroupOf(t) = s[1].on
      BY <1>0, <3>7, HeadFacts DEF At, GroupOf, Unrecoverable
    <3>9. ~Resolved(s[1].on)
      BY <1>0, <2>2, <3>8 DEF Recorded
    <3> QED
      BY <1>7, <3>1, <3>3, <3>9 DEF Resolved
  <2> QED
    BY <2>1, <2>2
<1>9. Recorded'
  BY <1>8 DEF Recorded
<1> QED
  BY <1>4, <1>9 DEF Threaded

(* A thread is a worker, the monitor or the takeover.                       *)
LEMMA Apiece ==
  /\ "monitor" \notin Workers /\ "owner" \notin Workers
  /\ \A t \in Threads : t \in Workers \/ t = "monitor" \/ t = "owner"
  /\ "all" \notin Groups /\ "none" \notin Groups
  BY CoordinatorAssumption DEF CoordinatorAssumption, Threads

(* What is left of an operation after an exception *)
After(t) ==
  LET g == todo[t][1].on
  IN  StopToFault(g) \o WithoutGroup(Tail(todo[t]), g)

(* An exception ends the operation.                                         *)
Cancels(t) ==
  \/ op[t] \in {"shutdown", "owner"}
  \/ op[t] = "profile" /\ (At(t, {"halted"}) \/ "switched" \in StepsLeft(t))

(* It ends a transaction.                                                   *)
Undoes(t) ==
  LET g == todo[t][1].on
  IN  IF todo[t][1].do = "transact" THEN Steps(<<"maintained">>, g)
      ELSE IF todo[t][1].do = "write" THEN Steps(<<"roll_back", "maintained">>, g) ELSE << >>

(* What Raise does, by cases.                                               *)
LEMMA Raised ==
  ASSUME Threading, NEW t \in Threads, todo[t] # << >>, Raise(t)
  PROVE  /\ errors' \in [Threads -> BOOLEAN]
         /\ \/ /\ t = "monitor" /\ op[t] = "monitor"
               /\ op' = [op EXCEPT ![t] = "converge"] /\ held' = [held EXCEPT ![t] = {}]
               /\ todo' = [todo EXCEPT ![t] = ConvergeSteps]
            \/ /\ op[t] # "monitor" /\ op' = [op EXCEPT ![t] = op[t]]
                     /\ held' = [held EXCEPT ![t] = held[t]]
               /\ \/ Cancels(t) /\ todo' = [todo EXCEPT ![t] = << >>]
                  \/ /\ t \in Workers /\ op[t] \in Maintenance /\ todo' = [todo EXCEPT ![t] = Undoes(t)]
                  \/ /\ t # "owner" /\ op[t] \notin Dropping /\ ~Cancels(t)
                     /\ t = "monitor" => op[t] = "converge"
                     /\ todo' = [todo EXCEPT ![t] = After(t)]
<1>1. /\ op \in [Threads -> Ops] /\ held \in [Threads -> SUBSET Groups]
            /\ errors \in [Threads -> BOOLEAN]
      /\ todo \in [Threads -> Seq(Plans)]
  BY DEF Threading
<1>2. errors' \in [Threads -> BOOLEAN]
  BY <1>1 DEF Raise
<1>3. Role(t, op[t]) /\ op[t] # "" /\ Head(todo[t]) = todo[t][1]
  BY HeadFacts
<1>4. (op[t] = "monitor" => t = "monitor") /\ (op[t] = "owner" => t = "owner")
      /\ (op[t] \in Maintenance => t \in Workers) /\ (t = "owner" => op[t] = "owner")
      /\ (t = "monitor" => op[t] \in {"monitor", "converge"})
  BY <1>3, Apiece DEF Role, Actions, Maintenance
<1>5. CASE op[t] = "monitor"
  <2>1. op' = [op EXCEPT ![t] = "converge"] /\ held' = [held EXCEPT ![t] = {}]
        /\ todo' = [todo EXCEPT ![t] = ConvergeSteps]
    BY <1>1, <1>5 DEF Raise, Maintenance
  <2> QED
    BY <1>2, <1>4, <1>5, <2>1
<1>6. CASE op[t] # "monitor"
  <2>1. op' = [op EXCEPT ![t] = op[t]] /\ held' = [held EXCEPT ![t] = held[t]]
    BY <1>1, <1>6 DEF Raise
  <2>2. CASE Cancels(t)
    <3>1. todo' = [todo EXCEPT ![t] = << >>]
      BY <1>1, <1>6, <2>2 DEF Raise, Cancels, Maintenance
    <3> QED
      BY <1>2, <1>6, <2>1, <2>2, <3>1
  <2>3. CASE op[t] \in Maintenance
    <3>1. ~Cancels(t)
      BY <2>3 DEF Maintenance, Cancels
    <3>2. todo' = [todo EXCEPT ![t] =
            Steps(IF At(t, {"transact"}) THEN <<"maintained">>
                  ELSE IF At(t, {"write"}) THEN <<"roll_back", "maintained">> ELSE <<>>, GroupOf(t))]
      BY <1>1, <1>6, <2>3, <3>1 DEF Raise, Cancels
    <3>3. Steps(<<>>, GroupOf(t)) = <<>>
      BY DEF Steps
    <3>4. Undoes(t) = Steps(IF At(t, {"transact"}) THEN <<"maintained">>
                  ELSE IF At(t, {"write"}) THEN <<"roll_back", "maintained">> ELSE <<>>, GroupOf(t))
      BY <1>3, <3>3 DEF Undoes, At, GroupOf
    <3> QED
      BY <1>2, <1>4, <1>6, <2>1, <2>3, <3>2, <3>4
  <2>4. CASE ~Cancels(t) /\ op[t] \notin Maintenance
    <3>1. todo' = [todo EXCEPT ![t] = StopToFault(GroupOf(t))
                       \o WithoutGroup(Tail(@), GroupOf(t))]
      BY <1>1, <1>6, <2>4 DEF Raise, Cancels
    <3>2. todo' = [todo EXCEPT ![t] = After(t)]
      BY <1>1, <1>3, <3>1 DEF After, GroupOf
    <3>3. op[t] \notin Dropping /\ t # "owner" /\ (t = "monitor" => op[t] = "converge")
      BY <1>4, <1>6, <2>4 DEF Dropping, Cancels
    <3> QED
      BY <1>2, <1>6, <2>1, <2>4, <3>2, <3>3
  <2> QED
    BY <2>2, <2>3, <2>4
<1> QED
  BY <1>5, <1>6

(* A stop that ends in Fault suits the thread that gives up.                *)
LEMMA FaultSuits ==
  ASSUME NEW t \in Threads, NEW o, NEW gs \in SUBSET Groups, NEW g \in Groups, t # "owner",
         o \notin Dropping,
         t \in Workers => g \in gs
  PROVE  Suits(t, o, gs, StopToFault(g))
<1> DEFINE s == StopToFault(g)
<1>1. Sound(s, {g}) /\ s \in Seq(Plans) /\ Uses(s, FaultNames) /\ Faulted(s)
  BY StopToFaultSound
<1>2. Lacks(s, Rising \cup {"arm_unless_armed"}) /\ Lacks(s, Recording) /\ Uses(s, MonitorNames)
  BY <1>1, FaultTame
<1>3. Only(s, "all", RoundNames)
  BY <1>1, Apiece DEF Sound, On, Only
<1> HIDE DEF s
<1>4. t \in Workers => Suits(t, o, gs, s)
  BY <1>1, <1>2, SuitsWorker
<1>5. t = "monitor" => Suits(t, o, gs, s)
  BY <1>1, <1>2, <1>3, Apiece DEF Suits, Watch, Sound, FaultNames
<1> QED
  BY <1>4, <1>5, Apiece DEF s

(* What is left of a transaction suits.                                     *)
LEMMA UndoneSuits ==
  ASSUME NEW t \in Workers, NEW o \in Maintenance, NEW gs \in SUBSET Groups, NEW g \in gs
  PROVE  /\ Suits(t, o, gs, Steps(<<"maintained">>, g))
         /\ Suits(t, o, gs, Steps(<<"roll_back", "maintained">>, g))
<1>1. Suits(t, o, gs, Steps(<<"maintained">>, g))
  <2> DEFINE s == Steps(<<"maintained">>, g)
  <2>1. "maintained" \in Names /\ "maintained" \notin Starters /\ "maintained" \notin Followers
        /\ g \in Groups \cup {"all"} /\ {"maintained"} \cap (Rising \cup {"arm_unless_armed"}) = {}
        /\ {"maintained"} \cap {"fault"} = {}
    BY DEF Names, Assigned, Starters, Followers, Rising
  <2>2. Sound(s, {g}) /\ Uses(s, {"maintained"})
    BY <2>1, OneStep DEF Sound
  <2> HIDE DEF s
  <2>3. Lacks(s, Rising \cup {"arm_unless_armed"}) /\ Lacks(s, {"fault"})
    BY <2>1, <2>2, UsesLacks
  <2>4. Suits(t, o, gs, s)
    BY <2>2, <2>3, SuitsWorker
  <2> QED
    BY <2>4 DEF s
<1>2. Suits(t, o, gs, Steps(<<"roll_back", "maintained">>, g))
  <2> DEFINE names == <<"roll_back", "maintained">>
             s == Steps(names, g)
  <2>1. names \in Seq(Names) /\ Len(names) = 2 /\ names[1] = "roll_back" /\ names[2] = "maintained"
        /\ g \in Groups \cup {"all"}
    BY DEF Names, Assigned
  <2>2. s \in Seq(Plans) /\ Len(s) = 2 /\ \A i \in 1..2 : s[i].do = names[i] /\ s[i].on = g
    <3> HIDE DEF names
    <3> QED
      BY <2>1, StepsFacts
  <2> HIDE DEF s, names
  <2>3. s[1].do = "roll_back" /\ s[2].do = "maintained" /\ s[1].on = g /\ s[2].on = g
    BY <2>1, <2>2
  <2>4. Chained(s)
    <3>1. Leads(s[1], s[2])
      BY <2>3 DEF Leads, Followers, Starters
    <3>2. \A i, j \in 1..Len(s) : j = i + 1 => i = 1 /\ j = 2
      BY <2>2
    <3>3. s[Len(s)].do \notin Starters
      BY <2>2, <2>3 DEF Starters
    <3> QED
      BY <3>1, <3>2, <3>3 DEF Chained
  <2>5. On(s, {g})
    BY <2>2 DEF On
  <2>6. On(s, gs) /\ On(s, gs \cup {"all"}) /\ Only(s, "all", Teardown)
    BY <2>5, Apiece DEF On, Only
  <2>7. \A i \in 1..2 : s[i].do \in {"roll_back", "maintained"}
    BY <2>3
  <2>8. Lacks(s, Rising \cup {"arm_unless_armed"}) /\ Lacks(s, {"fault"})
    BY <2>2, <2>7 DEF Lacks, Rising
  <2>9. Script(s, o, gs)
    BY <2>2, <2>4, <2>6, <2>8 DEF Script
  <2> QED
    BY <2>9, Apiece DEF Suits, s, names
<1> QED
  BY <1>1, <1>2

(* The list that is left after an exception *)
LEMMA AfterSuits ==
  ASSUME Threading, NEW t \in Threads, todo[t] # << >>, t # "owner", op[t] \notin Dropping,
         t = "monitor" => op[t] = "converge"
  PROVE  /\ Suits(t, op[t], held[t], After(t)) /\ todo[t][1].on \in Groups
         /\ StopToFault(todo[t][1].on) \in Seq(Plans)
         /\ WithoutGroup(Tail(todo[t]), todo[t][1].on) \in Seq(Plans)
<1> DEFINE g == todo[t][1].on
           a == StopToFault(g)
           w == WithoutGroup(Tail(todo[t]), g)
<1>1. Suits(t, op[t], held[t], todo[t]) /\ held[t] \in SUBSET Groups /\ 1 \in 1..Len(todo[t])
  BY HeadFacts
<1>2. t \in Workers => g \in held[t]
  BY HeadFacts DEF Dropping
<1>3. t = "monitor" => g \in Groups
  <2>1. t = "monitor" => todo[t][1].do \in StopNames \cup {"fault"}
    BY <1>1 DEF Suits, Watch, Uses
  <2>2. (StopNames \cup {"fault"}) \cap RoundNames = {}
    BY DEF StopNames, RoundNames
  <2> QED
    BY <2>1, <2>2, HeadFacts
<1>4. g \in Groups
  BY <1>1, <1>2, <1>3, Apiece
<1> HIDE DEF g
<1>5. Suits(t, op[t], held[t], a)
  BY <1>1, <1>2, <1>4, FaultSuits
<1>6. a \in Seq(Plans)
  BY <1>4, StopToFaultSound
<1>7. Suits(t, op[t], held[t], w) /\ Fresh(w) /\ w \in Seq(Plans)
  BY <1>1, SuitsWithoutGroup DEF g
<1> HIDE DEF a, w
<1>8. Suits(t, op[t], held[t], a \o w)
  BY <1>5, <1>7, SuitsJoin
<1> QED
  BY <1>4, <1>6, <1>7, <1>8 DEF After, a, w, g

(* ... begins with a stop. *)
LEMMA AfterBegins ==
  ASSUME NEW g \in Groups, NEW w \in Seq(Plans)
  PROVE  /\ StopToFault(g) \o w \in Seq(Plans) /\ StopToFault(g) \o w # << >>
         /\ (StopToFault(g) \o w)[1].do = "bump" /\ (StopToFault(g) \o w)[1].on = g
<1> DEFINE a == StopToFault(g)
           one == Steps(<<"fault">>, g)
<1>1. a = Stop(g) \o one
  BY DEF StopToFault
<1>2. Stop(g) \in Seq(Plans) /\ Len(Stop(g)) = 4 /\ Stop(g)[1].do = "bump" /\ Stop(g)[1].on = g
  <2>1. Stop(g) \in Seq(Plans) /\ Len(Stop(g)) = 4
    BY StopBlock
  <2>2. Stop(g)[1].do = "bump" /\ Stop(g)[1].on = g
    BY DEF Stop, Steps, Step
  <2> QED
    BY <2>1, <2>2
<1>3. one \in Seq(Plans)
  <2>1. "fault" \in Names /\ "fault" \notin Starters /\ g \in Groups \cup {"all"}
    BY DEF Names, Assigned, Starters
  <2> QED
    BY <2>1, OneStep
<1> HIDE DEF a, one
<1>4. 1 \in 1..Len(Stop(g))
  BY <1>2
<1>5. a \in Seq(Plans) /\ a[1] = Stop(g)[1] /\ 1 \in 1..Len(a)
  BY <1>1, <1>2, <1>3, <1>4, JoinedPlans
<1>6. (a \o w)[1] = a[1] /\ 1 \in 1..Len(a \o w) /\ a \o w \in Seq(Plans)
  BY <1>5, JoinedPlans
<1>7. a \o w # << >>
  BY <1>6
<1> QED
  BY <1>2, <1>5, <1>6, <1>7 DEF a

(* A thread goes on with another list. *)
LEMMA Replacing ==
  ASSUME Threaded, NEW t \in Threads, NEW o \in Ops, NEW gs \in SUBSET Groups, NEW s, Fits(t, o, gs, s),
         op' = [op EXCEPT ![t] = o], held' = [held EXCEPT ![t] = gs], todo' = [todo EXCEPT ![t] = s],
         errors' \in [Threads -> BOOLEAN], UNCHANGED <<asked, journal, dirty>>,
         \A u \in Threads \ {t} : gs \cap held[u] = {},
         t \in Workers /\ s # << >> /\ s[1].do \in Unrecoverable => ~Resolved(s[1].on)
  PROVE  Threaded'
<1>0. Threading /\ Recorded
  BY DEF Threaded
<1>1. UNCHANGED asked
  OBVIOUS
<1>2. \A g : Resolved(g)' <=> Resolved(g)
  BY DEF Resolved
<1>3. Threading'
  BY <1>0, <1>1, OneThread
<1>4. s \in Seq(Plans)
  BY SuitsBasic DEF Fits
<1>5. s # << >> => Head(s) = s[1]
  BY <1>4, Rest
<1>6. todo'[t] = s /\ \A u \in Threads : u # t => todo'[u] = todo[u]
  BY <1>0 DEF Threading
<1>7. ASSUME NEW u \in Workers, At(u, Unrecoverable)' PROVE ~Resolved(GroupOf(u))'
  <2>1. CASE u # t
    <3>1. At(u, Unrecoverable) /\ GroupOf(u)' = GroupOf(u)
      BY <1>6, <1>7, <2>1 DEF At, GroupOf, Threads
    <3>2. ~Resolved(GroupOf(u))
      BY <1>0, <3>1 DEF Recorded
    <3> QED
      BY <1>2, <3>1, <3>2 DEF Resolved, GroupOf
  <2>2. CASE u = t
    <3>1. s # << >> /\ s[1].do \in Unrecoverable /\ GroupOf(u)' = s[1].on
      BY <1>5, <1>6, <1>7, <2>2 DEF At, GroupOf
    <3> QED
      BY <1>2, <2>2, <3>1 DEF Resolved
  <2> QED
    BY <2>1, <2>2
<1>8. Recorded'
  BY <1>7 DEF Recorded
<1> QED
  BY <1>3, <1>8 DEF Threaded

(* Raise keeps the threads in order.                                        *)
LEMMA Raising ==
  ASSUME Threaded, NEW t \in Threads, todo[t] # << >>, Raise(t), UNCHANGED <<asked, journal, dirty>>
  PROVE  Threaded'
<1>0. Threading /\ Recorded
  BY DEF Threaded
<1>1. /\ todo[t] \in Seq(Plans) /\ 1 \in 1..Len(todo[t]) /\ Head(todo[t]) = todo[t][1]
      /\ held[t] \in SUBSET Groups /\ Role(t, op[t]) /\ op[t] # ""
      /\ t \in Workers /\ op[t] # "shutdown" => todo[t][1].on \in held[t]
  BY <1>0, HeadFacts
<1>2. op[t] \in Ops /\ "converge" \in Ops
  BY <1>0 DEF Threading, Ops
<1>4. \A gs : gs \subseteq held[t] => \A u \in Threads \ {t} : gs \cap held[u] = {}
  BY <1>0, Apart
<1>6. ASSUME NEW o \in Ops, NEW gs \in SUBSET held[t], NEW s, Fits(t, o, gs, s),
             op' = [op EXCEPT ![t] = o], held' = [held EXCEPT ![t] = gs],
               todo' = [todo EXCEPT ![t] = s],
             t \in Workers /\ s # << >> /\ s[1].do \in Unrecoverable => ~Resolved(s[1].on)
      PROVE  Threaded'
  <2>1. errors' \in [Threads -> BOOLEAN]
    BY <1>0, Raised
  <2>2. gs \in SUBSET Groups
    BY <1>1
  <2> QED
    BY <1>4, <1>6, <2>1, <2>2, Replacing
<1>7. CASE op[t] = "monitor"
  <2>1. /\ t = "monitor" /\ op' = [op EXCEPT ![t] = "converge"] /\ held' = [held EXCEPT ![t] = {}]
        /\ todo' = [todo EXCEPT ![t] = ConvergeSteps]
    BY <1>0, <1>7, Raised
  <2>2. Fits(t, "converge", {}, ConvergeSteps)
    BY <2>1, ConvergeSound, Apiece DEF Fits, Role, Suits
  <2>3. {} \in SUBSET held[t] /\ t \notin Workers
    BY <2>1, Apiece
  <2> QED
    BY <1>2, <1>6, <2>1, <2>2, <2>3
<1>8. CASE op[t] # "monitor"
  <2>1. op' = [op EXCEPT ![t] = op[t]] /\ held' = [held EXCEPT ![t] = held[t]]
        /\ held[t] \in SUBSET held[t]
    BY <1>0, <1>8, Raised
  <2>2. ASSUME NEW s, Suits(t, op[t], held[t], s) PROVE Fits(t, op[t], held[t], s)
    BY <1>1, <1>8, <2>2 DEF Fits
  <2>3. CASE todo' = [todo EXCEPT ![t] = << >>]
    <3>1. Fits(t, op[t], held[t], << >>)
      BY <2>2, SuitsEmpty
    <3> QED
      BY <1>2, <1>6, <2>1, <2>3, <3>1
  <2>4. CASE t \in Workers /\ op[t] \in Maintenance /\ todo' = [todo EXCEPT ![t] = Undoes(t)]
    <3> DEFINE g == todo[t][1].on
    <3>1. g \in held[t]
      BY <1>1, <2>4 DEF Maintenance
    <3>2. Suits(t, op[t], held[t], Undoes(t))
      BY <1>1, <2>4, <3>1, UndoneSuits, SuitsEmpty DEF Undoes
    <3>3. Fits(t, op[t], held[t], Undoes(t))
      BY <2>2, <3>2
    <3>4. ASSUME Undoes(t) # << >>, Undoes(t)[1].do \in Unrecoverable PROVE ~Resolved(Undoes(t)[1].on)
      <4>1. CASE todo[t][1].do = "write"
        <5>1. Undoes(t) = Steps(<<"roll_back", "maintained">>, g)
          BY <4>1 DEF Undoes
        <5>2. Undoes(t)[1].on = g
          BY <5>1 DEF Steps, Step
        <5>3. At(t, Unrecoverable) /\ GroupOf(t) = g
          BY <1>1, <4>1 DEF At, GroupOf, Unrecoverable
        <5> QED
          BY <1>0, <2>4, <5>2, <5>3 DEF Recorded
      <4>2. CASE todo[t][1].do # "write"
        <5>1. Undoes(t) = Steps(<<"maintained">>, g)
          BY <3>4, <4>2 DEF Undoes
        <5>2. Undoes(t)[1].do = "maintained"
          BY <5>1 DEF Steps, Step
        <5> QED
          BY <3>4, <5>2 DEF Unrecoverable
      <4> QED
        BY <4>1, <4>2
    <3> HIDE DEF Undoes
    <3> QED
      BY <1>2, <1>6, <2>1, <2>4, <3>3, <3>4
  <2>5. CASE /\ t # "owner" /\ op[t] \notin Dropping /\ (t = "monitor" => op[t] = "converge")
             /\ todo' = [todo EXCEPT ![t] = After(t)]
    <3>1. Suits(t, op[t], held[t], After(t))
      BY <1>0, <2>5, AfterSuits
    <3>2. Fits(t, op[t], held[t], After(t))
      BY <2>2, <3>1
    <3>3. After(t)[1].do = "bump"
      <4>1. /\ todo[t][1].on \in Groups /\ WithoutGroup(Tail(todo[t]), todo[t][1].on) \in Seq(Plans)
        BY <1>0, <2>5, AfterSuits
      <4> QED
        BY <4>1, AfterBegins DEF After
    <3> HIDE DEF After
    <3> QED
      BY <1>2, <1>6, <2>1, <2>5, <3>2, <3>3 DEF Unrecoverable
  <2> QED
    BY <1>0, <1>8, <2>3, <2>4, <2>5, Raised
<1> QED
  BY <1>7, <1>8

(* So does going on, ...                                                    *)
LEMMA GoingOn ==
  ASSUME Threaded, NEW t \in Threads, todo[t] # << >>, Continue(t, << >>), todo[t][1].do # "transact",
         errors' \in [Threads -> BOOLEAN], UNCHANGED <<asked, journal, dirty>>
  PROVE  Threaded'
<1>0. Threading
  BY DEF Threaded
<1>1. todo[t] \in Seq(Plans) /\ Suits(t, op[t], held[t], todo[t]) /\ Tail(todo[t]) \in Seq(Plans)
      /\ 1 \in 1..Len(todo[t])
  BY <1>0, HeadFacts
<1>2. << >> \in Seq(Plans) /\ Lacks(<< >>, Recording) /\ Lacks(<< >>, Stopping) /\ Uses(<< >>,
      StopNames)
      /\ \A gs : On(<< >>, gs)
  BY DEF Lacks, Uses, On
<1>3. << >> \o Tail(todo[t]) = Tail(todo[t])
  BY <1>1
<1>4. Suits(t, op[t], held[t], << >> \o Tail(todo[t]))
  BY <1>1, <1>3, SuitsTail
<1>5. t = "monitor" /\ op[t] = "monitor" => Guarded(<< >> \o Tail(todo[t]), held[t])
  <2>1. SUFFICES ASSUME t = "monitor", op[t] = "monitor" PROVE Guarded(<< >> \o Tail(todo[t]), held[t])
    OBVIOUS
  <2>2. Guarded(todo[t], held[t])
    BY <1>0, <2>1 DEF Threading, Fits
  <2> QED
    BY <1>1, <1>2, <2>2, GuardedInsert
<1> QED
  BY <1>2, <1>4, <1>5, Going

(* ... and a failure.                                                       *)
LEMMA Failing ==
  ASSUME Threaded, NEW t \in Threads, todo[t] # << >>, Fail(t), todo[t][1].do # "transact",
         UNCHANGED <<asked, journal, dirty>>
  PROVE  Threaded'
<1>1. CASE errors' = [errors EXCEPT ![t] = TRUE] /\ Continue(t, << >>)
  <2>1. errors' \in [Threads -> BOOLEAN]
    BY <1>1 DEF Threaded, Threading
  <2> QED
    BY <1>1, <2>1, GoingOn
<1>2. CASE Raise(t)
  BY <1>2, Raising
<1> QED
  BY <1>1, <1>2 DEF Fail

(* Steps that come before the rest, at a step that is no part of a stop *)
LEMMA Inserting ==
  ASSUME Threaded, NEW t \in Threads, todo[t] # << >>, NEW steps, Continue(t, steps),
         Suits(t, op[t], held[t], steps), todo[t][1].do \notin Leaders \cup StopNames,
         t = "monitor" => Lacks(steps, Stopping), Lacks(steps, Recording),
         errors' \in [Threads -> BOOLEAN], UNCHANGED <<asked, journal, dirty>>
  PROVE  Threaded'
<1>0. Threading
  BY DEF Threaded
<1>1. todo[t] \in Seq(Plans) /\ Suits(t, op[t], held[t], todo[t]) /\ Tail(todo[t]) \in Seq(Plans)
      /\ 1 \in 1..Len(todo[t])
  BY <1>0, HeadFacts
<1>2. steps \in Seq(Plans)
  BY SuitsBasic
<1>3. todo[t][1].do \notin Leaders /\ todo[t][1].do \notin StopNames /\ todo[t][1].do # "transact"
  BY DEF Leaders
<1>4. Suits(t, op[t], held[t], steps \o Tail(todo[t]))
  BY <1>1, <1>3, SuitsInsert
<1>5. t = "monitor" /\ op[t] = "monitor" => Guarded(steps \o Tail(todo[t]), held[t])
  <2>1. SUFFICES ASSUME t = "monitor", op[t] = "monitor" PROVE Guarded(steps \o Tail(todo[t]), held[t])
    OBVIOUS
  <2>2. Guarded(todo[t], held[t])
    BY <1>0, <2>1 DEF Threading, Fits
  <2>3. Lacks(steps, Stopping)
    BY <2>1
  <2> QED
    BY <1>1, <1>2, <1>3, <2>2, <2>3, GuardedInsert
<1> QED
  BY <1>2, <1>3, <1>4, <1>5, Going

(* Where a thread is *)
LEMMA AtHead ==
  ASSUME Threading, NEW t \in Threads, NEW names, At(t, names)
  PROVE  todo[t] # << >> /\ Head(todo[t]) = todo[t][1] /\ todo[t][1].do \in names
         /\ GroupOf(t) = todo[t][1].on
  BY HeadFacts DEF At, GroupOf

(* The steps that only workers take                                         *)
WorkerOnly == Names \ (MonitorNames \cup OwnerNames)

(* Steps that only workers take.                                            *)
LEMMA AtWorker ==
  ASSUME Threading, NEW t \in Threads, todo[t] # << >>, todo[t][1].do \in WorkerOnly
  PROVE  t \in Workers
  BY HeadFacts, Apiece DEF WorkerOnly

(* The release may be inserted.                                             *)
LEMMA ReleaseSuits ==
  ASSUME Threading, NEW t \in Threads, todo[t] # << >>, todo[t][1].do = "list", NEW s,
         s = Steps(<<"release">>, todo[t][1].on)
  PROVE  /\ s \in Seq(Plans) /\ Suits(t, op[t], held[t], s \o Tail(todo[t])) /\ Lacks(s, Recording)
         /\ t = "monitor" /\ op[t] = "monitor" => Guarded(s \o Tail(todo[t]), held[t])
         /\ todo[t][1].on \in Groups
<1>1. /\ todo[t] \in Seq(Plans) /\ Suits(t, op[t], held[t], todo[t]) /\ Tail(todo[t]) \in Seq(Plans)
      /\ 1 \in 1..Len(todo[t]) /\ held[t] \in SUBSET Groups
      /\ t \in Workers /\ todo[t][1].do \notin Teardown => todo[t][1].on \in held[t]
      /\ t = "monitor" => (todo[t][1].do \notin RoundNames => todo[t][1].on \in Groups)
      /\ t = "owner" => todo[t][1].do \in OwnerNames
  BY HeadFacts
<1>2. t # "owner" /\ todo[t][1].on \in Groups
  BY <1>1, Apiece DEF OwnerNames, Teardown, RoundNames
<1>3. Suits(t, op[t], held[t], s \o Tail(todo[t]))
  BY <1>1, <1>2, SuitsRelease
<1>4. s \in Seq(Plans) /\ On(s, {todo[t][1].on}) /\ Uses(s, {"release"})
  BY <1>2, ReleaseStep
<1>5. Lacks(s, Recording) /\ Uses(s, StopNames) /\ todo[t][1].do \in StopNames
  BY <1>4 DEF Lacks, Uses, Recording, StopNames
<1>6. t = "monitor" /\ op[t] = "monitor" => Guarded(s \o Tail(todo[t]), held[t])
  <2>1. SUFFICES ASSUME t = "monitor", op[t] = "monitor" PROVE Guarded(s \o Tail(todo[t]), held[t])
    OBVIOUS
  <2>2. Guarded(todo[t], held[t])
    BY <2>1 DEF Threading, Fits
  <2> QED
    BY <1>1, <1>4, <1>5, <2>2, GuardedInsert
<1> QED
  BY <1>2, <1>3, <1>4, <1>5, <1>6

(* The steps no rule is about                                               *)
Plain == Names \ (Followers \cup Starters \cup Sensitive \cup Stopping \cup {"arm_unless_armed",
  "fault"})

(* A list of plain steps for a group a worker holds *)
LEMMA PlainSuits ==
  ASSUME Threading, NEW t \in Workers, NEW g \in held[t], NEW s, Sound(s, {g}), Uses(s, Plain)
  PROVE  Suits(t, op[t], held[t], s) /\ Lacks(s, Recording) /\ Lacks(s, Stopping)
<1>1. Plain \cap (Rising \cup {"arm_unless_armed"}) = {} /\ Plain \cap Recording = {}
      /\ Plain \cap {"fault"} = {}
      /\ Plain \cap Stopping = {}
  BY DEF Plain, Sensitive
<1>2. Lacks(s, Rising \cup {"arm_unless_armed"}) /\ Lacks(s, Recording) /\ Lacks(s, {"fault"})
      /\ Lacks(s, Stopping)
  BY <1>1, UsesLacks
<1>3. held[t] \in SUBSET Groups
  BY DEF Threading, Threads
<1> QED
  BY <1>2, <1>3, SuitsWorker

(* A single step that no rule is about, ...                                 *)
LEMMA PlainStep ==
  ASSUME NEW g \in Groups, NEW name \in Plain
  PROVE  Sound(Steps(<<name>>, g), {g}) /\ Uses(Steps(<<name>>, g), Plain)
<1>1. name \in Names /\ name \notin Starters /\ name \notin Followers /\ g \in Groups \cup {"all"}
  BY DEF Plain
<1>2. Uses(Steps(<<name>>, g), {name})
  BY <1>1, OneStep
<1> QED
  BY <1>1, <1>2, OneStep DEF Sound, Uses

(* ... the blocks a resume inserts, ...                                     *)
LEMMA PlainBlocks ==
  ASSUME NEW g \in Groups
  PROVE  /\ Sound(InitGroup(g) \o Prepare(g), {g}) /\ Uses(InitGroup(g) \o Prepare(g), Plain)
         /\ Sound(Acknowledge(g), {g}) /\ Uses(Acknowledge(g), Plain)
         /\ Sound(Arm(g), {g}) /\ Uses(Arm(g), ArmNames) /\ \A h : Settles(Arm(g), h)
         /\ Has(Arm(g), g, {"settled"})
<1>1. /\ InitGroup(g) \in Seq(Plans) /\ Sound(InitGroup(g), {g}) /\ Uses(InitGroup(g), InitNames)
  BY InitGroupBlock DEF Sound, InitNames
<1>2. /\ Prepare(g) \in Seq(Plans) /\ Sound(Prepare(g), {g}) /\ Uses(Prepare(g), PrepareNames)
  BY PrepareBlock DEF Sound, PrepareNames
<1>3. /\ Sound(Acknowledge(g), {g}) /\ Uses(Acknowledge(g), AcknowledgeNames)
  BY AcknowledgeBlock DEF Sound, AcknowledgeNames
<1>4. /\ Sound(Arm(g), {g}) /\ Uses(Arm(g), ArmNames)
  BY ArmBlock DEF Sound, ArmNames
<1>5. InitNames \subseteq Plain /\ PrepareNames \subseteq Plain /\ AcknowledgeNames \subseteq Plain
  <2>1. InitNames \cup PrepareNames \cup AcknowledgeNames \subseteq Names
    BY DEF InitNames, PrepareNames, AcknowledgeNames, Names, Checked, Others, Mutations, Reads,
           Assigned
  <2>2. (InitNames \cup PrepareNames \cup AcknowledgeNames) \cap
          (Followers \cup Starters \cup Sensitive \cup Stopping \cup {"arm_unless_armed", "fault"}) = {}
    BY DEF InitNames, PrepareNames, AcknowledgeNames, Followers, Starters, Sensitive, Rising,
           Recording,
           Stopping, StopNames
  <2> QED
    BY <2>1, <2>2 DEF Plain
<1>6. Sound(InitGroup(g) \o Prepare(g), {g})
  BY <1>1, <1>2, SoundJoin
<1>7. Uses(InitGroup(g) \o Prepare(g), Plain)
  BY <1>1, <1>2, <1>5, UsesJoin
<1>8. Uses(Acknowledge(g), Plain)
  BY <1>3, <1>5 DEF Uses
<1>9. Has(Arm(g), g, {"settled"})
  <2>1. Len(Arm(g)) = 3
    BY ArmBlock
  <2>2. Arm(g)[1].do = "settled" /\ Arm(g)[1].on = g
    BY DEF Arm, Steps, Step
  <2> QED
    BY <2>1, <2>2 DEF Has
<1> QED
  BY <1>3, <1>4, <1>6, <1>7, <1>8, <1>9, ArmSettles

(* ... and a rebuild.                                                       *)
LEMMA RebuildBlock ==
  ASSUME NEW g \in Groups
  PROVE  /\ Sound(Steps(<<"to_unconfigured", "to_inactive", "rebuilt">>, g), {g})
         /\ Uses(Steps(<<"to_unconfigured", "to_inactive", "rebuilt">>, g), Plain)
<1> DEFINE names == <<"to_unconfigured", "to_inactive", "rebuilt">>
<1>1. names \in Seq(Names) /\ Len(names) = 3 /\ names[1] = "to_unconfigured" /\ names[2] = "to_inactive"
      /\ names[3] = "rebuilt" /\ g \in Groups \cup {"all"}
  BY DEF Names, Others, Assigned
<1> HIDE DEF names
<1>2. \A i \in 1..Len(names) : names[i] \in {"to_unconfigured", "to_inactive", "rebuilt"}
  <2>1. \A i \in 1..3 : i = 1 \/ i = 2 \/ i = 3
    OBVIOUS
  <2> QED
    BY <1>1, <2>1
<1>3. {"to_unconfigured", "to_inactive", "rebuilt"} \subseteq Plain
  BY DEF Plain, Names, Others, Assigned, Followers, Starters, Sensitive, Rising, Recording,
         Stopping, StopNames
<1>4. \A i, j \in 1..Len(names) : j = i + 1 =>
            Leads([do |-> names[i], on |-> g], [do |-> names[j], on |-> g])
  BY <1>2 DEF Leads, Followers, Starters
<1>5. Len(names) > 0 => names[Len(names)] \notin Starters /\ names[1] \notin Followers
  BY <1>1 DEF Starters, Followers
<1>6. Steps(names, g) \in Seq(Plans) /\ Chained(Steps(names, g)) /\ Fresh(Steps(names, g))
  BY <1>1, <1>4, <1>5, StepsFacts, StepsChain
<1>7. On(Steps(names, g), {g})
  BY <1>1, StepsSet
<1>8. Uses(Steps(names, g), Plain)
  <2>1. \A i \in 1..Len(names) : names[i] \in Plain
    BY <1>2, <1>3
  <2> QED
    BY <1>1, <2>1, StepsSet
<1> QED
  BY <1>6, <1>7, <1>8 DEF Sound, names

(* Every step keeps the threads in order: reads, ...                        *)
LEMMA ThreadsReadsRobot ==
  ASSUME Threaded, NEW t \in Threads, ReadsRobot(t)
  PROVE  Threaded'
<1>0. Threading
  BY DEF Threaded
<1>1. /\ todo[t] # << >> /\ todo[t][1].do \in {"list", "lingering", "verify", "ready"}
      /\ GroupOf(t) = todo[t][1].on /\ Head(todo[t]) = todo[t][1]
  <2>1. At(t, {"list", "lingering", "verify", "ready"})
    BY DEF ReadsRobot
  <2> QED
    BY <1>0, <2>1, AtHead
<1>2. errors' \in [Threads -> BOOLEAN] /\ UNCHANGED <<asked, journal, dirty>>
  BY <1>0 DEF ReadsRobot, Threading, rest, journalVars
<1>3. CASE Continue(t, << >>)
  BY <1>1, <1>2, <1>3, GoingOn
<1>4. CASE todo[t][1].do = "list" /\ Continue(t, Steps(<<"release">>, GroupOf(t)))
  <2> DEFINE s == Steps(<<"release">>, todo[t][1].on)
  <2>1. /\ s \in Seq(Plans) /\ Suits(t, op[t], held[t], s \o Tail(todo[t])) /\ Lacks(s, Recording)
        /\ t = "monitor" /\ op[t] = "monitor" => Guarded(s \o Tail(todo[t]), held[t])
    BY <1>0, <1>1, <1>4, ReleaseSuits
  <2>2. Continue(t, s) /\ todo[t][1].do # "transact"
    BY <1>1, <1>4
  <2> HIDE DEF s
  <2> QED
    BY <1>1, <1>2, <2>1, <2>2, Going
<1>5. CASE todo[t][1].do = "lingering" /\ Continue(t, Steps(<<"release_lingering">>, GroupOf(t)))
  <2> DEFINE g == todo[t][1].on
             s == Steps(<<"release_lingering">>, g)
  <2>1. t \in Workers
    BY <1>0, <1>1, <1>5, AtWorker
    DEF WorkerOnly, Names, Reads, MonitorNames, OwnerNames, StopNames
  <2>2. g \in held[t] /\ g \in Groups
    BY <1>0, <1>1, <1>5, <2>1, HeadFacts DEF Teardown
  <2>3. "release_lingering" \in Plain
    BY DEF Plain, Names, Mutations, Followers, Starters, Sensitive, Rising, Recording, Stopping,
           StopNames
  <2>4. Sound(s, {g}) /\ Uses(s, Plain) /\ Continue(t, s)
    BY <1>1, <1>5, <2>2, <2>3, PlainStep
  <2> HIDE DEF s
  <2>5. Suits(t, op[t], held[t], s) /\ Lacks(s, Recording) /\ Lacks(s, Stopping)
    BY <1>0, <2>1, <2>2, <2>4, PlainSuits
  <2> QED
    BY <1>1, <1>2, <1>5, <2>4, <2>5, Inserting DEF Leaders, StopNames
<1>6. Continue(t, IF GroupOf(t) \notin active \/ At(t, {"verify", "ready"}) THEN <<>>
                  ELSE Steps(IF At(t, {"list"}) THEN <<"release">> ELSE <<"release_lingering">>,
                             GroupOf(t)))
  BY DEF ReadsRobot
<1>7. At(t, {"verify", "ready"}) <=> todo[t][1].do \in {"verify", "ready"}
  BY <1>1 DEF At
<1>8. At(t, {"list"}) <=> todo[t][1].do = "list"
  BY <1>1 DEF At
<1> QED
  <2>1. CASE GroupOf(t) \notin active \/ At(t, {"verify", "ready"})
    BY <1>3, <1>6, <2>1
  <2>2. CASE ~(GroupOf(t) \notin active \/ At(t, {"verify", "ready"})) /\ At(t, {"list"})
    BY <1>4, <1>6, <1>8, <2>2
  <2>3. CASE ~(GroupOf(t) \notin active \/ At(t, {"verify", "ready"})) /\ ~At(t, {"list"})
    BY <1>1, <1>5, <1>6, <1>7, <1>8, <2>3
  <2> QED
    BY <2>1, <2>2, <2>3

(* ... checks, ...                                                          *)
LEMMA ThreadsChecks ==
  ASSUME Threaded, NEW t \in Threads, Checks(t)
  PROVE  Threaded'
<1>0. Threading
  BY DEF Threaded
<1> DEFINE g == todo[t][1].on
           names == {"if_halted", "unless_armed", "arm_unless_armed", "rebuild", "switched",
                     "may_init", "may_prepare", "may_acknowledge", "fit", "settled"}
<1>1. /\ todo[t] # << >> /\ todo[t][1].do \in names
      /\ GroupOf(t) = g /\ Head(todo[t]) = todo[t][1]
  <2>1. At(t, names)
    BY DEF Checks
  <2> QED
    BY <1>0, <2>1, AtHead
<1>2. errors \in [Threads -> BOOLEAN] /\ UNCHANGED <<asked, journal, dirty>>
  BY <1>0 DEF Checks, Threading, rest, journalVars
<1>3. t \in Workers
  <2>1. todo[t][1].do \in WorkerOnly
    BY <1>1 DEF WorkerOnly, Names, Checked, MonitorNames, OwnerNames, StopNames
  <2> QED
    BY <1>0, <1>1, <2>1, AtWorker
<1>4. g \in held[t] /\ g \in Groups
  BY <1>0, <1>1, <1>3, HeadFacts DEF Teardown
<1>5. todo[t][1].do \notin Leaders \cup StopNames /\ todo[t][1].do # "transact" /\ t # "monitor"
  BY <1>1, <1>3, Apiece DEF Leaders, StopNames
<1> HIDE DEF g
<1>6. ASSUME Raise(t) PROVE Threaded'
  BY <1>1, <1>2, <1>6, Raising
<1>7. ASSUME Continue(t, << >>), UNCHANGED errors PROVE Threaded'
  BY <1>1, <1>2, <1>5, <1>7, GoingOn
<1>8. ASSUME NEW s, Sound(s, {g}), Uses(s, Plain), Continue(t, s), UNCHANGED errors PROVE Threaded'
  <2>1. Suits(t, op[t], held[t], s) /\ Lacks(s, Recording)
    BY <1>0, <1>3, <1>4, <1>8, PlainSuits
  <2> QED
    BY <1>1, <1>2, <1>5, <1>8, <2>1, Inserting
<1>9. ASSUME Continue(t, Arm(g)), UNCHANGED errors, todo[t][1].do = "arm_unless_armed" PROVE Threaded'
  <2>1. op[t] \in Arming
    <3>1. Suits(t, op[t], held[t], todo[t]) /\ 1 \in 1..Len(todo[t])
      BY <1>0, <1>1, HeadFacts
    <3>2. op[t] \notin Arming => Lacks(todo[t], Rising \cup {"arm_unless_armed"})
      BY <1>3, <3>1 DEF Suits, Script
    <3> QED
      BY <1>9, <3>1, <3>2 DEF Lacks
  <2>2. Sound(Arm(g), {g}) /\ Uses(Arm(g), ArmNames)
    BY <1>4, PlainBlocks
  <2>3. ArmNames \cap Recording = {} /\ ArmNames \cap {"fault"} = {} /\ op[t] \notin Maintenance
    BY <2>1 DEF ArmNames, Recording, Arming, Maintenance
  <2>4. Lacks(Arm(g), Recording) /\ Lacks(Arm(g), {"fault"})
    BY <2>2, <2>3, UsesLacks
  <2>5. held[t] \in SUBSET Groups
    BY <1>0 DEF Threading
  <2>6. Suits(t, op[t], held[t], Arm(g))
    BY <1>3, <1>4, <2>1, <2>2, <2>4, <2>5, SuitsWorker
  <2> QED
    BY <1>1, <1>2, <1>5, <1>9, <2>4, <2>6, Inserting
<1>10. \A ns : At(t, ns) <=> todo[t][1].do \in ns
  BY <1>1 DEF At
<1>11. \/ Raise(t)
       \/ UNCHANGED errors /\ Continue(t, << >>)
       \/ UNCHANGED errors /\ Continue(t, InitGroup(g) \o Prepare(g))
       \/ UNCHANGED errors /\ Continue(t, Acknowledge(g))
       \/ UNCHANGED errors /\ Continue(t, Arm(g)) /\ todo[t][1].do = "arm_unless_armed"
       \/ UNCHANGED errors /\ Continue(t, Steps(<<"to_unconfigured", "to_inactive", "rebuilt">>, g))
  <2> DEFINE steps ==
          CASE At(t, {"if_halted"}) -> IF state[g] = "Halted" THEN InitGroup(g) \o Prepare(g) ELSE <<>>
            [] At(t, {"unless_armed"}) -> IF state[g] # "Armed" THEN Acknowledge(g) ELSE <<>>
            [] At(t, {"arm_unless_armed"}) -> IF state[g] # "Armed" THEN Arm(g) ELSE <<>>
            [] At(t, {"rebuild"}) -> Steps(<<"to_unconfigured", "to_inactive", "rebuilt">>, g)
            [] OTHER -> <<>>
  <2>1. Raise(t) \/ (Continue(t, steps) /\ UNCHANGED errors)
    BY <1>1 DEF Checks
  <2>2. \/ steps = << >> \/ steps = InitGroup(g) \o Prepare(g) \/ steps = Acknowledge(g)
        \/ steps = Arm(g) /\ todo[t][1].do = "arm_unless_armed"
        \/ steps = Steps(<<"to_unconfigured", "to_inactive", "rebuilt">>, g)
    BY <1>10
  <2> HIDE DEF steps
  <2> QED
    BY <2>1, <2>2
<1> QED
  BY <1>4, <1>6, <1>7, <1>8, <1>9, <1>11, PlainBlocks, RebuildBlock

(* ... the transitions of the component, ...                                *)
LEMMA PathSuits ==
  ASSUME Threading, NEW t \in Workers, todo[t] # << >>,
         todo[t][1].do \in {"to_inactive", "to_active", "to_unconfigured"}, NEW path,
         \/ path = << >> \/ path = <<"inactive">> \/ path = <<"inactive", "active">>
               \/ path = <<"active">>
         \/ path = <<"unconfigured">>,
         todo[t][1].do = "to_unconfigured" => path = << >> \/ path = <<"unconfigured">>
  PROVE  Suits(t, op[t], held[t], Steps(path, todo[t][1].on)) /\ Lacks(Steps(path,
         todo[t][1].on), Recording)
<1> DEFINE g == todo[t][1].on
           s == Steps(path, g)
<1>1. /\ Suits(t, op[t], held[t], todo[t]) /\ 1 \in 1..Len(todo[t]) /\ todo[t][1] \in Plans
      /\ held[t] \in SUBSET Groups
  BY HeadFacts DEF Threads
<1>2. /\ g \in held[t] \cup {"all"} /\ (g = "all" => todo[t][1].do \in Teardown)
      /\ (op[t] # "shutdown" => g \in held[t]) /\ g \in Groups \cup {"all"}
  <2>1. On(todo[t], held[t] \cup {"all"}) /\ Only(todo[t], "all", Teardown)
        /\ (op[t] # "shutdown" => On(todo[t], held[t]))
    BY <1>1 DEF Suits, Script
  <2> QED
    BY <1>1, <2>1 DEF On, Only
<1>3. path \in Seq(Names) /\ (\A i \in 1..Len(path) : path[i] \in Lifecycle)
      /\ (g = "all" => \A i \in 1..Len(path) : path[i] = "unconfigured")
  <2>1. Lifecycle \subseteq Names /\ {"inactive", "active", "unconfigured"} \subseteq Lifecycle
    BY DEF Names, Mutations, Lifecycle
  <2>2. "to_inactive" \notin Teardown /\ "to_active" \notin Teardown
    BY DEF Teardown
  <2>3. CASE path = << >>
    BY <2>3
  <2>4. CASE path = <<"inactive">>
    BY <1>2, <2>1, <2>2, <2>4
  <2>5. CASE path = <<"inactive", "active">>
    BY <1>2, <2>1, <2>2, <2>5
  <2>6. CASE path = <<"active">>
    BY <1>2, <2>1, <2>2, <2>6
  <2>7. CASE path = <<"unconfigured">>
    BY <1>2, <2>1, <2>2, <2>7
  <2> QED
    BY <2>3, <2>4, <2>5, <2>6, <2>7
<1> HIDE DEF s, g
<1>4. Lifecycle \cap (Followers \cup Starters) = {}
      /\ Lifecycle \cap (Rising \cup {"arm_unless_armed"}) = {}
      /\ Lifecycle \cap Recording = {} /\ Lifecycle \cap {"fault"} = {} /\ "unconfigured" \in Teardown
  BY DEF Lifecycle, Followers, Starters, Rising, Recording, Teardown
<1>5. /\ s \in Seq(Plans) /\ Len(s) = Len(path) /\ Len(path) \in Nat
      /\ \A i \in 1..Len(path) : s[i].do = path[i] /\ s[i].on = g
  BY <1>2, <1>3, StepsFacts DEF s
<1>6. Chained(s)
  BY <1>3, <1>4, <1>5 DEF Chained, Leads, Followers, Starters
<1>7. Uses(s, Lifecycle) /\ On(s, {g}) /\ (g = "all" => Uses(s, {"unconfigured"}))
  BY <1>3, <1>5 DEF Uses, On
<1>8. Lacks(s, Rising \cup {"arm_unless_armed"}) /\ Lacks(s, Recording) /\ Lacks(s, {"fault"})
  BY <1>4, <1>7, UsesLacks
<1>9. On(s, held[t] \cup {"all"}) /\ (op[t] # "shutdown" => On(s, held[t])) /\ Only(s, "all", Teardown)
  BY <1>2, <1>4, <1>7 DEF On, Only, Uses
<1>10. Script(s, op[t], held[t])
  BY <1>5, <1>6, <1>8, <1>9 DEF Script
<1> QED
  BY <1>8, <1>10, Apiece DEF Suits, s, g

(* ... which are inserted, ...                                              *)
LEMMA ThreadsTransition ==
  ASSUME Threaded, NEW t \in Threads, Transition(t)
  PROVE  Threaded'
<1>0. Threading
  BY DEF Threaded
<1> DEFINE names == {"to_inactive", "to_active", "to_unconfigured"}
           path ==
        CASE At(t, {"to_inactive"}) /\ component = "unconfigured" -> <<"inactive">>
          [] At(t, {"to_active"}) /\ component = "unconfigured" -> <<"inactive", "active">>
          [] At(t, {"to_active"}) /\ component = "inactive" -> <<"active">>
          [] At(t, {"to_unconfigured"}) /\ component # "unconfigured" -> <<"unconfigured">>
          [] OTHER -> <<>>
<1>1. /\ todo[t] # << >> /\ todo[t][1].do \in names
      /\ GroupOf(t) = todo[t][1].on /\ Head(todo[t]) = todo[t][1]
  <2>1. At(t, names)
    BY DEF Transition
  <2> QED
    BY <1>0, <2>1, AtHead
<1>2. errors \in [Threads -> BOOLEAN] /\ UNCHANGED <<asked, journal, dirty>>
  BY <1>0 DEF Transition, Threading, rest, journalVars
<1>3. t \in Workers /\ t # "monitor"
  <2>1. todo[t][1].do \in WorkerOnly
    BY <1>1 DEF WorkerOnly, Names, Others, MonitorNames, OwnerNames, StopNames
  <2> QED
    BY <1>0, <1>1, <2>1, AtWorker, Apiece
<1>4. todo[t][1].do \notin Leaders \cup StopNames
  BY <1>1 DEF Leaders, StopNames
<1>5. \A ns : At(t, ns) <=> todo[t][1].do \in ns
  BY <1>1 DEF At
<1>6. /\ \/ path = << >> \/ path = <<"inactive">> \/ path = <<"inactive", "active">>
               \/ path = <<"active">>
         \/ path = <<"unconfigured">>
      /\ todo[t][1].do = "to_unconfigured" => path = << >> \/ path = <<"unconfigured">>
  BY <1>5
<1>7. Raise(t) \/ (Continue(t, Steps(path, todo[t][1].on)) /\ UNCHANGED errors)
  BY <1>1 DEF Transition
<1> HIDE DEF path
<1>8. CASE Raise(t)
  BY <1>1, <1>2, <1>8, Raising
<1>9. CASE Continue(t, Steps(path, todo[t][1].on)) /\ UNCHANGED errors
  <2> DEFINE s == Steps(path, todo[t][1].on)
  <2>1. Suits(t, op[t], held[t], s) /\ Lacks(s, Recording)
    BY <1>0, <1>1, <1>3, <1>6, PathSuits
  <2> HIDE DEF s
  <2>2. Continue(t, s) /\ UNCHANGED errors
    BY <1>9 DEF s
  <2> QED
    BY <1>1, <1>2, <1>3, <1>4, <2>1, <2>2, Inserting
<1> QED
  BY <1>7, <1>8, <1>9

(* ... the end of a rebuild, ...                                            *)
LEMMA ThreadsRebuilt ==
  ASSUME Threaded, NEW t \in Threads, Rebuilt(t)
  PROVE  Threaded'
<1>0. Threading
  BY DEF Threaded
<1>1. /\ todo[t] # << >> /\ todo[t][1].do = "rebuilt"
  <2>1. At(t, {"rebuilt"})
    BY DEF Rebuilt
  <2> QED
    BY <1>0, <2>1, AtHead
<1> DEFINE w == WithoutName(Tail(todo[t]), "rebuild")
<1>2. errors \in [Threads -> BOOLEAN] /\ UNCHANGED <<asked, journal, dirty, errors, op, held>>
  BY <1>0 DEF Rebuilt, Threading, rest, journalVars
<1>3. t \in Workers /\ t # "monitor"
  <2>1. todo[t][1].do \in WorkerOnly
    BY <1>1 DEF WorkerOnly, Names, Assigned, MonitorNames, OwnerNames, StopNames
  <2> QED
    BY <1>0, <1>1, <2>1, AtWorker, Apiece
<1>4. /\ op[t] \in Ops /\ held[t] \in SUBSET Groups /\ op' = [op EXCEPT ![t] = op[t]]
      /\ held' = [held EXCEPT ![t] = held[t]] /\ todo' = [todo EXCEPT ![t] = w]
  BY <1>0, <1>2 DEF Threading, Rebuilt
<1>5. Suits(t, op[t], held[t], todo[t]) /\ Role(t, op[t]) /\ op[t] # ""
  BY <1>0, <1>1, HeadFacts
<1>6. Suits(t, op[t], held[t], w) /\ Fresh(w) /\ w \in Seq(Plans)
  BY <1>1, <1>5, SuitsRebuilt
<1> HIDE DEF w
<1>7. Fits(t, op[t], held[t], w)
  BY <1>3, <1>4, <1>5, <1>6 DEF Fits
<1>8. w # << >> => w[1].do \notin Unrecoverable
  <2>1. w # << >> => Len(w) > 0
    BY <1>6, Rest
  <2> QED
    BY <1>6, <2>1 DEF Fresh, Followers, Unrecoverable
<1>9. \A u \in Threads \ {t} : held[t] \cap held[u] = {}
  BY <1>0, Apart
<1> QED
  BY <1>2, <1>4, <1>7, <1>8, <1>9, Replacing

(* (what the threads' order says of the types)                              *)
LEMMA Typed ==
  ASSUME Threaded
  PROVE  Threading /\ errors \in [Threads -> BOOLEAN] /\ \A t \in Threads : errors[t] \in BOOLEAN
  BY DEF Threaded, Threading

(* ... calls, ...                                                           *)
LEMMA ThreadsCalls ==
  ASSUME Threaded, NEW t \in Threads, Answered(t) \/ Refused(t) \/ TimesOut(t) \/ ReadFails(t)
  PROVE  Threaded'
<1>0. Threading /\ errors \in [Threads -> BOOLEAN]
  BY Typed
<1>1. At(t, Mutations \cup Reads)
  BY DEF Answered, Refused, TimesOut, ReadFails, At
<1>2. todo[t] # << >> /\ todo[t][1].do \in Mutations \cup Reads
  BY <1>0, <1>1, AtHead
<1>3. todo[t][1].do # "transact"
  BY <1>2 DEF Mutations, Reads, Lifecycle
<1>4. UNCHANGED <<asked, journal, dirty>>
  BY DEF Answered, Refused, TimesOut, ReadFails, rest, journalVars
<1>5. CASE Answered(t)
  BY <1>0, <1>2, <1>3, <1>4, <1>5, GoingOn DEF Answered
<1>6. CASE Fail(t)
  BY <1>2, <1>3, <1>4, <1>6, Failing
<1> QED
  BY <1>5, <1>6 DEF Refused, TimesOut, ReadFails

(* ... assignments, ...                                                     *)
LEMMA ThreadsAssigns ==
  ASSUME Threaded, NEW t \in Threads, Assigns(t) \/ Bumps(t) \/ Halted(t)
  PROVE  Threaded'
<1>0. Threading /\ errors \in [Threads -> BOOLEAN]
  BY Typed
<1> DEFINE names == {"initialized", "armed", "running", "stopped", "fault", "bump", "halted"}
<1>1. At(t, names)
  BY DEF Assigns, Bumps, Halted, At
<1>2. todo[t] # << >> /\ todo[t][1].do \in names
  BY <1>0, <1>1, AtHead
<1>3. todo[t][1].do # "transact"
  BY <1>2
<1>4. UNCHANGED <<asked, journal, dirty>>
  BY DEF Assigns, Bumps, Halted, rest, journalVars
<1>5. Raise(t) \/ (Continue(t, << >>) /\ errors' \in [Threads -> BOOLEAN])
  <2>1. CASE Assigns(t)
    BY <1>0, <2>1 DEF Assigns
  <2>2. CASE Bumps(t)
    BY <1>0, <2>2 DEF Bumps
  <2>3. CASE Halted(t)
    BY <1>0, <2>3 DEF Halted
  <2> QED
    BY <2>1, <2>2, <2>3
<1> QED
  BY <1>2, <1>3, <1>4, <1>5, Raising, GoingOn

(* (the empty list joined)                                                  *)
LEMMA JoinEmpty ==
  ASSUME NEW x \in Seq(Plans)
  PROVE  << >> \o x = x
  OBVIOUS

(* The rest, whatever becomes of the journal *)
LEMMA GoingThreads ==
  ASSUME Threading, NEW t \in Threads, todo[t] # << >>, Continue(t, << >>), UNCHANGED <<errors, asked>>
  PROVE  /\ Threading' /\ todo'[t] = Tail(todo[t])
         /\ \A u \in Threads : u # t => todo'[u] = todo[u]
<1> DEFINE r == Tail(todo[t])
<1>1. /\ todo[t] \in Seq(Plans) /\ Suits(t, op[t], held[t], todo[t]) /\ r \in Seq(Plans)
      /\ 1 \in 1..Len(todo[t]) /\ Role(t, op[t]) /\ op[t] # "" /\ held[t] \in SUBSET Groups
  BY HeadFacts
<1>2. << >> \o r = r
  BY <1>1, JoinEmpty
<1>3. Suits(t, op[t], held[t], r)
  BY <1>1, SuitsTail
<1>4. t = "monitor" /\ op[t] = "monitor" => Guarded(r, held[t])
  <2>1. SUFFICES ASSUME t = "monitor", op[t] = "monitor" PROVE Guarded(r, held[t])
    OBVIOUS
  <2>2. Guarded(todo[t], held[t])
    BY <2>1 DEF Threading, Fits
  <2>3. << >> \in Seq(Plans) /\ Lacks(<< >>, Stopping) /\ Uses(<< >>, StopNames)
        /\ \A gs : On(<< >>, gs)
    BY DEF Lacks, Uses, On
  <2>4. Guarded(<< >> \o r, held[t])
    BY <1>1, <2>2, <2>3, GuardedInsert
  <2> QED
    BY <1>2, <2>4
<1>5. Fits(t, op[t], held[t], r)
  BY <1>1, <1>3, <1>4 DEF Fits
<1>6. /\ op[t] \in Ops /\ op' = [op EXCEPT ![t] = op[t]] /\ held' = [held EXCEPT ![t] = held[t]]
      /\ todo' = [todo EXCEPT ![t] = r] /\ errors' \in [Threads -> BOOLEAN]
  BY <1>2 DEF Threading, Continue
<1>7. \A u \in Threads \ {t} : held[t] \cap held[u] = {}
  BY Apart
<1>8. UNCHANGED asked
  OBVIOUS
<1> HIDE DEF r
<1>9. Threading'
  BY <1>1, <1>5, <1>6, <1>7, <1>8, OneThread
<1> QED
  BY <1>6, <1>9 DEF Threading, r

(* ... the journal's record, ...                                            *)
LEMMA ThreadsRecords ==
  ASSUME Threaded, NEW t \in Threads, Records(t)
  PROVE  Threaded'
<1>0. Threading /\ Recorded
  BY DEF Threaded
<1> DEFINE g == todo[t][1].on
           r == Tail(todo[t])
<1>1. todo[t] # << >> /\ todo[t][1].do = "transact" /\ GroupOf(t) = g
  <2>1. At(t, {"transact"})
    BY DEF Records
  <2> QED
    BY <1>0, <2>1, AtHead
<1>2. t \in Workers
  BY <1>0, <1>1, AtWorker DEF WorkerOnly, Names, Assigned, MonitorNames, OwnerNames, StopNames
<1>3. g \in held[t] /\ Suits(t, op[t], held[t], todo[t]) /\ r \in Seq(Plans) /\ todo[t] \in Seq(Plans)
      /\ Chained(todo[t]) /\ 1 \in 1..Len(todo[t])
  BY <1>0, <1>1, <1>2, HeadFacts DEF Teardown
<1>4. op[t] \in Maintenance
  BY <1>1, <1>2, <1>3 DEF Suits, Script, Lacks, Recording
<1> HIDE DEF g, r
<1>5. CASE Raise(t) /\ UNCHANGED journalVars
  BY <1>1, <1>5, Raising DEF Records, journalVars
<1>6. CASE /\ IF op[t] = "maintain" THEN ~dirty ELSE journal = g
           /\ journal' = g /\ dirty' = TRUE
           /\ Continue(t, <<>>) /\ UNCHANGED errors
  <2>1. /\ Threading' /\ todo'[t] = r
        /\ \A u \in Threads : u # t => todo'[u] = todo[u]
    BY <1>0, <1>1, <1>6, GoingThreads DEF Records, r
  <2>3. ASSUME NEW u \in Workers, At(u, Unrecoverable)' PROVE ~Resolved(GroupOf(u))'
    <3>1. CASE u = t
      <4>1. r # << >> /\ Head(r).do \in Unrecoverable /\ GroupOf(u)' = Head(r).on
        BY <2>1, <2>3, <3>1 DEF At, GroupOf
      <4>2. Len(r) > 0 /\ Head(r) = r[1]
        BY <1>3, <4>1, Rest
      <4>3. Leads(todo[t][1], r[1])
        BY <1>1, <1>3, <4>2, RestChain DEF r
      <4>4. Head(r).on = g
        BY <4>1, <4>2, <4>3 DEF Leads, Followers, Unrecoverable, g
      <4> QED
        BY <1>6, <4>1, <4>4 DEF Resolved
    <3>2. CASE u # t
      <4> DEFINE h == todo[u][1].on
      <4>1. At(u, Unrecoverable) /\ GroupOf(u)' = GroupOf(u) /\ u \in Threads
        BY <2>1, <2>3, <3>2 DEF At, GroupOf, Threads
      <4>2. todo[u] # << >> /\ todo[u][1].do \in Unrecoverable /\ GroupOf(u) = h
        BY <1>0, <4>1, AtHead
      <4>3. h \in held[u]
        BY <1>0, <2>3, <4>1, <4>2, HeadFacts DEF Unrecoverable, Teardown
      <4>4. ~Resolved(h)
        BY <1>0, <4>1, <4>2 DEF Recorded
      <4>5. h = g
        BY <1>6, <4>4 DEF Resolved
      <4>6. held[t] \cap held[u] = {}
        BY <1>0, <3>2, <4>1 DEF Threading, Disjoint
      <4> QED
        BY <1>3, <4>3, <4>5, <4>6
    <3> QED
      BY <3>1, <3>2
  <2>4. Recorded'
    BY <2>3 DEF Recorded
  <2> QED
    BY <2>1, <2>4 DEF Threaded
<1> QED
  BY <1>1, <1>4, <1>5, <1>6 DEF Records

(* ... its end, ...                                                         *)
LEMMA ThreadsCloses ==
  ASSUME Threaded, NEW t \in Threads, Closes(t)
  PROVE  Threaded' /\ ~Resolved(GroupOf(t)) /\ GroupOf(t) \in Groups /\ dirty' \in BOOLEAN
<1>0. Threading /\ Recorded
  BY DEF Threaded
<1> DEFINE g == todo[t][1].on
           r == Tail(todo[t])
<1>1. todo[t] # << >> /\ todo[t][1].do \in {"close", "roll_back"} /\ GroupOf(t) = g
  <2>1. At(t, {"close", "roll_back"})
    BY DEF Closes
  <2> QED
    BY <1>0, <2>1, AtHead
<1>2. t \in Workers
  BY <1>0, <1>1, AtWorker DEF WorkerOnly, Names, Assigned, MonitorNames, OwnerNames, StopNames
<1>3. g \in held[t] /\ r \in Seq(Plans) /\ todo[t] \in Seq(Plans) /\ Chained(todo[t])
      /\ held[t] \in SUBSET Groups
  BY <1>0, <1>1, <1>2, HeadFacts DEF Teardown
<1>4. ~Resolved(g)
  BY <1>0, <1>1, <1>2 DEF Recorded, At, Closes, Unrecoverable
<1>5. dirty' \in BOOLEAN
  BY DEF Closes
<1>6. /\ Threading' /\ todo'[t] = r
      /\ \A u \in Threads : u # t => todo'[u] = todo[u]
  BY <1>0, <1>1, GoingThreads DEF Closes
<1>7. Fresh(r)
  BY <1>1, <1>3, RestChain DEF Leaders
<1> HIDE DEF g, r
<1>8. ASSUME NEW u \in Workers, At(u, Unrecoverable)' PROVE FALSE
  <2>1. CASE u = t
    <3>1. r # << >> /\ Head(r).do \in Unrecoverable
      BY <1>6, <1>8, <2>1 DEF At
    <3>2. Len(r) > 0 /\ Head(r) = r[1]
      BY <1>3, <3>1, Rest
    <3> QED
      BY <1>7, <3>1, <3>2 DEF Fresh, Followers, Unrecoverable
  <2>2. CASE u # t
    <3> DEFINE h == todo[u][1].on
    <3>1. At(u, Unrecoverable) /\ u \in Threads
      BY <1>6, <1>8, <2>2 DEF At, Threads
    <3>2. todo[u] # << >> /\ todo[u][1].do \in Unrecoverable /\ GroupOf(u) = h
      BY <1>0, <3>1, AtHead
    <3>3. h \in held[u]
      BY <1>0, <1>8, <3>1, <3>2, HeadFacts DEF Unrecoverable, Teardown
    <3>4. ~Resolved(h)
      BY <1>0, <3>1, <3>2 DEF Recorded
    <3>5. h = g
      BY <1>4, <3>4 DEF Resolved
    <3>6. held[t] \cap held[u] = {}
      BY <1>0, <2>2, <3>1 DEF Threading, Disjoint
    <3> QED
      BY <1>3, <3>3, <3>5, <3>6
  <2> QED
    BY <2>1, <2>2
<1>9. Recorded'
  BY <1>8 DEF Recorded
<1> QED
  BY <1>1, <1>3, <1>4, <1>5, <1>6, <1>9 DEF Threaded

(* ... the end of maintenance, ...                                          *)
LEMMA ThreadsConcludes ==
  ASSUME Threaded, NEW t \in Threads, Concludes(t)
  PROVE  Threaded'
<1>0. Threading
  BY DEF Threaded
<1> DEFINE g == todo[t][1].on
           s == Steps(<<"maintenance_lock">>, g)
<1>1. todo[t] # << >> /\ todo[t][1].do = "maintained" /\ GroupOf(t) = g
  <2>1. At(t, {"maintained"})
    BY DEF Concludes
  <2> QED
    BY <1>0, <2>1, AtHead
<1>2. t \in Workers /\ t # "monitor"
  BY <1>0, <1>1, AtWorker, Apiece
  DEF WorkerOnly, Names, Assigned, MonitorNames, OwnerNames, StopNames
<1>3. g \in held[t] /\ g \in Groups
  BY <1>0, <1>1, <1>2, HeadFacts DEF Teardown
<1>4. errors \in [Threads -> BOOLEAN] /\ UNCHANGED <<asked, journal, dirty, errors>>
  BY <1>0 DEF Concludes, Threading, rest, journalVars
<1>5. Continue(t, << >>) \/ Continue(t, s)
  BY <1>1 DEF Concludes
<1>6. "maintenance_lock" \in Plain
  BY DEF Plain, Names, Mutations, Followers, Starters, Sensitive, Rising, Recording, Stopping,
         StopNames
<1>7. Sound(s, {g}) /\ Uses(s, Plain)
  BY <1>3, <1>6, PlainStep
<1> HIDE DEF s
<1>8. Suits(t, op[t], held[t], s) /\ Lacks(s, Recording)
  BY <1>0, <1>2, <1>3, <1>7, PlainSuits
<1>9. todo[t][1].do # "transact" /\ todo[t][1].do \notin Leaders \cup StopNames
  BY <1>1 DEF Leaders, StopNames
<1> QED
  BY <1>1, <1>2, <1>4, <1>5, <1>8, <1>9, GoingOn, Inserting

(* ... the end of an operation, ...                                         *)
LEMMA ThreadsEnds ==
  ASSUME Threaded, NEW t \in Threads, Ends(t)
  PROVE  Threaded'
<1>0. Threading /\ errors \in [Threads -> BOOLEAN]
  BY Typed
<1>1. "" \in Ops /\ {} \in SUBSET Groups
  BY DEF Ops
<1>2. Fits(t, "", {}, << >>)
  BY SuitsEmpty DEF Fits, Role
<1>3. op' = [op EXCEPT ![t] = ""] /\ held' = [held EXCEPT ![t] = {}]
      /\ todo' = [todo EXCEPT ![t] = << >>]
  BY <1>0 DEF Ends, Threading
<1>4. errors' \in [Threads -> BOOLEAN] /\ UNCHANGED <<asked, journal, dirty>>
  BY <1>0 DEF Ends, rest, journalVars
<1> QED
  BY <1>1, <1>2, <1>3, <1>4, Replacing

(* ... and its beginning.                                                   *)
LEMMA ThreadsBegin ==
  ASSUME Threaded, NEW t \in Workers, NEW action \in asked, NEW gs \in Scopes(action), Begin(t,
         action, gs)
  PROVE  Threaded' /\ gs \in SUBSET Groups /\ action \in Actions
<1>0. Threading /\ errors \in [Threads -> BOOLEAN]
  BY Typed
<1>1. action \in Actions
  BY <1>0, CoordinatorAssumption DEF Threading, CoordinatorAssumption
<1> DEFINE s == Program(action, gs)
<1>2. gs \in SUBSET Groups /\ Script(s, action, gs) /\ Fresh(s)
  BY <1>1, ProgramSound
<1> HIDE DEF s
<1>3. action \in Ops /\ action # "" /\ action # "monitor" /\ t \in Threads
  BY <1>1 DEF Ops, Actions, Threads
<1>4. Fits(t, action, gs, s)
  BY <1>1, <1>2, <1>3, Apiece DEF Fits, Role, Suits
<1>5. op' = [op EXCEPT ![t] = action] /\ held' = [held EXCEPT ![t] = gs]
      /\ todo' = [todo EXCEPT ![t] = s]
  BY DEF Begin, s
<1>6. errors' \in [Threads -> BOOLEAN] /\ UNCHANGED <<asked, journal, dirty>>
  BY <1>0 DEF Begin, rest, journalVars
<1>7. \A u \in Threads \ {t} : gs \cap held[u] = {}
  BY DEF Begin, Unlocked
<1>8. s # << >> => s[1].do \notin Unrecoverable
  <2>1. s # << >> => Len(s) > 0
    BY <1>2, Rest DEF Script
  <2> QED
    BY <1>2, <2>1 DEF Fresh, Followers, Unrecoverable
<1> QED
  BY <1>1, <1>2, <1>3, <1>4, <1>5, <1>6, <1>7, <1>8, Replacing

(* A list of three.                                                         *)
LEMMA ThreeSteps ==
  ASSUME NEW a, NEW b, NEW c
  PROVE  <<a, b>> \o <<c>> = <<a, b, c>>
<1> DEFINE X == {a, b, c}
           p == <<a, b>> \o <<c>>
           q == <<a, b, c>>
<1>1. <<a, b>> \in Seq(X) /\ <<c>> \in Seq(X) /\ q \in Seq(X)
  OBVIOUS
<1>2. Len(<<a, b>>) = 2 /\ Len(<<c>>) = 1 /\ Len(q) = 3 /\ q[1] = a /\ q[2] = b /\ q[3] = c
  OBVIOUS
<1>3. Len(p) = 3 /\ p \in Seq(X)
  BY <1>1, <1>2
<1>4. p[1] = a /\ p[2] = b /\ p[3] = c
  BY <1>1, <1>2
<1> HIDE DEF p, q
<1>5. \A i \in 1..3 : i = 1 \/ i = 2 \/ i = 3
  OBVIOUS
<1>6. p \in [1..3 -> X] /\ q \in [1..3 -> X]
  <2>1. \A s \in Seq(X) : s \in [1..Len(s) -> X]
    OBVIOUS
  <2> QED
    BY <1>1, <1>2, <1>3, <2>1
<1>7. \A i \in 1..3 : p[i] = q[i]
  BY <1>2, <1>4, <1>5
<1>8. p = q
  BY <1>6, <1>7
<1> QED
  BY <1>8 DEF p, q

(* A list in which nothing belongs together is chained.                     *)
LEMMA LooseChain ==
  ASSUME NEW s \in Seq(Plans), Lacks(s, Followers \cup Starters)
  PROVE  Chained(s) /\ Fresh(s)
<1>1. Len(s) > 0 => Len(s) \in 1..Len(s) /\ 1 \in 1..Len(s)
  OBVIOUS
<1> QED
  BY <1>1 DEF Lacks, Chained, Fresh, Leads, Followers, Starters

(* A list of the takeover suits it.                                         *)
LEMMA OwnerSuits ==
  ASSUME NEW s \in Seq(Plans), NEW o, NEW gs, Uses(s, OwnerNames), On(s, {"all"})
  PROVE  Suits("owner", o, gs, s) /\ Lacks(s, Recording) /\ Lacks(s, Stopping)
<1>1. OwnerNames \cap (Followers \cup Starters) = {} /\ OwnerNames \cap Recording = {}
      /\ OwnerNames \cap Stopping = {}
  BY DEF OwnerNames, Followers, Starters, Recording, Stopping, StopNames
<1>2. Lacks(s, Followers \cup Starters) /\ Lacks(s, Recording) /\ Lacks(s, Stopping)
  BY <1>1, UsesLacks
<1>3. Chained(s)
  BY <1>2, LooseChain
<1> QED
  BY <1>2, <1>3, Apiece DEF Suits, Takes

(* The lists of the takeover.                                               *)
LEMMA OwnerLists ==
  ASSUME NEW gs \in SUBSET Groups, NEW s,
         LET on(do, hs) == [do |-> do, on |-> "all", with |-> hs]
         IN  \/ s = << >> \/ s = <<on("release_owned", gs)>> \/ s = <<on("taken_over", gs)>>
             \/ s = <<on("owner_lost", {}), on("owner_list", {}), on("taken_over", gs)>>
             \/ s = <<on("owner_status", {})>>
  PROVE  s \in Seq(Plans) /\ Uses(s, OwnerNames) /\ On(s, {"all"})
<1> DEFINE on(do, hs) == [do |-> do, on |-> "all", with |-> hs]
<1>1. \A do \in OwnerNames, hs \in SUBSET Groups : on(do, hs) \in Plans
  BY DEF OwnerNames, Plans, Names, Mutations, Reads, Others
<1>2. {"owner_status", "owner_lost", "owner_list", "taken_over", "release_owned"} = OwnerNames
  BY DEF OwnerNames
<1>3. CASE s = << >>
  BY <1>3 DEF Uses, On
<1>4. ASSUME NEW do \in OwnerNames, NEW hs \in SUBSET Groups, s = <<on(do, hs)>>
      PROVE  s \in Seq(Plans) /\ Uses(s, OwnerNames) /\ On(s, {"all"})
  <2>1. s \in Seq(Plans) /\ Len(s) = 1 /\ s[1] = on(do, hs)
    BY <1>1, <1>4
  <2> QED
    BY <2>1 DEF Uses, On
<1>5. ASSUME s = <<on("owner_lost", {}), on("owner_list", {}), on("taken_over", gs)>>
      PROVE  s \in Seq(Plans) /\ Uses(s, OwnerNames) /\ On(s, {"all"})
  <2>1. on("owner_lost", {}) \in Plans /\ on("owner_list", {}) \in Plans /\ on("taken_over",
        gs) \in Plans
    BY <1>1, <1>2
  <2>2. s \in Seq(Plans) /\ Len(s) = 3
    BY <1>5, <2>1
  <2>3. \A i \in 1..3 : s[i].do \in OwnerNames /\ s[i].on = "all"
    <3>1. \A i \in 1..3 : i = 1 \/ i = 2 \/ i = 3
      OBVIOUS
    <3> QED
      BY <1>2, <1>5, <3>1
  <2> QED
    BY <2>2, <2>3 DEF Uses, On
<1> QED
  BY <1>2, <1>3, <1>4, <1>5

(* It fits the takeover.                                                    *)
LEMMA OwnerFits ==
  ASSUME Threading, NEW s, Suits("owner", "owner", held["owner"], s)
  PROVE  Fits("owner", "owner", held["owner"], s)
<1>1. "owner" \in Threads /\ held["owner"] \subseteq Groups
  BY DEF Threads, Threading
<1> QED
  BY <1>1, Apiece DEF Fits, Role

(* The takeover keeps the threads in order: its beginning, ...              *)
LEMMA ThreadsOwnerBegins ==
  ASSUME Threaded, OwnerBegins
  PROVE  Threaded'
<1>0. Threading /\ errors \in [Threads -> BOOLEAN] /\ "owner" \in Threads
  BY Typed DEF Threads
<1> DEFINE s == Steps(<<"owner_status">>, "all")
<1>1. s = <<[do |-> "owner_status", on |-> "all", with |-> {}]>>
  BY DEF Steps, Step
<1>2. s \in Seq(Plans) /\ Uses(s, OwnerNames) /\ On(s, {"all"})
  BY <1>1, OwnerLists
<1>3. todo' = [todo EXCEPT !["owner"] = s] /\ op' = [op EXCEPT !["owner"] = "owner"]
  BY DEF OwnerBegins
<1> HIDE DEF s
<1>4. Fits("owner", "owner", held["owner"], s)
  BY <1>0, <1>2, OwnerSuits, OwnerFits
<1>5. held' = [held EXCEPT !["owner"] = held["owner"]] /\ held["owner"] \in SUBSET Groups
      /\ "owner" \in Ops
  BY <1>0 DEF OwnerBegins, Threading, Ops
<1>6. errors' \in [Threads -> BOOLEAN] /\ UNCHANGED <<asked, journal, dirty>>
  BY <1>0 DEF OwnerBegins, rest, journalVars
<1>7. \A u \in Threads \ {"owner"} : held["owner"] \cap held[u] = {}
  BY <1>0, Apart
<1> QED
  BY <1>0, <1>3, <1>4, <1>5, <1>6, <1>7, Replacing, Apiece

(* ... its reads, ...                                                       *)
LEMMA ThreadsOwnerReads ==
  ASSUME Threaded, active \subseteq Groups, OwnerReads
  PROVE  Threaded'
<1>0. Threading /\ errors \in [Threads -> BOOLEAN] /\ "owner" \in Threads
  BY Typed DEF Threads
<1>1. todo["owner"] # << >> /\ todo["owner"][1].do \in {"owner_status", "owner_list"}
  <2>1. At("owner", {"owner_status", "owner_list"})
    BY DEF OwnerReads
  <2> QED
    BY <1>0, <2>1, AtHead
<1>2. UNCHANGED <<errors, asked, journal, dirty>>
  BY DEF OwnerReads, rest, journalVars
<1> DEFINE on(do, gs) == [do |-> do, on |-> "all", with |-> gs]
<1>3. PICK s : Continue("owner", s) /\ \E gs \in SUBSET Groups :
             \/ s = << >> \/ s = <<on("release_owned", gs)>> \/ s = <<on("taken_over", gs)>>
             \/ s = <<on("owner_lost", {}), on("owner_list", {}), on("taken_over", gs)>>
  <2>1. active \in SUBSET Groups /\ Previous \in SUBSET Groups
    BY DEF Previous
  <2>2. \/ Continue("owner", << >>) \/ Continue("owner", <<on("release_owned", active)>>)
        \/ Continue("owner", <<>> \o <<on("taken_over", Previous)>>)
        \/ Continue("owner", <<on("owner_lost", {}), on("owner_list",
              {})>> \o <<on("taken_over", Previous)>>)
    BY DEF OwnerReads
  <2>3. <<>> \o <<on("taken_over", Previous)>> = <<on("taken_over", Previous)>>
    OBVIOUS
  <2>4. <<on("owner_lost", {}), on("owner_list", {})>> \o <<on("taken_over", Previous)>>
          = <<on("owner_lost", {}), on("owner_list", {}), on("taken_over", Previous)>>
    BY ThreeSteps
  <2>5. CASE Continue("owner", << >>)
    BY <2>1, <2>5
  <2>6. CASE Continue("owner", <<on("release_owned", active)>>)
    BY <2>1, <2>6
  <2>7. CASE Continue("owner", <<>> \o <<on("taken_over", Previous)>>)
    BY <2>1, <2>3, <2>7
  <2>8. CASE Continue("owner", <<on("owner_lost", {}), on("owner_list",
             {})>> \o <<on("taken_over", Previous)>>)
    BY <2>1, <2>4, <2>8
  <2> QED
    BY <2>2, <2>5, <2>6, <2>7, <2>8
<1>4. s \in Seq(Plans) /\ Uses(s, OwnerNames) /\ On(s, {"all"})
  BY <1>3, OwnerLists
<1>5. Suits("owner", op["owner"], held["owner"], s) /\ Lacks(s, Recording) /\ Lacks(s, Stopping)
  BY <1>4, OwnerSuits
<1>6. todo["owner"][1].do \notin Leaders \cup StopNames
  BY <1>1 DEF Leaders, StopNames
<1> QED
  BY <1>0, <1>1, <1>2, <1>3, <1>5, <1>6, Inserting

(* ... and its end.                                                         *)
LEMMA ThreadsTakesOver ==
  ASSUME Threaded, TakesOver
  PROVE  Threaded'
<1>0. Threading /\ errors \in [Threads -> BOOLEAN] /\ "owner" \in Threads
  BY Typed DEF Threads
<1>1. todo["owner"] # << >> /\ todo["owner"][1].do = "taken_over"
  <2>1. At("owner", {"taken_over"})
    BY DEF TakesOver
  <2> QED
    BY <1>0, <2>1, AtHead
<1>2. Continue("owner", << >>) /\ UNCHANGED <<errors, asked, journal, dirty>>
  BY DEF TakesOver, rest, journalVars
<1> QED
  BY <1>0, <1>1, <1>2, GoingOn

(* A crash does, ...                                                        *)
LEMMA ThreadsCrash ==
  ASSUME Threaded, Crash
  PROVE  Threaded'
<1>1. /\ op' = [t \in Threads |-> ""] /\ todo' = [t \in Threads |-> << >>]
            /\ held' = [t \in Threads |-> {}]
      /\ errors' = [t \in Threads |-> FALSE] /\ UNCHANGED asked
  BY DEF Crash
<1>2. << >> \in Seq(Plans)
  OBVIOUS
<1>3. /\ op' \in [Threads -> Ops'] /\ held' \in [Threads -> SUBSET Groups]
            /\ errors' \in [Threads -> BOOLEAN]
      /\ todo' \in [Threads -> Seq(Plans)] /\ asked' \in Workloads /\ Disjoint'
  BY <1>1, <1>2 DEF Ops, Disjoint, Threaded, Threading
<1>4. \A t \in Threads : Fits(t, "", {}, << >>)
  BY SuitsEmpty DEF Fits, Role
<1>5. \A t \in Threads : Fits(t, op'[t], held'[t], todo'[t])
  BY <1>1, <1>4
<1>6. \A u \in Threads : Fits(u, op[u], held[u], todo[u])'
  BY <1>5 DEF Fits, Role, Suits, Guarded, Script, Watch, Takes
<1>7. Threading'
  BY <1>3, <1>6 DEF Threading
<1>8. Recorded'
  BY <1>1 DEF Recorded, At, Threads
<1> QED
  BY <1>7, <1>8 DEF Threaded

(* ... and what no thread does.                                             *)
LEMMA ThreadsRest ==
  ASSUME Threaded, UNCHANGED <<threadVars, asked, journal, dirty>>
  PROVE  Threaded'
<1>0. Threading /\ Recorded
  BY DEF Threaded
<1>1. UNCHANGED <<op, todo, held, errors, asked, journal, dirty>>
  BY DEF threadVars
<1>2. Threading'
  BY <1>0, <1>1, ZenonT(30)
  DEF Threading, Ops, Disjoint, Fits, Role, Suits, Guarded, Script, Watch, Takes
<1>3. Recorded'
  BY <1>0, <1>1 DEF Recorded, At, GroupOf, Resolved
<1> QED
  BY <1>2, <1>3 DEF Threaded

(* What is known of the monitor's first step.                               *)
LEMMA MonitorHead ==
  ASSUME Threading, todo["monitor"] # << >>, todo["monitor"][1].do \notin FaultNames
  PROVE  /\ op["monitor"] = "monitor" /\ "monitor" \in Threads /\ Guarded(todo["monitor"],
               held["monitor"])
         /\ todo["monitor"] \in Seq(Plans) /\ Suits("monitor", "monitor", held["monitor"],
               todo["monitor"])
         /\ Tail(todo["monitor"]) \in Seq(Plans)
<1>1. "monitor" \in Threads
  BY DEF Threads
<1>2. /\ Suits("monitor", op["monitor"], held["monitor"], todo["monitor"]) /\ Role("monitor",
            op["monitor"])
      /\ op["monitor"] # "" /\ 1 \in 1..Len(todo["monitor"]) /\ todo["monitor"] \in Seq(Plans)
      /\ Tail(todo["monitor"]) \in Seq(Plans)
  BY <1>1, HeadFacts
<1>3. op["monitor"] # "converge"
  BY <1>2 DEF Suits, Watch, Uses, FaultNames
<1>4. op["monitor"] = "monitor"
  BY <1>2, <1>3 DEF Role
<1>5. Guarded(todo["monitor"], held["monitor"])
  BY <1>1, <1>4 DEF Threading, Fits
<1> QED
  BY <1>1, <1>2, <1>4, <1>5

(* Where the monitor is not in a stop none is left, ...                     *)
LEMMA GuardedLacks ==
  ASSUME NEW s \in Seq(Plans), s # << >>, NEW gs, Guarded(s, gs), s[1].do \notin StopNames
  PROVE  Lacks(Tail(s), Stopping)
<1>1. 1 \in 1..Len(s) /\ \A i \in 1..Len(Tail(s)) : i + 1 \in 1..Len(s) /\ Tail(s)[i] = s[i + 1]
  BY Rest
<1>2. SUFFICES ASSUME NEW i \in 1..Len(Tail(s)), Tail(s)[i].do \in Stopping PROVE FALSE
  BY DEF Lacks
<1>3. i + 1 \in 1..Len(s) /\ s[i + 1].do \in Stopping /\ 1 < i + 1
  BY <1>1, <1>2
<1> QED
  BY <1>1, <1>3 DEF Guarded

(* ... and without one it holds nothing.                                    *)
LEMMA LacksGuarded ==
  ASSUME NEW s, Lacks(s, Stopping)
  PROVE  \A gs : Guarded(s, gs)
  BY DEF Lacks, Guarded

(* A stop of the one group it holds.                                        *)
LEMMA GuardedStop ==
  ASSUME NEW g \in Groups, NEW r \in Seq(Plans), Lacks(r, Stopping)
  PROVE  Guarded((Stop(g) \o Steps(<<"condemned">>, g)) \o r, {g})
<1> DEFINE a == Stop(g)
           b == Steps(<<"condemned">>, g)
           c == a \o b
           d == c \o r
<1>1. a \in Seq(Plans) /\ Len(a) = 4 /\ \A i \in 1..4 : a[i].do \in StopNames /\ a[i].on = g
  <2>1. Uses(a, StopNames) /\ On(a, {g}) /\ a \in Seq(Plans)
    BY StopSound DEF Sound
  <2>2. Len(a) = 4
    BY StopBlock
  <2> QED
    BY <2>1, <2>2 DEF Uses, On
<1>2. b \in Seq(Plans) /\ Len(b) = 1 /\ b[1].do = "condemned" /\ b[1].on = g
  <2>1. "condemned" \in Names /\ "condemned" \notin Starters /\ g \in Groups \cup {"all"}
    BY DEF Names, Others, Starters
  <2> QED
    BY <2>1, OneStep
<1> HIDE DEF a, b
<1>3. c \in Seq(Plans) /\ Len(c) = 5 /\ (\A i \in 1..4 : c[i].do \in StopNames /\ c[i].on = g)
      /\ c[5].do = "condemned" /\ c[5].on = g
  <2>1. c \in Seq(Plans) /\ Len(c) = 5 /\ (\A i \in 1..4 : c[i] = a[i]) /\ c[5] = b[1]
    <3>1. /\ c \in Seq(Plans) /\ Len(c) = Len(a) + Len(b)
          /\ \A i \in 1..Len(a) : c[i] = a[i]
          /\ \A i \in 1..Len(b) : c[Len(a) + i] = b[i]
      BY <1>1, <1>2, JoinedPlans, ZenonT(30)
    <3> HIDE DEF c
    <3>2. 1 \in 1..Len(b)
      BY <1>2
    <3> QED
      BY <1>1, <1>2, <3>1, <3>2
  <2> QED
    BY <1>1, <1>2, <2>1
<1> HIDE DEF c
<1>4. /\ Len(r) \in Nat /\ Len(d) = 5 + Len(r) /\ (\A i \in 1..5 : d[i] = c[i])
      /\ \A k \in 1..Len(d) : k \in 1..5 \/ \E i \in 1..Len(r) : k = 5 + i /\ d[k] = r[i]
  <2>1. /\ Len(r) \in Nat /\ Len(d) = Len(c) + Len(r) /\ (\A i \in 1..Len(c) : d[i] = c[i])
        /\ \A i \in 1..Len(r) : d[Len(c) + i] = r[i]
        /\ \A k \in 1..Len(d) : k \in 1..Len(c) \/ \E i \in 1..Len(r) : k = Len(c) + i
    BY <1>3, JoinedPlans
  <2> HIDE DEF d
  <2> QED
    BY <1>3, <2>1
<1> HIDE DEF d
<1>5. SUFFICES ASSUME NEW k \in 1..Len(d), d[k].do \in Stopping
               PROVE  {g} = {d[k].on} /\ \A j \in 1..Len(d) : j < k => d[j].do \in StopNames
  BY DEF Guarded, d, c, a, b
<1>6. k \in 1..5
  BY <1>4, <1>5 DEF Lacks
<1>7. d[k].on = g
  <2>1. k \in 1..4 \/ k = 5
    BY <1>6
  <2> QED
    BY <1>3, <1>4, <1>6, <2>1
<1>8. ASSUME NEW j \in 1..Len(d), j < k PROVE d[j].do \in StopNames
  <2>1. j \in 1..4 /\ j \in 1..5
    BY <1>6, <1>8
  <2> QED
    BY <1>3, <1>4, <2>1
<1> QED
  BY <1>7, <1>8

(* What the monitor's round is made of besides stops *)
Looks == MonitorNames \ (Stopping \cup {"fault"})

(* A list of looks suits the monitor.                                       *)
LEMMA LooksSuit ==
  ASSUME NEW s, NEW places, Sound(s, places), Uses(s, Looks), "all" \notin places \/ Uses(s,
         RoundNames), NEW gs
  PROVE  Suits("monitor", "monitor", gs, s) /\ Lacks(s, Recording) /\ Lacks(s, Stopping) /\ Lacks(s, {"fault"})
<1>1. Looks \cap Recording = {} /\ Looks \cap Stopping = {} /\ Looks \cap {"fault"} = {}
      /\ Looks \subseteq MonitorNames
  BY DEF Looks, MonitorNames, Recording, Stopping, StopNames
<1>2. Lacks(s, Recording) /\ Lacks(s, Stopping) /\ Lacks(s, {"fault"})
  BY <1>1, UsesLacks
<1>3. Uses(s, MonitorNames)
  BY <1>1 DEF Uses
<1>4. Only(s, "all", RoundNames)
  BY DEF Sound, On, Only, Uses
<1> QED
  BY <1>2, <1>3, <1>4, Apiece DEF Suits, Watch, Sound

(* So does a single one.                                                    *)
LEMMA LookSuits ==
  ASSUME NEW g \in Groups, NEW name \in {"maintenance_lock", "suspect", "confirm"}, NEW gs
  PROVE  LET s == Steps(<<name>>, g)
         IN  Suits("monitor", "monitor", gs, s) /\ Lacks(s, Recording) /\ Lacks(s, Stopping) /\ Lacks(s, {"fault"})
<1> DEFINE s == Steps(<<name>>, g)
<1>1. name \in Names /\ name \notin Starters /\ name \notin Followers /\ name \in Looks
      /\ g \in Groups \cup {"all"}
  BY DEF Names, Mutations, Others, Starters, Followers, Looks, MonitorNames, Stopping, StopNames
<1>2. Sound(s, {g}) /\ Uses(s, {name})
  BY <1>1, OneStep DEF Sound
<1> HIDE DEF s
<1>3. Uses(s, Looks) /\ "all" \notin {g}
  BY <1>1, <1>2, Apiece DEF Uses
<1>4. Suits("monitor", "monitor", gs, s) /\ Lacks(s, Recording) /\ Lacks(s, Stopping) /\ Lacks(s, {"fault"})
  BY <1>2, <1>3, LooksSuit
<1> QED
  BY <1>4 DEF s

(* The monitor keeps the threads in order: its beginning, ...               *)
LEMMA ThreadsMonitorBegins ==
  ASSUME Threaded, MonitorBegins
  PROVE  Threaded'
<1>0. Threading /\ errors \in [Threads -> BOOLEAN] /\ "monitor" \in Threads
  BY Typed DEF Threads
<1> DEFINE s == Steps(Rounds, "all")
<1>1. Rounds \in Seq(Names) /\ Len(Rounds) = 3 /\ Rounds[1] = "lock_dirty" /\ Rounds[2] = "status"
      /\ Rounds[3] = "resources"
  BY DEF Rounds, Names, Reads, Others
<1>2. \A i \in 1..Len(Rounds) : Rounds[i] \in RoundNames
  <2>1. \A i \in 1..3 : i = 1 \/ i = 2 \/ i = 3
    OBVIOUS
  <2> QED
    BY <1>1, <2>1 DEF RoundNames
<1>3. RoundNames \subseteq Looks /\ RoundNames \cap (Followers \cup Starters) = {}
  BY DEF RoundNames, Looks, MonitorNames, Stopping, StopNames, Followers, Starters
<1>4. s \in Seq(Plans) /\ Uses(s, RoundNames) /\ On(s, {"all"})
  <2>1. "all" \in Groups \cup {"all"}
    OBVIOUS
  <2> QED
    BY <1>1, <1>2, <2>1, StepsFacts, StepsSet
<1> HIDE DEF s
<1>5. Lacks(s, Followers \cup Starters)
  BY <1>3, <1>4, UsesLacks
<1>6. Sound(s, {"all"}) /\ Uses(s, Looks)
  BY <1>3, <1>4, <1>5, LooseChain DEF Sound, Uses
<1>7. held["monitor"] = {}
  BY <1>0 DEF MonitorBegins, Threading, Fits
<1>8. Suits("monitor", "monitor", {}, s) /\ Lacks(s, Stopping) /\ Lacks(s, {"fault"})
  BY <1>4, <1>6, LooksSuit
<1>9. Fits("monitor", "monitor", {}, s)
  BY <1>8, LacksGuarded, Apiece DEF Fits, Role
<1>10. /\ todo' = [todo EXCEPT !["monitor"] = s] /\ op' = [op EXCEPT !["monitor"] = "monitor"]
       /\ held' = [held EXCEPT !["monitor"] = {}] /\ {} \in SUBSET Groups /\ "monitor" \in Ops
  BY <1>0, <1>7 DEF MonitorBegins, Threading, Ops, s
<1>11. errors' \in [Threads -> BOOLEAN] /\ UNCHANGED <<asked, journal, dirty>>
  BY <1>0 DEF MonitorBegins, rest, journalVars
<1> QED
  BY <1>0, <1>9, <1>10, <1>11, Replacing, Apiece

(* Where the monitor is *)
LEMMA AtLook ==
  ASSUME Threaded, NEW names, At("monitor", names), names \cap FaultNames = {}
  PROVE  /\ todo["monitor"] # << >> /\ todo["monitor"][1].do \in names
               /\ GroupOf("monitor") = todo["monitor"][1].on
         /\ op["monitor"] = "monitor" /\ "monitor" \in Threads /\ Guarded(todo["monitor"],
               held["monitor"])
         /\ todo["monitor"] \in Seq(Plans) /\ Suits("monitor", "monitor", held["monitor"],
               todo["monitor"])
         /\ Tail(todo["monitor"]) \in Seq(Plans) /\ Threading
         /\ todo["monitor"][1].do \notin StopNames
<1>1. Threading /\ "monitor" \in Threads
  BY DEF Threaded, Threads
<1>2. todo["monitor"] # << >> /\ todo["monitor"][1].do \in names
      /\ GroupOf("monitor") = todo["monitor"][1].on
  BY <1>1, AtHead
<1>3. todo["monitor"][1].do \notin FaultNames /\ todo["monitor"][1].do \notin StopNames
  BY <1>2 DEF FaultNames
<1> QED
  BY <1>1, <1>2, <1>3, MonitorHead

(* ... inserted looks, ...                                                  *)
LEMMA LookInserts ==
  ASSUME Threaded, NEW names, At("monitor", names), names \cap (FaultNames \cup Leaders) = {},
         NEW s, Suits("monitor", "monitor", held["monitor"], s), Lacks(s, Recording), Lacks(s,
           Stopping),
         Continue("monitor", s), UNCHANGED <<errors, asked, journal, dirty>>
  PROVE  Threaded'
<1>1. names \cap FaultNames = {}
  OBVIOUS
<1>2. /\ todo["monitor"] # << >> /\ todo["monitor"][1].do \in names
      /\ op["monitor"] = "monitor" /\ "monitor" \in Threads /\ todo["monitor"][1].do \notin StopNames
  BY <1>1, AtLook
<1>3. errors' \in [Threads -> BOOLEAN]
  BY Typed
<1>4. todo["monitor"][1].do \notin Leaders \cup StopNames
  BY <1>2
<1> QED
  BY <1>2, <1>3, <1>4, Inserting

(* ... its looks, ...                                                       *)
LEMMA LookingOn ==
  ASSUME Threaded, dirty => journal \in Groups, requested \in SUBSET Groups,
         LocksDirty \/ ReadsStatus \/ ReadsResources \/ Suspects
  PROVE  \E s : Continue("monitor", s) /\ Suits("monitor", "monitor", held["monitor"], s)
               /\ Lacks(s, Recording) /\ Lacks(s, Stopping) /\ Lacks(s, {"fault"})
<1> DEFINE Here == {"lock_dirty", "status", "resources", "suspect"}
<1>1. Here \cap (FaultNames \cup Leaders) = {} /\ Here \cap FaultNames = {}
  BY DEF FaultNames, StopNames, Leaders
<1>2. At("monitor", Here) /\ UNCHANGED <<errors, asked, journal, dirty>>
  <2>1. UNCHANGED <<errors, asked, journal, dirty>>
    BY DEF LocksDirty, ReadsStatus, ReadsResources, Suspects, rest, journalVars
  <2> QED
    BY <2>1 DEF LocksDirty, ReadsStatus, ReadsResources, Suspects, At
<1>3. todo["monitor"] # << >> /\ GroupOf("monitor") = todo["monitor"][1].on
      /\ "monitor" \in Threads /\ Threading
  BY <1>1, <1>2, AtLook
<1>4. ASSUME NEW s, Continue("monitor", s), Suits("monitor", "monitor", held["monitor"], s),
             Lacks(s, Recording), Lacks(s, Stopping) /\ Lacks(s, {"fault"})
      PROVE  \E z : Continue("monitor", z) /\ Suits("monitor", "monitor", held["monitor"], z)
                   /\ Lacks(z, Recording) /\ Lacks(z, Stopping) /\ Lacks(z, {"fault"})
  BY <1>4
<1>5. Suits("monitor", "monitor", held["monitor"], << >>) /\ Lacks(<< >>, Recording)
      /\ Lacks(<< >>, Stopping) /\ Lacks(<< >>, {"fault"})
  BY SuitsEmpty DEF Lacks
<1>6. CASE LocksDirty
  <2>1. CASE dirty
    <3>1. Continue("monitor", Steps(<<"maintenance_lock">>, journal)) /\ journal \in Groups
      BY <1>6, <2>1 DEF LocksDirty
    <3> QED
      BY <1>4, <3>1, LookSuits
  <2>2. CASE ~dirty
    BY <1>4, <1>5, <1>6, <2>2 DEF LocksDirty
  <2> QED
    BY <2>1, <2>2
<1>7. CASE ReadsStatus
  BY <1>4, <1>5, <1>7 DEF ReadsStatus
<1>8. CASE ReadsResources
  <2> DEFINE s == Ones("suspect", requested)
  <2>1. "suspect" \in Names /\ "suspect" \notin Followers /\ "suspect" \notin Starters
        /\ "suspect" \in Looks
    BY DEF Names, Others, Followers, Starters, Looks, MonitorNames, Stopping, StopNames
  <2>2. Sound(s, requested) /\ Uses(s, {"suspect"})
    BY <2>1, OnePhase
  <2>3. Continue("monitor", s)
    BY <1>8 DEF ReadsResources
  <2> HIDE DEF s
  <2>4. Uses(s, Looks) /\ "all" \notin requested
    BY <2>1, <2>2, Apiece DEF Uses
  <2>5. Suits("monitor", "monitor", held["monitor"], s) /\ Lacks(s, Recording) /\ Lacks(s, Stopping) /\ Lacks(s, {"fault"})
    BY <2>2, <2>4, LooksSuit
  <2> QED
    BY <1>4, <2>3, <2>5
<1>9. CASE Suspects
  <2>1. At("monitor", {"suspect"})
    BY <1>9 DEF Suspects
  <2>2. GroupOf("monitor") \in Groups
    <3>1. todo["monitor"][1].do = "suspect"
      BY <1>3, <2>1, AtHead
    <3> QED
      BY <1>3, <3>1, HeadFacts DEF RoundNames
  <2>3. \/ Continue("monitor", << >>)
        \/ Continue("monitor", Steps(<<"confirm">>, GroupOf("monitor")))
    BY <1>9 DEF Suspects
  <2> QED
    BY <1>4, <1>5, <2>2, <2>3, LookSuits
<1> QED
  BY <1>6, <1>7, <1>8, <1>9

(* ... all of them, ...                                                     *)
LEMMA ThreadsLooks ==
  ASSUME Threaded, dirty => journal \in Groups, requested \in SUBSET Groups,
         LocksDirty \/ ReadsStatus \/ ReadsResources \/ Suspects
  PROVE  Threaded'
<1> DEFINE Here == {"lock_dirty", "status", "resources", "suspect"}
<1>1. Here \cap (FaultNames \cup Leaders) = {}
  BY DEF FaultNames, StopNames, Leaders
<1>2. At("monitor", Here) /\ UNCHANGED <<errors, asked, journal, dirty>>
  <2>1. UNCHANGED <<errors, asked, journal, dirty>>
    BY DEF LocksDirty, ReadsStatus, ReadsResources, Suspects, rest, journalVars
  <2> QED
    BY <2>1 DEF LocksDirty, ReadsStatus, ReadsResources, Suspects, At
<1>3. PICK s : Continue("monitor", s) /\ Suits("monitor", "monitor", held["monitor"], s)
               /\ Lacks(s, Recording) /\ Lacks(s, Stopping)
  BY LookingOn
<1> HIDE DEF Here
<1> QED
  BY <1>1, <1>2, <1>3, LookInserts

(* ... its decision ...                                                     *)
LEMMA ThreadsConfirms ==
  ASSUME Threaded, Confirms
  PROVE  Threaded'
<1> DEFINE g == GroupOf("monitor")
           stop == Stop(g) \o Steps(<<"condemned">>, g)
           r == Tail(todo["monitor"])
<1>0. At("monitor", {"confirm"}) /\ {"confirm"} \cap FaultNames = {}
  BY DEF Confirms, FaultNames, StopNames
<1>1. /\ todo["monitor"] # << >> /\ todo["monitor"][1].do = "confirm" /\ g = todo["monitor"][1].on
      /\ op["monitor"] = "monitor" /\ "monitor" \in Threads /\ Guarded(todo["monitor"], held["monitor"])
      /\ todo["monitor"] \in Seq(Plans) /\ Suits("monitor", "monitor", held["monitor"], todo["monitor"])
      /\ r \in Seq(Plans) /\ Threading /\ todo["monitor"][1].do \notin StopNames
  BY <1>0, AtLook
<1>2. g \in Groups
  BY <1>1, HeadFacts DEF RoundNames
<1>3. Lacks(r, Stopping)
  BY <1>1, GuardedLacks
<1>4. \A hs : Suits("monitor", "monitor", hs, r)
  BY <1>1, SuitsTail, Apiece DEF Suits
<1>5. op' = [op EXCEPT !["monitor"] = "monitor"] /\ "monitor" \in Ops
      /\ errors' \in [Threads -> BOOLEAN]
      /\ UNCHANGED <<asked, journal, dirty>>
  BY <1>1, Typed DEF Confirms, Threading, Ops, rest, journalVars
<1>6. CASE Unlocked({g}) /\ SameSession(g)
  <2>1. held' = [held EXCEPT !["monitor"] = {g}] /\ todo' = [todo EXCEPT !["monitor"] = stop \o r]
    BY <1>1, <1>6 DEF Confirms, Threading
  <2>2. Guarded(stop \o r, {g})
    BY <1>1, <1>2, <1>3, GuardedStop
  <2>3. Suits("monitor", "monitor", {g}, stop)
    <3>1. Sound(Stop(g), {g}) /\ Uses(Stop(g), StopNames) /\ Stop(g) \in Seq(Plans)
      BY <1>2, StopSound
    <3>2. "condemned" \in Names /\ "condemned" \notin Starters /\ "condemned" \notin Followers
          /\ g \in Groups \cup {"all"}
      BY <1>2 DEF Names, Others, Starters, Followers
    <3>3. Sound(Steps(<<"condemned">>, g), {g}) /\ Uses(Steps(<<"condemned">>, g), {"condemned"})
      BY <3>2, OneStep DEF Sound
    <3>4. Sound(stop, {g})
      BY <3>1, <3>3, SoundJoin
    <3>5. Uses(stop, MonitorNames)
      <4>1. Steps(<<"condemned">>, g) \in Seq(Plans)
        BY <3>3 DEF Sound
      <4>2. StopNames \subseteq MonitorNames /\ {"condemned"} \subseteq MonitorNames
        BY DEF MonitorNames
      <4> QED
        BY <3>1, <3>3, <4>1, <4>2, UsesJoin
    <3>6. Only(stop, "all", RoundNames)
      BY <1>2, <3>4, Apiece DEF Sound, On, Only
    <3> HIDE DEF stop
    <3> QED
      BY <3>4, <3>5, <3>6, Apiece DEF Suits, Watch, Sound
  <2>4. Suits("monitor", "monitor", {g}, stop \o r)
    <3>1. Fresh(r)
      <4>1. todo["monitor"][1].do \notin Leaders
        BY <1>1 DEF Leaders
      <4>2. Chained(todo["monitor"])
        BY <1>1, SuitsBasic
      <4> QED
        BY <1>1, <4>1, <4>2, RestChain
    <3> HIDE DEF stop, r
    <3> QED
      BY <1>1, <1>4, <2>3, <3>1, SuitsJoin
  <2>5. Fits("monitor", "monitor", {g}, stop \o r)
    BY <1>2, <2>2, <2>4, Apiece DEF Fits, Role
  <2>6. \A u \in Threads \ {"monitor"} : {g} \cap held[u] = {}
    BY <1>6 DEF Unlocked
  <2> HIDE DEF stop, r, g
  <2>7. {g} \in SUBSET Groups
    BY <1>2
  <2> QED
    BY <1>1, <1>5, <2>1, <2>5, <2>6, <2>7, Replacing, Apiece
<1>7. CASE ~(Unlocked({g}) /\ SameSession(g))
  <2>1. held' = [held EXCEPT !["monitor"] = {}] /\ todo' = [todo EXCEPT !["monitor"] = r]
    <3>1. todo' = [todo EXCEPT !["monitor"] = << >> \o r]
      BY <1>1, <1>7 DEF Confirms, Threading
    <3>2. << >> \o r = r
      BY <1>1, JoinEmpty
    <3> QED
      BY <1>7, <3>1, <3>2 DEF Confirms
  <2>2. Fits("monitor", "monitor", {}, r)
    BY <1>3, <1>4, LacksGuarded, Apiece DEF Fits, Role
  <2> HIDE DEF r
  <2>3. {} \in SUBSET Groups
    OBVIOUS
  <2> QED
    BY <1>1, <1>5, <2>1, <2>2, <2>3, Replacing, Apiece
<1> QED
  BY <1>6, <1>7

(* ... and the end of a stop.                                               *)
LEMMA ThreadsCondemns ==
  ASSUME Threaded, Condemns
  PROVE  Threaded' /\ GroupOf("monitor") \in Groups
<1> DEFINE r == Tail(todo["monitor"])
<1>0. At("monitor", {"condemned"}) /\ {"condemned"} \cap FaultNames = {}
  BY DEF Condemns, FaultNames, StopNames
<1>1. /\ todo["monitor"] # << >> /\ todo["monitor"][1].do = "condemned"
      /\ GroupOf("monitor") = todo["monitor"][1].on
      /\ op["monitor"] = "monitor" /\ "monitor" \in Threads /\ Guarded(todo["monitor"], held["monitor"])
      /\ todo["monitor"] \in Seq(Plans) /\ Suits("monitor", "monitor", held["monitor"], todo["monitor"])
      /\ r \in Seq(Plans) /\ Threading /\ todo["monitor"][1].do \notin StopNames
  BY <1>0, AtLook
<1>2. GroupOf("monitor") \in Groups
  BY <1>1, HeadFacts DEF RoundNames
<1>3. Lacks(r, Stopping)
  BY <1>1, GuardedLacks
<1>4. Suits("monitor", "monitor", {}, r)
  BY <1>1, SuitsTail, Apiece DEF Suits
<1>5. op' = [op EXCEPT !["monitor"] = "monitor"] /\ "monitor" \in Ops
      /\ errors' \in [Threads -> BOOLEAN]
      /\ UNCHANGED <<asked, journal, dirty>>
  BY <1>1, Typed DEF Condemns, Threading, Ops, rest, journalVars
<1>6. held' = [held EXCEPT !["monitor"] = {}] /\ todo' = [todo EXCEPT !["monitor"] = r]
  BY DEF Condemns
<1>7. Fits("monitor", "monitor", {}, r)
  BY <1>3, <1>4, LacksGuarded, Apiece DEF Fits, Role
<1> HIDE DEF r
<1>8. {} \in SUBSET Groups
  OBVIOUS
<1> QED
  BY <1>1, <1>2, <1>5, <1>6, <1>7, <1>8, Replacing, Apiece

-----------------------------------------------------------------------------
(* The types.                                                               *)

(* The types of the coordinator's own state                                 *)
OwnerTypes == state \in [Groups -> States] /\ generation \in [Groups -> Nat]
  /\ requested \in SUBSET Groups
              /\ ownerChecked \in BOOLEAN

(* of the other process's,                                                  *)
RobotTypes == phase \in [Groups -> {"closed", "armed", "open"}] /\ active \in SUBSET Groups
              /\ component \in Lifecycle /\ locked \in SUBSET Groups

(* Calls that are made for no group in particular *)
Unplaced == {"unconfigured", "owner_lost", "release_owned"}

(* of a call,                                                               *)
Proper(c) == c.do \in Mutations /\ c.with \subseteq Groups /\ c.on \in Groups \cup {"all"}
             /\ (c.do \notin Unplaced => c.on \in Groups)

(* of the late calls,                                                       *)
PendingTypes == \A c \in pending : Proper(c)

(* and of the journal                                                       *)
JournalTypes == journal \in Groups \cup {"none"} /\ dirty \in BOOLEAN /\ (dirty => journal \in Groups)

(* The types and the threads' order                                         *)
Typing == /\ Threaded /\ OwnerTypes /\ RobotTypes /\ PendingTypes /\ JournalTypes
          /\ crashes \in 0..MaxCrashes

(* The call a thread is at.                                                 *)
LEMMA ProperHead ==
  ASSUME Threading, NEW t \in Threads, At(t, Mutations)
  PROVE  Proper(Head(todo[t])) /\ \A mine : Proper(Call(t, mine))
<1>1. todo[t] # << >> /\ Head(todo[t]) = todo[t][1] /\ todo[t][1].do \in Mutations
      /\ GroupOf(t) = todo[t][1].on
  BY AtHead
<1>2. /\ todo[t][1] \in Plans /\ held[t] \in SUBSET Groups
      /\ t \in Workers /\ todo[t][1].do \notin Teardown => todo[t][1].on \in held[t]
      /\ t = "monitor" => todo[t][1].do \in MonitorNames /\ (todo[t][1].do \notin RoundNames
            => todo[t][1].on \in Groups)
      /\ t = "owner" => todo[t][1].do \in OwnerNames /\ todo[t][1].on = "all"
  BY <1>1, HeadFacts
<1>3. todo[t][1].do \notin Unplaced => todo[t][1].on \in Groups
  <2>1. Mutations \cap RoundNames = {} /\ Mutations \cap Teardown \subseteq Unplaced
        /\ Mutations \cap OwnerNames \subseteq Unplaced
    BY DEF Mutations, Lifecycle, RoundNames, Teardown, OwnerNames, Unplaced
  <2> QED
    BY <1>1, <1>2, <2>1, Apiece
<1>4. Proper(todo[t][1])
  BY <1>1, <1>2, <1>3 DEF Proper, Plans
<1> QED
  BY <1>1, <1>4 DEF Proper, Call

(* A call keeps the types of the robot.                                     *)
LEMMA EffectTypes ==
  ASSUME RobotTypes, NEW c, Proper(c), Effect(c)
  PROVE  RobotTypes'
<1>1. phase' \in [Groups -> {"closed", "armed", "open"}]
  <2>1. phase \in [Groups -> {"closed", "armed", "open"}]
    BY DEF RobotTypes
  <2>2. \A g, v : v \in {"closed", "armed", "open"} =>
          [phase EXCEPT ![g] = v] \in [Groups -> {"closed", "armed", "open"}]
    BY <2>1
  <2>3. [g \in Groups |-> "closed"] \in [Groups -> {"closed", "armed", "open"}]
    OBVIOUS
  <2>4. \/ phase' = [g \in Groups |-> "closed"] \/ phase' = [phase EXCEPT ![c.on] = "closed"]
        \/ phase' = [phase EXCEPT ![c.on] = "armed"] \/ phase' = [phase EXCEPT ![c.on] = "open"]
        \/ phase' = phase
    BY DEF Effect
  <2> QED
    BY <2>1, <2>2, <2>3, <2>4
<1>2. active' \in SUBSET Groups
  <2>1. active \in SUBSET Groups /\ (c.do = "start" => c.on \in Groups)
    BY DEF RobotTypes, Proper, Unplaced
  <2>2. \/ (c.do = "start" /\ active' = active \cup {c.on}) \/ active' = active \ {c.on}
        \/ active' = active \ c.with \/ active' = active
    BY DEF Effect
  <2> QED
    BY <2>1, <2>2
<1>3. component' \in Lifecycle
  BY DEF RobotTypes, Effect
<1>4. locked' \in SUBSET Groups
  <2>1. locked \in SUBSET Groups /\ (c.do = "maintenance_lock" => c.on \in Groups)
    BY DEF RobotTypes, Proper, Unplaced
  <2>2. \/ (c.do = "maintenance_lock" /\ locked' = locked \cup {c.on}) \/ locked' = locked \ {c.on}
        \/ locked' = locked
    BY DEF Effect
  <2> QED
    BY <2>1, <2>2
<1> QED
  BY <1>1, <1>2, <1>3, <1>4 DEF RobotTypes

(* Types that do not change: the coordinator's, ...                         *)
LEMMA OwnerTypesKept ==
  ASSUME OwnerTypes, UNCHANGED ownerVars PROVE OwnerTypes'
  BY DEF OwnerTypes, ownerVars

(* (a function changed at one place)                                        *)
LEMMA Retyped ==
  ASSUME NEW f \in [Groups -> Nat], NEW g, NEW v, g \in Groups => v \in Nat
  PROVE  [f EXCEPT ![g] = v] \in [Groups -> Nat]
  OBVIOUS

(* ... the robot's ...                                                      *)
LEMMA RobotTypesKept ==
  ASSUME RobotTypes, UNCHANGED robotVars PROVE RobotTypes'
  BY DEF RobotTypes, robotVars

(* ... and the rest.                                                        *)
LEMMA RestKept ==
  ASSUME PendingTypes, JournalTypes, crashes \in 0..MaxCrashes, UNCHANGED rest
  PROVE  PendingTypes' /\ JournalTypes' /\ crashes' \in 0..MaxCrashes
<1>1. UNCHANGED <<pending, crashes, journal, dirty>>
  BY DEF rest, journalVars
<1> QED
  BY <1>1 DEF PendingTypes, JournalTypes, Proper

(* The steps of a thread, but for its threads' own part *)
LEMMA CallTypes ==
  ASSUME Typing, NEW t \in Threads, Answered(t) \/ Refused(t) \/ TimesOut(t) \/ ReadFails(t)
  PROVE  Typing'
<1>0. Threaded /\ OwnerTypes /\ RobotTypes /\ PendingTypes /\ JournalTypes
      /\ crashes \in 0..MaxCrashes /\ Threading
  BY DEF Typing, Threaded
<1>1. Threaded' /\ OwnerTypes'
  BY <1>0, ThreadsCalls, OwnerTypesKept DEF Answered, Refused, TimesOut, ReadFails
<1>2. CASE Answered(t)
  <2>1. Proper(Head(todo[t])) /\ Effect(Head(todo[t])) /\ UNCHANGED rest
    BY <1>0, <1>2, ProperHead DEF Answered
  <2> QED
    BY <1>0, <1>1, <2>1, EffectTypes, RestKept DEF Typing
<1>3. CASE Refused(t) \/ ReadFails(t)
  <2>1. UNCHANGED rest /\ UNCHANGED robotVars
    BY <1>3 DEF Refused, ReadFails
  <2> QED
    BY <1>0, <1>1, <2>1, RobotTypesKept, RestKept DEF Typing
<1>4. CASE TimesOut(t)
  <2>1. pending' = pending \cup {Call(t, TRUE)} /\ UNCHANGED <<crashes, journal, dirty>>
        /\ UNCHANGED robotVars
        /\ At(t, Mutations)
    BY <1>4 DEF TimesOut, journalVars, At
  <2>2. PendingTypes'
    BY <1>0, <2>1, ProperHead DEF PendingTypes, Proper
  <2>3. JournalTypes' /\ crashes' \in 0..MaxCrashes
    BY <1>0, <2>1 DEF JournalTypes
  <2> QED
    BY <1>0, <1>1, <2>1, <2>2, <2>3, RobotTypesKept DEF Typing
<1> QED
  BY <1>2, <1>3, <1>4

(* Every step of a thread keeps the types, ...                              *)
LEMMA WorkTypes ==
  ASSUME Typing, NEW t \in Threads, Works(t)
  PROVE  Typing'
<1>0. Threaded /\ OwnerTypes /\ RobotTypes /\ PendingTypes /\ JournalTypes
      /\ crashes \in 0..MaxCrashes /\ Threading
  BY DEF Typing, Threaded
<1>1. ASSUME Threaded', OwnerTypes', UNCHANGED rest, UNCHANGED robotVars PROVE Typing'
  BY <1>0, <1>1, RobotTypesKept, RestKept DEF Typing
<1>2. CASE Answered(t) \/ Refused(t) \/ TimesOut(t) \/ ReadFails(t)
  BY <1>2, CallTypes
<1>3. CASE ReadsRobot(t)
  BY <1>0, <1>1, <1>3, ThreadsReadsRobot, OwnerTypesKept DEF ReadsRobot
<1>4. CASE Checks(t)
  BY <1>0, <1>1, <1>4, ThreadsChecks, OwnerTypesKept DEF Checks
<1>5. CASE Transition(t)
  BY <1>0, <1>1, <1>5, ThreadsTransition, OwnerTypesKept DEF Transition
<1>6. CASE Rebuilt(t)
  BY <1>0, <1>1, <1>6, ThreadsRebuilt, OwnerTypesKept DEF Rebuilt
<1>7. CASE Assigns(t) \/ Bumps(t) \/ Halted(t)
  <2>1. Threaded'
    BY <1>0, <1>7, ThreadsAssigns
  <2>2. state' \in [Groups -> States]
    <3>1. \A g, s : s \in States => [state EXCEPT ![g] = s] \in [Groups -> States]
      BY <1>0 DEF OwnerTypes
    <3>2. \A do : StateAfter(do) \in States
      BY DEF StateAfter, States
    <3>3. \A failed : StateAfterStop(failed) \in States
      BY DEF StateAfterStop, States
    <3>4. CASE Assigns(t)
      BY <3>1, <3>2, <3>4 DEF Assigns
    <3>5. CASE Bumps(t)
      BY <1>0, <3>5 DEF Bumps, OwnerTypes
    <3>6. CASE Halted(t)
      BY <3>1, <3>3, <3>6 DEF Halted
    <3> QED
      BY <1>7, <3>4, <3>5, <3>6
  <2>3. generation' \in [Groups -> Nat]
    <3>1. generation \in [Groups -> Nat]
      BY <1>0 DEF OwnerTypes
    <3>2. CASE Assigns(t)
      <4>1. PICK v : generation' = [generation EXCEPT ![GroupOf(t)] = v]
                     /\ v \in {generation[GroupOf(t)], generation[GroupOf(t)] + 1}
        BY <3>2, Zenon DEF Assigns
      <4>2. GroupOf(t) \in Groups => v \in Nat
        BY <3>1, <4>1
      <4> QED
        BY <3>1, <4>1, <4>2, Retyped
    <3>3. CASE Bumps(t)
      <4>1. generation' = [generation EXCEPT ![GroupOf(t)] = generation[GroupOf(t)] + 1]
        BY <3>3 DEF Bumps
      <4>2. GroupOf(t) \in Groups => generation[GroupOf(t)] + 1 \in Nat
        BY <3>1
      <4> QED
        BY <3>1, <4>1, <4>2, Retyped
    <3>4. CASE Halted(t)
      BY <1>0, <3>4 DEF Halted, OwnerTypes
    <3> QED
      BY <1>7, <3>2, <3>3, <3>4
  <2>4. UNCHANGED <<requested, ownerChecked>> /\ UNCHANGED rest /\ UNCHANGED robotVars
    BY <1>7 DEF Assigns, Bumps, Halted
  <2>5. OwnerTypes'
    BY <1>0, <2>2, <2>3, <2>4 DEF OwnerTypes
  <2> QED
    BY <1>1, <2>1, <2>4, <2>5
<1>8. CASE Records(t)
  <2>1. Threaded' /\ OwnerTypes'
    BY <1>0, <1>8, ThreadsRecords, OwnerTypesKept DEF Records
  <2>2. UNCHANGED <<pending, crashes>> /\ UNCHANGED robotVars
    BY <1>8 DEF Records
  <2>3. \/ UNCHANGED <<journal, dirty>> \/ (journal' = GroupOf(t) /\ dirty' = TRUE)
    <3>1. UNCHANGED journalVars \/ (journal' = GroupOf(t) /\ dirty' = TRUE)
      BY <1>8, Zenon DEF Records
    <3>2. UNCHANGED journalVars => UNCHANGED <<journal, dirty>>
      BY DEF journalVars
    <3> QED
      BY <3>1, <3>2, Zenon
  <2>4. GroupOf(t) \in Groups
    <3>1. At(t, {"transact"})
      BY <1>8 DEF Records
    <3>2. todo[t] # << >> /\ todo[t][1].do = "transact" /\ GroupOf(t) = todo[t][1].on
      BY <1>0, <3>1, AtHead
    <3>3. t \in Workers
      BY <1>0, <3>2, AtWorker
      DEF WorkerOnly, Names, Assigned, MonitorNames, OwnerNames, StopNames
    <3> QED
      BY <1>0, <3>2, <3>3, HeadFacts DEF Teardown
  <2>5. JournalTypes'
    <3>1. CASE UNCHANGED <<journal, dirty>>
      BY <1>0, <3>1 DEF JournalTypes
    <3>2. CASE journal' = GroupOf(t) /\ dirty' = TRUE
      <4>1. journal' \in Groups /\ dirty' \in BOOLEAN
        BY <2>4, <3>2
      <4> QED
        BY <4>1, Zenon DEF JournalTypes
    <3> QED
      BY <2>3, <3>1, <3>2
  <2>6. PendingTypes'
    BY <1>0, <2>2 DEF PendingTypes, Proper
  <2> QED
    BY <1>0, <2>1, <2>2, <2>5, <2>6, RobotTypesKept DEF Typing
<1>9. CASE Closes(t)
  <2>1. Threaded' /\ OwnerTypes' /\ ~Resolved(GroupOf(t)) /\ GroupOf(t) \in Groups /\ dirty' \in BOOLEAN
    BY <1>0, <1>9, ThreadsCloses, OwnerTypesKept DEF Closes
  <2>2. UNCHANGED <<pending, crashes, journal>> /\ UNCHANGED robotVars
    BY <1>9 DEF Closes
  <2>3. JournalTypes' /\ PendingTypes'
    BY <1>0, <2>1, <2>2 DEF JournalTypes, PendingTypes, Proper, Resolved
  <2> QED
    BY <1>0, <2>1, <2>2, <2>3, RobotTypesKept DEF Typing
<1>10. CASE Concludes(t)
  <2>1. Threaded'
    BY <1>0, <1>10, ThreadsConcludes
  <2>2. OwnerTypes' /\ UNCHANGED rest /\ UNCHANGED robotVars
    BY <1>0, <1>10 DEF Concludes, OwnerTypes, States
  <2> QED
    BY <1>1, <2>1, <2>2
<1>11. CASE Ends(t)
  BY <1>0, <1>1, <1>11, ThreadsEnds, OwnerTypesKept DEF Ends
<1> QED
  BY <1>2, <1>3, <1>4, <1>5, <1>6, <1>7, <1>8, <1>9, <1>10, <1>11 DEF Works

(* ... and every other step.                                                *)
LEMMA OtherTypes ==
  ASSUME Typing,
         \/ \E t \in Workers, action \in asked : \E gs \in Scopes(action) : Begin(t, action, gs)
         \/ Monitors \/ Owns \/ Crash \/ \E c \in pending : TakesEffect(c)
         \/ \E g \in Groups : SessionEnds(g) \/ ControllersStop(g)
         \/ UNCHANGED vars
  PROVE  Typing'
<1>0. Threaded /\ OwnerTypes /\ RobotTypes /\ PendingTypes /\ JournalTypes
      /\ crashes \in 0..MaxCrashes /\ Threading
  BY DEF Typing, Threaded
<1>1. ASSUME Threaded', OwnerTypes', UNCHANGED rest, UNCHANGED robotVars PROVE Typing'
  BY <1>0, <1>1, RobotTypesKept, RestKept DEF Typing
<1>2. ASSUME NEW t \in Workers, NEW action \in asked, NEW gs \in Scopes(action), Begin(t,
             action, gs) PROVE Typing'
  <2>1. Threaded' /\ gs \in SUBSET Groups
    BY <1>0, <1>2, ThreadsBegin
  <2>2. OwnerTypes' /\ UNCHANGED rest /\ UNCHANGED robotVars
    BY <1>0, <1>2, <2>1 DEF Begin, OwnerTypes
  <2> QED
    BY <1>1, <2>1, <2>2
<1>3. CASE Monitors
  <2>1. (dirty => journal \in Groups) /\ requested \in SUBSET Groups
    BY <1>0 DEF JournalTypes, OwnerTypes
  <2>2. CASE MonitorBegins
    BY <1>0, <1>1, <2>2, ThreadsMonitorBegins, OwnerTypesKept DEF MonitorBegins
  <2>3. CASE LocksDirty \/ ReadsStatus \/ ReadsResources \/ Suspects
    <3>1. UNCHANGED ownerVars /\ UNCHANGED robotVars /\ UNCHANGED rest
      BY <2>3 DEF LocksDirty, ReadsStatus, ReadsResources, Suspects
    <3> QED
      BY <1>0, <1>1, <2>1, <2>3, <3>1, ThreadsLooks, OwnerTypesKept
  <2>4. CASE Confirms
    BY <1>0, <1>1, <2>4, ThreadsConfirms, OwnerTypesKept DEF Confirms
  <2>5. CASE Condemns
    <3>1. Threaded'
      BY <1>0, <2>5, ThreadsCondemns
    <3>2. OwnerTypes' /\ UNCHANGED rest /\ UNCHANGED robotVars
      BY <1>0, <2>5 DEF Condemns, OwnerTypes, States
    <3> QED
      BY <1>1, <3>1, <3>2
  <2> QED
    BY <1>3, <2>2, <2>3, <2>4, <2>5 DEF Monitors
<1>4. CASE Owns
  <2>1. active \subseteq Groups
    BY <1>0 DEF RobotTypes
  <2>2. CASE OwnerBegins
    BY <1>0, <1>1, <2>2, ThreadsOwnerBegins, OwnerTypesKept DEF OwnerBegins
  <2>3. CASE OwnerReads
    BY <1>0, <1>1, <2>1, <2>3, ThreadsOwnerReads, OwnerTypesKept DEF OwnerReads
  <2>4. CASE TakesOver
    <3>1. Threaded'
      BY <1>0, <2>4, ThreadsTakesOver
    <3>2. Head(todo["owner"]).with \subseteq Groups
      <4>1. At("owner", {"taken_over"}) /\ "owner" \in Threads
        BY <2>4 DEF TakesOver, Threads
      <4>2. todo["owner"] # << >> /\ Head(todo["owner"]) = todo["owner"][1]
        BY <1>0, <4>1, AtHead
      <4>3. todo["owner"][1] \in Plans
        BY <1>0, <4>1, <4>2, HeadFacts
      <4> QED
        BY <4>2, <4>3 DEF Plans
    <3>3. UNCHANGED rest /\ UNCHANGED robotVars
      BY <2>4 DEF TakesOver
    <3>4. OwnerTypes'
      BY <1>0, <2>4, <3>2 DEF TakesOver, OwnerTypes, States
    <3> QED
      BY <1>1, <3>1, <3>3, <3>4
  <2> QED
    BY <1>4, <2>2, <2>3, <2>4 DEF Owns
<1>5. CASE Crash
  <2>1. Threaded'
    BY <1>0, <1>5, ThreadsCrash
  <2>2. OwnerTypes' /\ UNCHANGED robotVars /\ UNCHANGED <<journal, dirty>> /\ crashes' \in 0..MaxCrashes
    <3>1. MaxCrashes \in Nat
      BY CoordinatorAssumption DEF CoordinatorAssumption
    <3>2. crashes < MaxCrashes /\ crashes' = crashes + 1
      BY <1>5 DEF Crash
    <3>3. crashes' \in 0..MaxCrashes
      BY <1>0, <3>1, <3>2
    <3>4. UNCHANGED robotVars /\ UNCHANGED <<journal, dirty>>
      BY <1>5 DEF Crash, journalVars
    <3>5. state' = [g \in Groups |-> "Stopped"] /\ generation' = [g \in Groups |-> 0]
          /\ requested' = {} /\ ownerChecked' = FALSE
      BY <1>5 DEF Crash
    <3>6. "Stopped" \in States /\ 0 \in Nat
      BY DEF States
    <3>7. OwnerTypes'
      BY <3>5, <3>6 DEF OwnerTypes
    <3> QED
      BY <3>3, <3>4, <3>7
  <2>3. PendingTypes'
    <3>1. PICK sent \in SUBSET {t \in Threads : At(t, Mutations \cap Unreliable)} :
            pending' = {[c EXCEPT !.own = FALSE] : c \in pending} \cup {Call(t, FALSE) : t \in sent}
      BY <1>5 DEF Crash
    <3>2. ASSUME NEW t \in sent PROVE Proper(Call(t, FALSE))
      <4>1. t \in Threads /\ At(t, Mutations)
        BY DEF At
      <4> QED
        BY <1>0, <4>1, ProperHead
    <3>3. \A c \in pending : Proper([c EXCEPT !.own = FALSE])
      BY <1>0 DEF PendingTypes, Proper
    <3>4. \A d \in pending' : Proper(d)
      BY <3>1, <3>2, <3>3
    <3> QED
      BY <3>4 DEF PendingTypes, Proper
  <2>4. JournalTypes'
    BY <1>0, <2>2 DEF JournalTypes
  <2> QED
    BY <1>0, <2>1, <2>2, <2>3, <2>4, RobotTypesKept DEF Typing
<1>6. ASSUME NEW c \in pending, TakesEffect(c) PROVE Typing'
  <2>1. /\ pending' = pending \ {c} /\ UNCHANGED <<crashes, journal, dirty>> /\ UNCHANGED ownerVars
        /\ UNCHANGED <<threadVars, asked, journal, dirty>>
    BY <1>6 DEF TakesEffect, journalVars
  <2>2. RobotTypes'
    <3>1. Proper(c)
      BY <1>0 DEF PendingTypes
    <3> QED
      BY <1>0, <1>6, <3>1, EffectTypes, RobotTypesKept DEF TakesEffect
  <2>3. PendingTypes' /\ JournalTypes' /\ crashes' \in 0..MaxCrashes
    BY <1>0, <2>1 DEF PendingTypes, JournalTypes, Proper
  <2> QED
    BY <1>0, <2>1, <2>2, <2>3, ThreadsRest, OwnerTypesKept DEF Typing
<1>7. ASSUME NEW g \in Groups, SessionEnds(g) \/ ControllersStop(g) PROVE Typing'
  <2>1. UNCHANGED rest /\ UNCHANGED ownerVars /\ UNCHANGED <<threadVars, asked, journal, dirty>>
    BY <1>7 DEF SessionEnds, ControllersStop, rest, journalVars
  <2>2. RobotTypes'
    BY <1>0, <1>7 DEF SessionEnds, ControllersStop, RobotTypes
  <2> QED
    BY <1>0, <2>1, <2>2, ThreadsRest, OwnerTypesKept, RestKept DEF Typing
<1>8. CASE UNCHANGED vars
  <2>1. UNCHANGED rest /\ UNCHANGED ownerVars /\ UNCHANGED robotVars /\ UNCHANGED <<threadVars,
        asked, journal, dirty>>
    BY <1>8 DEF vars, rest, journalVars
  <2> QED
    BY <1>0, <1>1, <2>1, ThreadsRest, OwnerTypesKept
<1> QED
  BY <1>2, <1>3, <1>4, <1>5, <1>6, <1>7, <1>8

(* They hold at first ...                                                   *)
LEMMA TypingStarts ==
  ASSUME Init
  PROVE  Typing
<1>1. /\ op = [t \in Threads |-> ""] /\ todo = [t \in Threads |-> << >>]
            /\ held = [t \in Threads |-> {}]
      /\ errors = [t \in Threads |-> FALSE] /\ asked \in Workloads
  BY DEF Init
<1>2. << >> \in Seq(Plans)
  OBVIOUS
<1>3. /\ op \in [Threads -> Ops] /\ held \in [Threads -> SUBSET Groups]
            /\ errors \in [Threads -> BOOLEAN]
      /\ todo \in [Threads -> Seq(Plans)] /\ Disjoint
  BY <1>1, <1>2 DEF Ops, Disjoint
<1>4. \A t \in Threads : Fits(t, "", {}, << >>)
  BY SuitsEmpty DEF Fits, Role
<1>5. \A t \in Threads : Fits(t, op[t], held[t], todo[t])
  BY <1>1, <1>4
<1>6. Threaded
  BY <1>1, <1>3, <1>5 DEF Threaded, Threading, Recorded, At, Threads
<1>7. OwnerTypes /\ RobotTypes /\ PendingTypes
  <2>1. state = [g \in Groups |-> "Stopped"] /\ generation = [g \in Groups |-> 0]
        /\ requested = {} /\ ownerChecked = FALSE
        /\ phase = [g \in Groups |-> "closed"] /\ active = {} /\ component = "unconfigured"
        /\ locked = {} /\ pending = {}
    BY DEF Init
  <2>2. OwnerTypes
    <3>1. "Stopped" \in States /\ 0 \in Nat
      BY DEF States
    <3> QED
      BY <2>1, <3>1 DEF OwnerTypes
  <2>3. RobotTypes
    BY <2>1 DEF RobotTypes, Lifecycle
  <2> QED
    BY <2>1, <2>2, <2>3 DEF PendingTypes
<1>8. JournalTypes /\ crashes \in 0..MaxCrashes
  <2>1. Maintained \subseteq Groups /\ MaxCrashes \in Nat
    BY CoordinatorAssumption DEF CoordinatorAssumption
  <2>2. crashes = 0 /\ ((journal = "none" /\ dirty = FALSE) \/ (journal \in Maintained /\ dirty = TRUE))
    BY Zenon DEF Init
  <2>3. JournalTypes
    BY <2>1, <2>2 DEF JournalTypes
  <2> QED
    BY <2>1, <2>2, <2>3
<1> QED
  BY <1>6, <1>7, <1>8 DEF Typing

(* ... and always.                                                          *)
LEMMA TypingHolds == Spec => []Typing
<1>1. Init => Typing
  BY TypingStarts
<1>2. ASSUME Typing, [Next]_vars PROVE Typing'
  BY <1>2, WorkTypes, OtherTypes DEF Next
<1> QED
  BY <1>1, <1>2, PTL DEF Spec

(* Whatever the groups, the workers and the bounds: the coordinator's state *)
(* is of its types, and no two threads (workers, monitor, takeover) ever    *)
(* hold the same group's lock (groups.py:69-89).                            *)
THEOREM CoordTypeCorrect == Spec => []CoordTypeOK
<1>1. Typing => CoordTypeOK
  BY DEF Typing, CoordTypeOK, Threaded, Threading, Ops, Disjoint, OwnerTypes, RobotTypes,
         PendingTypes, Proper,
         JournalTypes
<1> QED
  BY <1>1, TypingHolds, PTL

-----------------------------------------------------------------------------
(* Profile switches, and what an exception leaves.                          *)

(* In a profile switch nothing but a stop comes before the other profile is taken. *)
Lags(s) == \A i, j \in 1..Len(s) : s[i].do \notin StopNames \cup {"switched"}
  /\ s[j].do = "switched" => j < i

(* The steps that look for late calls                                       *)
Settling == {"settled", "arm_unless_armed"}

(* Once it does something else it has taken the other profile.              *)
LEMMA LagsLacks ==
  ASSUME NEW s \in Seq(Plans), Lags(s), s # << >>, s[1].do \notin StopNames \cup {"switched"}
  PROVE  Lacks(s, {"switched"})
<1>1. 1 \in 1..Len(s)
  BY Rest
<1>2. SUFFICES ASSUME NEW j \in 1..Len(s), s[j].do = "switched" PROVE FALSE
  BY DEF Lacks
<1>3. j < 1
  BY <1>1, <1>2 DEF Lags
<1> QED
  BY <1>3

(* A list without a switch of profiles.                                     *)
LEMMA LacksLags ==
  ASSUME NEW s, Lacks(s, {"switched"})
  PROVE  Lags(s)
  BY DEF Lacks, Lags

(* The rest of a profile switch.                                            *)
LEMMA LagsTail ==
  ASSUME NEW s \in Seq(Plans), s # << >>, Lags(s)
  PROVE  Lags(Tail(s))
<1>1. \A i \in 1..Len(Tail(s)) : i + 1 \in 1..Len(s) /\ Tail(s)[i] = s[i + 1]
  BY Rest
<1>2. SUFFICES ASSUME NEW i \in 1..Len(Tail(s)), NEW j \in 1..Len(Tail(s)),
                      Tail(s)[i].do \notin StopNames \cup {"switched"}, Tail(s)[j].do = "switched"
               PROVE  j < i
  BY DEF Lags
<1>3. i \in Int /\ j \in Int
  OBVIOUS
<1>4. j + 1 < i + 1
  BY <1>1, <1>2 DEF Lags
<1> QED
  BY <1>3, <1>4

(* Lists that make a profile switch.                                        *)
LEMMA LagsJoin ==
  ASSUME NEW a \in Seq(Plans), NEW b \in Seq(Plans),
         \/ Uses(a, StopNames \cup {"switched"}) /\ Lags(b)
         \/ Lags(a) /\ Lacks(b, {"switched"})
  PROVE  Lags(a \o b)
<1> DEFINE c == a \o b
<1>1. /\ Len(a) \in Nat /\ Len(b) \in Nat /\ Len(c) = Len(a) + Len(b)
      /\ \A i \in 1..Len(a) : c[i] = a[i]
      /\ \A i \in 1..Len(b) : c[Len(a) + i] = b[i]
      /\ \A k \in 1..Len(c) : k \in 1..Len(a) \/ \E i \in 1..Len(b) : k = Len(a) + i
  BY JoinedPlans
<1> HIDE DEF c
<1>2. SUFFICES ASSUME NEW i \in 1..Len(c), NEW j \in 1..Len(c),
                      c[i].do \notin StopNames \cup {"switched"}, c[j].do = "switched"
               PROVE  j < i
  BY DEF Lags, c
<1>3. CASE Uses(a, StopNames \cup {"switched"}) /\ Lags(b)
  <2>1. i \notin 1..Len(a)
    BY <1>1, <1>2, <1>3 DEF Uses
  <2>2. PICK m \in 1..Len(b) : i = Len(a) + m
    BY <1>1, <2>1
  <2>3. CASE j \in 1..Len(a)
    BY <1>1, <2>2, <2>3
  <2>4. CASE j \notin 1..Len(a)
    <3>1. PICK n \in 1..Len(b) : j = Len(a) + n
      BY <1>1, <2>4
    <3>2. n < m
      BY <1>1, <1>2, <1>3, <2>2, <3>1 DEF Lags
    <3> QED
      BY <1>1, <2>2, <3>1, <3>2
  <2> QED
    BY <2>3, <2>4
<1>4. CASE Lags(a) /\ Lacks(b, {"switched"})
  <2>1. j \in 1..Len(a)
    <3>1. SUFFICES ASSUME j \notin 1..Len(a) PROVE FALSE
      OBVIOUS
    <3>2. PICK n \in 1..Len(b) : j = Len(a) + n
      BY <1>1, <3>1
    <3> QED
      BY <1>1, <1>2, <1>4, <3>2 DEF Lacks
  <2>2. CASE i \in 1..Len(a)
    BY <1>1, <1>2, <1>4, <2>1, <2>2 DEF Lags
  <2>3. CASE i \notin 1..Len(a)
    BY <1>1, <2>1, <2>3
  <2> QED
    BY <2>2, <2>3
<1> QED
  BY <1>3, <1>4

(* A phase for a single group is its block. *)
LEMMA EachOne ==
  ASSUME NEW g, NEW steps, DOMAIN steps = {g}, steps[g] \in Seq(Plans)
  PROVE  Each(steps) = steps[g]
<1> DEFINE order == SetToSeq({g})
           ss == [i \in 1..Len(order) |-> steps[order[i]]]
<1>1. IsFiniteSet({g}) /\ Cardinality({g}) = 1
  BY FS_Singleton
<1>2. order \in [1..1 -> {g}]
  BY <1>1, Ordering
<1> HIDE DEF order
<1>3. order \in Seq({g}) /\ Len(order) = 1 /\ order[1] = g
  <2>1. order = [i \in 1..1 |-> order[i]]
    BY <1>2
  <2>2. \A i \in 1..1 : order[i] \in {g}
    BY <1>2
  <2>3. 1 \in 1..1
    OBVIOUS
  <2> QED
    BY <2>1, <2>2, <2>3
<1>4. ss = [i \in 1..1 |-> steps[order[i]]]
  BY <1>3
<1>5. ss \in Seq(Seq(Plans)) /\ Len(ss) = 1 /\ ss[1] = steps[g]
  BY <1>3, <1>4
<1>6. Each(steps) = FlattenSeq(ss)
  BY DEF Each, order
<1> HIDE DEF ss
<1>7. Len(ss) > 0
  BY <1>5
<1>8. \E f \in [1..Len(ss) -> Seq(Plans)] :
           /\ f[1] = ss[1]
           /\ \A i \in 2..Len(ss) : f[i] = f[i - 1] \o ss[i]
           /\ FlattenSeq(ss) = f[Len(ss)]
  BY <1>5, <1>7, FlattenUnfolds
<1> QED
  BY <1>5, <1>6, <1>8

(* A profile switch stops its group before it takes the other profile.      *)
LEMMA ProfileLags ==
  ASSUME NEW g \in Groups
  PROVE  Lags(Program("profile", {g}))
<1> DEFINE steps == [h \in {g} |-> Switch(h)]
<1>1. Program("profile", {g}) = Each(steps)
  BY DEF Program, Maintenance
<1>2. Stop(g) \in Seq(Plans) /\ Uses(Stop(g), StopNames)
  BY StopSound
<1>3. Stop(g) \o << >> = Stop(g)
  BY <1>2
<1>4. Lags(Switch(g)) /\ Switch(g) \in Seq(Plans)
  <2>1. CASE state[g] # "Running"
    <3>1. Switch(g) = Stop(g)
      BY <1>3, <2>1 DEF Switch
    <3>2. Lacks(Stop(g), {"switched"})
      BY StopSound
    <3> QED
      BY <1>2, <3>1, <3>2, LacksLags
  <2>2. CASE state[g] = "Running"
    <3> DEFINE one == Steps(<<"switched">>, g)
               a == one \o InitGroup(g)
               b == a \o Enable(g)
               c == b \o Start(g)
    <3>1. Switch(g) = Stop(g) \o Restart(g)
      BY <2>2 DEF Switch
    <3>2. one \in Seq(Plans) /\ Uses(one, {"switched"})
      <4>1. "switched" \in Names /\ "switched" \notin Starters /\ g \in Groups \cup {"all"}
        BY DEF Names, Checked, Starters
      <4> QED
        BY <4>1, OneStep
    <3>3. /\ InitGroup(g) \in Seq(Plans) /\ Lacks(InitGroup(g), {"switched"})
          /\ Start(g) \in Seq(Plans) /\ Lacks(Start(g), {"switched"})
          /\ Enable(g) \in Seq(Plans) /\ Lacks(Enable(g), {"switched"})
      <4>1. /\ InitGroup(g) \in Seq(Plans) /\ Uses(InitGroup(g), InitNames)
            /\ Prepare(g) \in Seq(Plans) /\ Uses(Prepare(g), PrepareNames)
            /\ Acknowledge(g) \in Seq(Plans) /\ Uses(Acknowledge(g), AcknowledgeNames)
            /\ Arm(g) \in Seq(Plans) /\ Uses(Arm(g), ArmNames)
            /\ Start(g) \in Seq(Plans) /\ Uses(Start(g), StartNames)
        BY InitGroupBlock, PrepareBlock, AcknowledgeBlock, ArmBlock, StartBlock
           DEF InitNames, PrepareNames, AcknowledgeNames, ArmNames, StartNames
      <4>2. "switched" \notin InitNames \cup PrepareNames \cup AcknowledgeNames \cup ArmNames \cup StartNames
        BY DEF InitNames, PrepareNames, AcknowledgeNames, ArmNames, StartNames
      <4>3. /\ Lacks(InitGroup(g), {"switched"}) /\ Lacks(Prepare(g), {"switched"})
            /\ Lacks(Acknowledge(g), {"switched"}) /\ Lacks(Arm(g), {"switched"})
                  /\ Lacks(Start(g), {"switched"})
        BY <4>1, <4>2 DEF Uses, Lacks
      <4>4. Prepare(g) \o Acknowledge(g) \in Seq(Plans) /\ Lacks(Prepare(g) \o Acknowledge(g),
            {"switched"})
        BY <4>1, <4>3, JoinedPlans, LacksJoin
      <4>5. Enable(g) \in Seq(Plans) /\ Lacks(Enable(g), {"switched"})
        BY <4>1, <4>3, <4>4, JoinedPlans, LacksJoin DEF Enable
      <4> QED
        BY <4>1, <4>3, <4>5
    <3>4. Switch(g) = Stop(g) \o c
      BY <3>1 DEF Restart
    <3> HIDE DEF one
    <3>5. Lags(one)
      BY <3>2 DEF Lags, Uses
    <3>6. a \in Seq(Plans) /\ Lags(a)
      BY <3>2, <3>3, <3>5, JoinedPlans, LagsJoin
    <3> HIDE DEF a
    <3>7. b \in Seq(Plans) /\ Lags(b)
      BY <3>3, <3>6, JoinedPlans, LagsJoin
    <3> HIDE DEF b
    <3>8. c \in Seq(Plans) /\ Lags(c)
      BY <3>3, <3>7, JoinedPlans, LagsJoin
    <3> HIDE DEF c
    <3>9. Uses(Stop(g), StopNames \cup {"switched"})
      BY <1>2 DEF Uses
    <3> QED
      BY <1>2, <3>4, <3>8, <3>9, JoinedPlans, LagsJoin
  <2> QED
    BY <2>1, <2>2
<1> QED
  BY <1>1, <1>4, EachOne

(* A rule survives an insertion.                                            *)
LEMMA InsertPrecedes ==
  ASSUME NEW s \in Seq(Plans), s # << >>, NEW g, NEW first, NEW then, Precedes(s, g, first, then),
         NEW steps \in Seq(Plans), Precedes(steps, g, first, then),
         s[1].on = g /\ s[1].do \in first => Has(steps, g, first)
  PROVE  Precedes(steps \o Tail(s), g, first, then)
<1>1. Tail(s) \in Seq(Plans)
  BY Rest
<1>2. Has(steps, g, first) \/ Precedes(Tail(s), g, first, then)
  BY RestPrecedes
<1> QED
  BY <1>1, <1>2, JoinedPrecedes

(* The group is taken out of the rest of the list. *)
LEMMA RestWithout ==
  ASSUME NEW s \in Seq(Plans), NEW h
  PROVE  LET w == WithoutGroup(s, h)
         IN  /\ w \in Seq(Plans)
             /\ \A k \in 1..Len(w) : w[k].on # h
             /\ \A g, names : g # h /\ Has(s, g, names) => Has(w, g, names)
             /\ \A g, names : Only(s, g, names) => Only(w, g, names)
             /\ \A names : Lacks(s, names) => Lacks(w, names)
             /\ \A g, first, then : g # h /\ Precedes(s, g, first, then) => Precedes(w, g, first, then)
<1> DEFINE D == {x \in ToSet(s) : x.on = h}
           w == Without(s, D)
<1>1. w = WithoutGroup(s, h) /\ w \in Seq(Plans)
  BY WithoutAll DEF WithoutGroup
<1>2. \A x \in D : x.on = h
  OBVIOUS
<1>3. \A k \in 1..Len(w) : w[k].on # h
  <2>1. \A k \in 1..Len(s) : s[k] \in ToSet(s)
    BY Members
  <2>2. PICK place \in [1..Len(w) -> 1..Len(s)] : \A i \in 1..Len(w) : w[i] = s[place[i]]
             /\ s[place[i]] \notin D
    BY WithoutEmbeds
  <2> HIDE DEF w
  <2> QED
    BY <2>1, <2>2
<1> HIDE DEF D
<1>4. ASSUME NEW g, NEW names, g # h, Has(s, g, names) PROVE Has(w, g, names)
  <2>1. \A x \in D : x.on # g \/ x.do \notin names
    BY <1>2, <1>4
  <2> QED
    BY <1>4, <2>1, WithoutAll
<1>5. ASSUME NEW g, NEW names, Only(s, g, names) PROVE Only(w, g, names)
  BY <1>5, WithoutAll
<1>6. ASSUME NEW names, Lacks(s, names) PROVE Lacks(w, names)
  BY <1>6, WithoutAll
<1>7. ASSUME NEW g, NEW first, NEW then, g # h, Precedes(s, g, first, then) PROVE Precedes(w, g,
             first, then)
  <2>1. \A x \in D : x.on # g \/ x.do \notin first
    BY <1>2, <1>7
  <2> QED
    BY <1>7, <2>1, WithoutPrecedes
<1> HIDE DEF w
<1> QED
  BY <1>1, <1>3, <1>4, <1>5, <1>6, <1>7

(* After an exception the group is stopped and becomes Fault; the others go on. *)
LEMMA AfterFaults ==
  ASSUME Threading, NEW t \in Threads, todo[t] # << >>, t # "owner", op[t] \notin Dropping,
         t = "monitor" => op[t] = "converge"
  PROVE  LET s == todo[t]
             h == s[1].on
             a == After(t)
         IN  /\ a \in Seq(Plans) /\ a # << >> /\ a[1].do = "bump" /\ h \in Groups
             /\ Only(a, h, FaultNames) /\ Has(a, h, {"fault"})
             /\ \A g, names : g # h /\ Has(s, g, names) => Has(a, g, names)
             /\ \A g, names : g # h /\ Only(s, g, names) => Only(a, g, names)
             /\ Lacks(s, {"switched"}) => Lacks(a, {"switched"})
             /\ \A first, then : then \subseteq Sensitive => Precedes(a, h, first, then)
             /\ \A g, first, then : then \subseteq Sensitive /\ Precedes(s, g, first, then)
                   => Precedes(a, g, first, then)
<1> DEFINE s == todo[t]
           h == s[1].on
           r == Tail(s)
           f == StopToFault(h)
           w == WithoutGroup(r, h)
           a == f \o w
<1>1. s \in Seq(Plans) /\ r \in Seq(Plans) /\ 1 \in 1..Len(s)
  BY HeadFacts
<1>2. h \in Groups
  BY AfterSuits
<1>3. a = After(t)
  BY DEF After
<1> HIDE DEF h
<1>4. f \in Seq(Plans) /\ Uses(f, FaultNames) /\ Has(f, h, {"fault"}) /\ On(f, {h})
  BY <1>2, StopToFaultSound DEF Sound
<1>5. Lacks(f, Sensitive) /\ Lacks(f, {"switched"})
  BY <1>4, FaultTame
<1> HIDE DEF s, r, f
<1>6. /\ w \in Seq(Plans)
      /\ \A k \in 1..Len(w) : w[k].on # h
      /\ \A g, names : g # h /\ Has(r, g, names) => Has(w, g, names)
      /\ \A g, names : Only(r, g, names) => Only(w, g, names)
      /\ \A names : Lacks(r, names) => Lacks(w, names)
      /\ \A g, first, then : g # h /\ Precedes(r, g, first, then) => Precedes(w, g, first, then)
  BY <1>1, RestWithout
<1> HIDE DEF w
<1>7. a \in Seq(Plans) /\ a # << >> /\ a[1].do = "bump"
  <2>1. StopToFault(h) \o w # << >> /\ (StopToFault(h) \o w)[1].do = "bump"
        /\ StopToFault(h) \o w \in Seq(Plans)
    BY <1>2, <1>6, AfterBegins
  <2> QED
    BY <2>1 DEF f
<1> HIDE DEF a
<1>8. Only(a, h, FaultNames) /\ Has(a, h, {"fault"})
  <2>1. Only(f, h, FaultNames)
    BY <1>4 DEF Uses, Only
  <2>2. Only(w, h, FaultNames)
    BY <1>6 DEF Only
  <2> QED
    BY <1>4, <1>6, <2>1, <2>2, JoinedAll DEF a
<1>9. ASSUME NEW g, NEW names, g # h, Has(s, g, names) PROVE Has(a, g, names)
  <2>1. Has(r, g, names)
    BY <1>1, <1>9, RestAll DEF r, h, s
  <2>2. Has(w, g, names)
    BY <1>6, <1>9, <2>1
  <2> QED
    BY <1>4, <1>6, <2>2, JoinedAll DEF a
<1>10. ASSUME NEW g, NEW names, g # h, Only(s, g, names) PROVE Only(a, g, names)
  <2>1. Only(r, g, names)
    BY <1>1, <1>10, RestAll DEF r, s
  <2>2. Only(w, g, names) /\ Only(f, g, names)
    BY <1>4, <1>6, <1>10, <2>1 DEF On, Only
  <2> QED
    BY <1>4, <1>6, <2>2, JoinedAll DEF a
<1>11. ASSUME Lacks(s, {"switched"}) PROVE Lacks(a, {"switched"})
  <2>1. Lacks(r, {"switched"})
    BY <1>1, <1>11, RestAll DEF r, s
  <2> QED
    BY <1>4, <1>5, <1>6, <2>1, JoinedAll DEF a
<1>12. ASSUME NEW g, NEW first, NEW then, then \subseteq Sensitive, g = h \/ Precedes(s, g, first, then)
       PROVE  Precedes(a, g, first, then)
  <2>1. Precedes(f, g, first, then)
    BY <1>5, <1>12, TamePrecedes
  <2>2. CASE g = h
    <3>1. Precedes(w, g, first, then)
      BY <1>6, <2>2 DEF Precedes
    <3> QED
      BY <1>4, <1>6, <2>1, <3>1, JoinedPrecedes DEF a
  <2>3. CASE g # h
    <3>1. Precedes(r, g, first, then)
      BY <1>1, <1>12, <2>3, RestPrecedes DEF r, h, s
    <3>2. Precedes(w, g, first, then)
      BY <1>6, <2>3, <3>1
    <3> QED
      BY <1>4, <1>6, <2>1, <3>2, JoinedPrecedes DEF a
  <2> QED
    BY <2>2, <2>3
<1> QED
  BY <1>2, <1>3, <1>7, <1>8, <1>9, <1>10, <1>11, <1>12 DEF h, s

-----------------------------------------------------------------------------
(* The invariant.                                                           *)

(* No call for g that raises it, or starts it, is outstanding. *)
NoCalls(g) == \A c \in pending : c.on = g => c.do \notin Critical
NoRise(g)  == \A c \in pending : c.on = g => c.do \notin Starters
(* The group does not move, and no late call can make it. *)
Still(g) == phase[g] # "open" /\ (phase[g] = "armed" => NoRise(g))
(* Nor are its controllers active.                                          *)
Quiet(g) == Still(g) /\ g \notin active
(* What a thread that holds the lock of g knows of it: that no late call can  *)
(* raise it, or that it looks for one before it does so itself;             *)
RuleN(t, g) == t \in Workers => NoCalls(g) \/ Settles(todo[t], g)
(* of no unresolved journal, or looks for it,                               *)
RuleJ(t, g) == t \in Workers => Resolved(g) \/ Resolves(todo[t], g)
(* that g is stopped, or stops it before a transaction;                     *)
RuleT(t, g) == t \in Workers => (Still(g) /\ state[g] # "Armed") \/ HaltsFor(todo[t], g)
(* a profile switch has one group, and stops it first;                      *)
RuleP(t, g) == t \in Workers /\ op[t] = "profile" => held[t] = {g} /\ Lags(todo[t])
(* within a stop that has met no error the session is over, and at its end  *)
(* the controllers too.                                                     *)
RuleS(t, g) ==
  ~errors[t] /\ todo[t] # << >> /\ todo[t][1].on = g =>
    /\ todo[t][1].do \in {"list", "release", "halted"} => Still(g)
    /\ todo[t][1].do = "halted" => g \notin active
(* All that a thread knows of g                                             *)
Rule(t, g) == RuleN(t, g) /\ RuleJ(t, g) /\ RuleT(t, g) /\ RuleP(t, g) /\ RuleS(t, g)
(* It has given up on g, and will stop it ... *)
Bad(t, g) ==
  /\ t \in Workers /\ g \in held[t] /\ op[t] \notin Dropping
  /\ Only(todo[t], g, FaultNames) /\ Has(todo[t], g, {"fault"})
(* ... or its state is about to change otherwise. *)
Begun(t, g) ==
  /\ t \in Workers /\ g \in held[t] /\ op[t] \in Arming /\ Has(todo[t], g, {"running"})
  /\ op[t] = "profile" => Lacks(todo[t], {"switched"})
(* or it is the monitor, and stops all groups,                              *)
Converging(t, g) == t = "monitor" /\ op[t] = "converge" /\ Has(todo[t], g, {"fault"})
(* so that its state is about to change.                                    *)
Coming(t, g) == Bad(t, g) \/ Begun(t, g) \/ Converging(t, g)
(* What holds of every group: one with an unresolved journal does not move  *)
(* and is not armed; no late call can raise an armed one; a halted one is   *)
(* quiet, unless somebody is at it.                                         *)
GroupSafe(g) ==
  /\ ~Resolved(g) => Still(g) /\ state[g] # "Armed"
  /\ state[g] = "Armed" => NoCalls(g) \/ \E t \in Threads : Bad(t, g)
  /\ state[g] = "Halted" => Quiet(g) \/ \E t \in Threads : Coming(t, g)
(* The late calls are this process's, each in its group's scope, and one a  *)
(* group at most can raise it.                                              *)
Calls ==
  /\ IsFiniteSet(pending)
  /\ \A c \in pending : c.own /\ (c.do \in Critical => c.scope = c.on)
  /\ \A c, d \in pending : c.do \in Critical /\ d.do \in Critical /\ c.on = d.on => c = d
(* Every thread knows these of the groups it holds.                         *)
Rules == \A t \in Threads : \A g \in held[t] : Rule(t, g)
(* And all groups are safe.                                                 *)
Safes == \A g \in Groups : GroupSafe(g)
(* The inductive invariant: types, late calls, what the threads know and    *)
(* what holds of the groups                                                 *)
Safety == Typing /\ Calls /\ Rules /\ Safes
(* A step that leaves g alone, or stops it. *)
Spares(g) ==
  /\ NoCalls(g) => NoCalls(g)'
  /\ Resolved(g) => Resolved(g)'
  /\ Still(g) => Still(g)'
  /\ Quiet(g) => Quiet(g)'
  /\ state[g] # "Armed" => state[g]' # "Armed"
(* What a thread has promised of g it has done, or still has to do. *)
Keeps(t, g) ==
  /\ Bad(t, g) => Bad(t, g)' \/ state[g]' \notin {"Armed", "Halted"}
  /\ Coming(t, g) => Coming(t, g)' \/ state[g]' \notin {"Armed", "Halted"}
(* The step is taken by t *)
Alone(t) == \A u \in Threads : u # t =>
  /\ op'[u] = op[u] /\ todo'[u] = todo[u] /\ held'[u] = held[u] /\ errors'[u] = errors[u]

(* What other threads have promised they still have.                        *)
LEMMA OthersKeep ==
  ASSUME NEW t \in Threads, Alone(t), NEW u \in Threads, u # t, NEW g
  PROVE  /\ Bad(u, g) => Bad(u, g)'
         /\ Coming(u, g) => Coming(u, g)'
<1>1. op'[u] = op[u] /\ todo'[u] = todo[u] /\ held'[u] = held[u]
  BY DEF Alone
<1> QED
  BY <1>1 DEF Bad, Coming, Begun, Converging

(* What other threads know stays true.                                      *)
LEMMA OthersRule ==
  ASSUME NEW t \in Threads, Alone(t), NEW u \in Threads, u # t, NEW g, Spares(g), Rule(u, g)
  PROVE  Rule(u, g)'
<1>1. op'[u] = op[u] /\ todo'[u] = todo[u] /\ held'[u] = held[u] /\ errors'[u] = errors[u]
  BY DEF Alone
<1>2. RuleN(u, g)'
  BY <1>1 DEF Rule, RuleN, Spares
<1>3. RuleJ(u, g)'
  BY <1>1 DEF Rule, RuleJ, Spares
<1>4. RuleT(u, g)'
  BY <1>1 DEF Rule, RuleT, Spares
<1>5. RuleP(u, g)'
  BY <1>1 DEF Rule, RuleP
<1>6. RuleS(u, g)'
  <2>1. Still(g) => Still(g)'
    BY DEF Spares
  <2>2. Still(g) /\ g \notin active => g \notin active'
    BY DEF Spares, Quiet
  <2> QED
    BY <1>1, <2>1, <2>2 DEF Rule, RuleS
<1> QED
  BY <1>2, <1>3, <1>4, <1>5, <1>6 DEF Rule

(* A group that a step leaves alone stays safe.                             *)
LEMMA SparedSafe ==
  ASSUME NEW t \in Threads, Alone(t), NEW g, GroupSafe(g), Keeps(t, g), Spares(g),
         state[g]' = "Halted" => state[g] = "Halted" \/ Quiet(g)' \/ Coming(t, g)'
  PROVE  GroupSafe(g)'
<1>1. ~Resolved(g)' => Still(g)' /\ state[g]' # "Armed"
  BY DEF GroupSafe, Spares
<1>2. state[g]' = "Armed" => NoCalls(g)' \/ \E u \in Threads : Bad(u, g)'
  <2>1. SUFFICES ASSUME state[g]' = "Armed", ~NoCalls(g)'
                 PROVE  \E u \in Threads : Bad(u, g)'
    OBVIOUS
  <2>2. PICK u \in Threads : Bad(u, g)
    BY <2>1 DEF GroupSafe, Spares
  <2>3. Bad(u, g)'
    BY <2>1, <2>2, OthersKeep DEF Keeps
  <2> QED
    BY <2>3
<1>3. state[g]' = "Halted" => Quiet(g)' \/ \E u \in Threads : Coming(u, g)'
  <2>1. SUFFICES ASSUME state[g]' = "Halted", ~Quiet(g)', ~Coming(t, g)'
                 PROVE  \E u \in Threads : Coming(u, g)'
    OBVIOUS
  <2>2. PICK u \in Threads : Coming(u, g)
    BY <2>1 DEF GroupSafe, Spares
  <2>3. Coming(u, g)'
    BY <2>1, <2>2, OthersKeep DEF Keeps
  <2> QED
    BY <2>3
<1> QED
  BY <1>1, <1>2, <1>3 DEF GroupSafe

(* A step of one thread keeps the invariant if what it knows is true and    *)
(* the groups it does not hold are left alone.                              *)
LEMMA Turn ==
  ASSUME Safety, Typing', Calls', NEW t \in Threads, Alone(t), \A g \in held'[t] : Rule(t, g)',
         \A g \in Groups :
           \/ /\ Keeps(t, g) /\ Spares(g)
              /\ state[g]' = "Halted" => state[g] = "Halted" \/ Quiet(g)' \/ Coming(t, g)'
           \/ g \in held[t] /\ GroupSafe(g)'
  PROVE  Safety'
<1>1. ASSUME NEW u \in Threads, NEW g \in held'[u]
      PROVE  Rule(u, g)'
  <2>1. CASE u = t
    BY <2>1, <1>1
  <2>2. CASE u # t
    <3>1. held'[u] = held[u] /\ g \in held[u]
      BY <2>2, <1>1 DEF Alone
    <3>2. g \in Groups /\ g \notin held[t]
      BY <3>1, <2>2 DEF Safety, Typing, Threaded, Threading, Disjoint
    <3>3. Spares(g) /\ Rule(u, g)
      BY <3>1, <3>2 DEF Safety, Rules
    <3> QED
      BY <2>2, <3>3, OthersRule
  <2> QED
    BY <2>1, <2>2
<1>2. ASSUME NEW g \in Groups
      PROVE  GroupSafe(g)'
  <2>1. GroupSafe(g)
    BY DEF Safety, Safes
  <2> QED
    BY <2>1, SparedSafe
<1> QED
  BY <1>1, <1>2 DEF Safety, Rules, Safes

-----------------------------------------------------------------------------
(* A thread that goes on, or gives up, knows what it must and keeps what it *)
(* has promised.                                                            *)

(* The steps within a stop                                                  *)
Reached == {"list", "release", "halted"}

(* What follows a step outside a stop is not within one.                    *)
LEMMA CalmNext ==
  ASSUME NEW s \in Seq(Plans), s # << >>, Chained(s), NEW steps \in Seq(Plans), Fresh(steps),
         s[1].do \notin {"halt", "list", "release"}
  PROVE  steps \o Tail(s) # << >> => (steps \o Tail(s))[1].do \notin Reached
<1> DEFINE a == steps \o Tail(s)
<1>1. SUFFICES ASSUME a # << >>
               PROVE  a[1].do \notin Reached
  OBVIOUS
<1>2. Tail(s) \in Seq(Plans)
  BY Rest
<1>3. CASE steps = << >>
  <2>1. a = Tail(s) /\ Tail(s) # << >> /\ Len(Tail(s)) > 0
    BY <1>1, <1>2, <1>3
  <2>2. Leads(s[1], Tail(s)[1])
    BY <2>1, RestChain
  <2> QED
    BY <2>1, <2>2 DEF Leads, Reached
<1>4. CASE steps # << >>
  <2>1. a[1] = steps[1] /\ Len(steps) > 0
    BY <1>2, <1>4
  <2> QED
    BY <2>1 DEF Fresh, Reached, Followers
<1> QED
  BY <1>3, <1>4
(* What an operation leaves out *)
LEMMA Leaves ==
  ASSUME NEW s, NEW o, NEW gs, Script(s, o, gs)
  PROVE  /\ o \notin Arming => \A g : Settles(s, g) /\ Resolves(s, g)
         /\ o \notin Maintenance => \A g : HaltsFor(s, g)
<1>1. o \notin Arming => Lacks(s, Rising \cup {"arm_unless_armed"})
  BY DEF Script
<1>2. o \notin Maintenance => Lacks(s, Recording)
  BY DEF Script
<1> QED
  BY <1>1, <1>2, Unrisen, Unrecorded

(* A thread that goes on knows what it knew and what it has learnt.         *)
LEMMA Continuing ==
  ASSUME Safety, Typing', NEW t \in Threads, todo[t] # << >>, NEW steps \in Seq(Plans),
         Continue(t, steps),
         On(steps, {todo[t][1].on}), Lacks(steps, {"switched"}),
         \A g : Settles(steps, g) /\ HaltsFor(steps, g),
         todo[t][1].do \in FaultNames \cup {"switched"} => Uses(steps, StopNames),
         NEW g \in held[t],
         Resolved(g)' \/ Resolves(steps, g), NoCalls(g) => NoCalls(g)',
         op[t] \in Arming => (Resolved(g) => Resolved(g)'),
         op[t] \in Maintenance => (Still(g) /\ state[g] # "Armed" => Still(g)' /\ state[g]' # "Armed"),
         todo[t][1].on = g /\ todo[t][1].do \in Settling => NoCalls(g)' \/ Has(steps, g, Settling),
         todo[t][1].on = g /\ todo[t][1].do \in Acknowledging => Resolved(g)' \/ Has(steps, g,
           Acknowledging),
         todo[t][1].on = g /\ todo[t][1].do = "halted" /\ op[t] \in Maintenance =>
           Still(g)' /\ state[g]' # "Armed"
  PROVE  RuleN(t, g)' /\ RuleJ(t, g)' /\ RuleT(t, g)' /\ RuleP(t, g)'
<1> DEFINE s == todo[t]
           a == steps \o Tail(s)
<1>1. Threading /\ Threading' /\ s \in Seq(Plans) /\ Tail(s) \in Seq(Plans) /\ Rule(t, g)
  BY HeadFacts DEF Safety, Typing, Threaded, Rules
<1>2. op'[t] = op[t] /\ todo'[t] = a /\ held'[t] = held[t] /\ a \in Seq(Plans)
  BY <1>1, JoinedPlans DEF Continue, Threading
<1> SUFFICES ASSUME t \in Workers
             PROVE  RuleN(t, g)' /\ RuleJ(t, g)' /\ RuleT(t, g)' /\ RuleP(t, g)'
  BY DEF RuleN, RuleJ, RuleT, RuleP
<1>3. /\ op[t] \notin Arming => Settles(a, g) /\ Resolves(a, g)
      /\ op[t] \notin Maintenance => HaltsFor(a, g)
  <2>1. Script(todo'[t], op'[t], held'[t])
    BY <1>1 DEF Threading, Fits, Suits
  <2> QED
    BY <2>1, <1>2, Leaves
<1> HIDE DEF s, a
<1>4. NoCalls(g)' \/ Settles(a, g)
  <2>1. SUFFICES ASSUME ~NoCalls(g)', op[t] \in Arming
                 PROVE  Settles(a, g)
    BY <1>3
  <2>2. Settles(s, g)
    BY <2>1, <1>1 DEF Rule, RuleN, s
  <2> QED
    BY <2>1, <2>2, <1>1, InsertPrecedes DEF Settles, Settling, s, a
<1>5. Resolved(g)' \/ Resolves(a, g)
  <2>1. SUFFICES ASSUME ~Resolved(g)', op[t] \in Arming
                 PROVE  Resolves(a, g)
    BY <1>3
  <2>2. Resolves(s, g)
    BY <2>1, <1>1 DEF Rule, RuleJ, s
  <2> QED
    BY <2>1, <2>2, <1>1, InsertPrecedes DEF Resolves, Acknowledging, s, a
<1>6. (Still(g)' /\ state[g]' # "Armed") \/ HaltsFor(a, g)
  <2>1. SUFFICES ASSUME ~(Still(g)' /\ state[g]' # "Armed"), op[t] \in Maintenance
                 PROVE  HaltsFor(a, g)
    BY <1>3
  <2>2. HaltsFor(s, g)
    BY <2>1, <1>1 DEF Rule, RuleT, s
  <2>3. ~(s[1].on = g /\ s[1].do \in {"halted"})
    BY <2>1 DEF s
  <2> QED
    BY <2>2, <2>3, <1>1, InsertPrecedes DEF HaltsFor, s, a
<1>7. op[t] = "profile" => held[t] = {g} /\ Lags(a)
  <2>1. SUFFICES ASSUME op[t] = "profile"
                 PROVE  held[t] = {g} /\ Lags(a)
    OBVIOUS
  <2>2. held[t] = {g} /\ Lags(s)
    BY <2>1, <1>1 DEF Rule, RuleP, s
  <2>3. s # << >>
    BY DEF s
  <2>4. CASE s[1].do \in StopNames \cup {"switched"}
    <3>1. Uses(steps, StopNames)
      BY <2>4 DEF s, FaultNames
    <3>2. Uses(steps, StopNames \cup {"switched"})
      BY <3>1 DEF Uses
    <3> QED
      BY <3>2, <2>2, <2>3, <1>1, LagsTail, LagsJoin DEF a
  <2>5. CASE s[1].do \notin StopNames \cup {"switched"}
    <3>1. Lacks(s, {"switched"})
      BY <1>1, <2>2, <2>3, <2>5, LagsLacks
    <3>2. Lacks(Tail(s), {"switched"})
      BY <1>1, <2>3, <3>1, RestAll
    <3> QED
      BY <3>2, <1>1, LacksLags, LagsJoin, <2>2 DEF a
  <2> QED
    BY <2>2, <2>4, <2>5
<1>8. s = todo[t] /\ a = todo'[t] /\ op'[t] = op[t] /\ held'[t] = held[t]
  BY <1>2 DEF s, a
<1>9. RuleN(t, g)'
  BY <1>4, <1>8 DEF RuleN
<1>10. RuleJ(t, g)'
  BY <1>5, <1>8 DEF RuleJ
<1>11. RuleT(t, g)'
  BY <1>6, <1>8 DEF RuleT
<1>12. RuleP(t, g)'
  BY <1>7, <1>8 DEF RuleP
<1> QED
  BY <1>9, <1>10, <1>11, <1>12

(* What a list has, but for its first step, it still has.                   *)
LEMMA TailHas ==
  ASSUME NEW s \in Seq(Plans), s # << >>, NEW steps \in Seq(Plans), NEW g, NEW name, Has(s, g, {name}),
         ~(s[1].on = g /\ s[1].do = name)
  PROVE  Has(steps \o Tail(s), g, {name})
<1>1. Tail(s) \in Seq(Plans)
  BY Rest
<1>2. Has(Tail(s), g, {name})
  BY RestAll
<1> QED
  BY <1>1, <1>2, JoinedAll

(* A thread that goes on keeps its promises.                                *)
LEMMA ContinuingKeeps ==
  ASSUME Threading, NEW t \in Threads, todo[t] # << >>, NEW steps \in Seq(Plans), Continue(t, steps),
         On(steps, {todo[t][1].on}), Lacks(steps, {"switched"}),
         todo[t][1].do \in FaultNames \cup {"switched"} => Uses(steps, StopNames),
         NEW g, todo[t][1].on = g /\ todo[t][1].do \in {"fault", "running"}
           => state[g]' \notin {"Armed", "Halted"}
  PROVE  Keeps(t, g)
<1> DEFINE s == todo[t]
           a == steps \o Tail(s)
<1>1. s \in Seq(Plans) /\ Tail(s) \in Seq(Plans)
  BY HeadFacts
<1>2. op'[t] = op[t] /\ todo'[t] = a /\ held'[t] = held[t] /\ a \in Seq(Plans)
  BY <1>1, JoinedPlans DEF Continue, Threading
<1> SUFFICES ASSUME ~(s[1].on = g /\ s[1].do \in {"fault", "running"})
             PROVE  Keeps(t, g)
  BY DEF Keeps
<1>3. s = todo[t] /\ s # << >> /\ a = steps \o Tail(s)
  OBVIOUS
<1> HIDE DEF s, a
<1>4. Has(s, g, {"fault"}) => Has(a, g, {"fault"})
  BY <1>1, <1>3, TailHas
<1>5. Has(s, g, {"running"}) => Has(a, g, {"running"})
  BY <1>1, <1>3, TailHas
<1>6. Only(s, g, FaultNames) => Only(a, g, FaultNames)
  <2>1. SUFFICES ASSUME Only(s, g, FaultNames)
                 PROVE  Only(a, g, FaultNames)
    OBVIOUS
  <2>2. Only(Tail(s), g, FaultNames) /\ (s[1].on = g => s[1].do \in FaultNames)
    BY <2>1, <1>1, <1>3, RestAll
  <2>3. Only(steps, g, FaultNames)
    <3>1. CASE s[1].on = g
      <4>1. Uses(steps, StopNames)
        BY <3>1, <2>2, <1>3
      <4> QED
        BY <4>1 DEF Uses, Only, FaultNames
    <3>2. CASE s[1].on # g
      BY <3>2, <1>3 DEF On, Only
    <3> QED
      BY <3>1, <3>2
  <2> QED
    BY <2>2, <2>3, <1>1, <1>3, JoinedAll
<1>7. Lacks(s, {"switched"}) => Lacks(a, {"switched"})
  <2>1. SUFFICES ASSUME Lacks(s, {"switched"})
                 PROVE  Lacks(a, {"switched"})
    OBVIOUS
  <2>2. Lacks(Tail(s), {"switched"})
    BY <2>1, <1>1, <1>3, RestAll
  <2> QED
    BY <2>2, <1>1, <1>3, JoinedAll
<1>8. Bad(t, g) => Bad(t, g)'
  BY <1>2, <1>3, <1>4, <1>6 DEF Bad
<1>9. Begun(t, g) => Begun(t, g)'
  BY <1>2, <1>3, <1>5, <1>7 DEF Begun
<1>10. Converging(t, g) => Converging(t, g)'
  BY <1>2, <1>3, <1>4 DEF Converging
<1> QED
  BY <1>8, <1>9, <1>10 DEF Keeps, Coming
(* A thread that raises gives up on the group ... *)
LEMMA RaisingKeeps ==
  ASSUME Safety, NEW t \in Threads, todo[t] # << >>, Raise(t),
         todo[t][1].do \in FaultNames => todo[t][1].do = "halted" /\ state'[todo[t][1].on] = "Fault",
         NEW g \in Groups
  PROVE  Keeps(t, g)
<1> DEFINE s == todo[t]
<1>1. Threading /\ s \in Seq(Plans) /\ op \in [Threads -> Ops] /\ held \in [Threads -> SUBSET Groups]
      /\ todo \in [Threads -> Seq(Plans)] /\ s # << >> /\ 1 \in 1..Len(s)
  BY HeadFacts DEF Safety, Typing, Threaded, Threading
<1>2. CASE op[t] = "monitor"
  <2>1. t = "monitor" /\ t \notin Workers
    BY <1>2, Raised, <1>1, Apiece
  <2> QED
    BY <2>1, <1>2 DEF Keeps, Coming, Bad, Begun, Converging
<1>3. CASE op[t] # "monitor"
  <2>1. /\ op'[t] = op[t] /\ held'[t] = held[t]
        /\ \/ Cancels(t)
           \/ t \in Workers /\ op[t] \in Maintenance
           \/ /\ t # "owner" /\ op[t] \notin Dropping /\ ~Cancels(t)
              /\ t = "monitor" => op[t] = "converge"
              /\ todo'[t] = After(t)
    BY <1>1, <1>3, Raised
  <2>2. Bad(t, g) /\ s[1].on = g => state[g]' = "Fault"
    <3>1. SUFFICES ASSUME Bad(t, g), s[1].on = g
                   PROVE  state[g]' = "Fault"
      OBVIOUS
    <3>2. s[1].do \in FaultNames
      BY <3>1, <1>1 DEF Bad, Only
    <3> QED
      BY <3>1, <3>2
  <2>3. t \in Workers /\ op[t] = "profile" /\ g \in held[t] => s[1].on = g /\ held[t] = {g}
        /\ On(s, {g})
    <3>1. SUFFICES ASSUME t \in Workers, op[t] = "profile", g \in held[t]
                   PROVE  s[1].on = g /\ held[t] = {g} /\ On(s, {g})
      OBVIOUS
    <3>2. held[t] = {g}
      BY <3>1 DEF Safety, Rules, Rule, RuleP
    <3>3. Script(s, "profile", held[t])
      BY <3>1, <1>1 DEF Threading, Fits, Suits
    <3> QED
      BY <3>2, <3>3, <1>1 DEF Script, On
  <2>4. CASE Cancels(t)
    <3>1. CASE op[t] \in {"shutdown", "owner"}
      <4>1. op[t] \in Dropping \/ t \notin Workers
        BY <3>1, <1>1 DEF Dropping, Threading, Fits, Role, Actions
      <4> QED
        BY <3>1, <4>1 DEF Keeps, Coming, Bad, Begun, Converging, Arming, Dropping
    <3>2. CASE op[t] = "profile" /\ At(t, {"halted"})
      <4>1. SUFFICES ASSUME Coming(t, g)
                     PROVE  state[g]' = "Fault"
        BY DEF Keeps, Coming
      <4>2. t \in Workers /\ g \in held[t]
        BY <4>1, <3>2 DEF Coming, Bad, Begun, Converging
      <4>3. s[1].on = g /\ s[1].do = "halted"
        BY <4>2, <3>2, <2>3, <1>1, HeadFacts DEF At
      <4> QED
        BY <4>3 DEF FaultNames, StopNames
    <3>3. CASE op[t] = "profile" /\ "switched" \in StepsLeft(t)
      <4>1. PICK k \in 1..Len(s) : s[k].do = "switched"
        BY <3>3 DEF StepsLeft
      <4>2. SUFFICES ASSUME Coming(t, g)
                     PROVE  FALSE
        BY DEF Keeps, Coming
      <4>3. t \in Workers /\ g \in held[t]
        BY <4>2, <3>3 DEF Coming, Bad, Begun, Converging
      <4>4. s[k].on = g
        BY <4>1, <4>3, <3>3, <2>3 DEF On
      <4>5. ~Bad(t, g)
        BY <4>1, <4>4 DEF Bad, Only, FaultNames, StopNames
      <4>6. ~Begun(t, g)
        BY <4>1, <3>3 DEF Begun, Lacks
      <4> QED
        BY <4>2, <4>5, <4>6, <3>3 DEF Coming, Converging
    <3> QED
      BY <2>4, <3>1, <3>2, <3>3 DEF Cancels
  <2>5. CASE t \in Workers /\ op[t] \in Maintenance
    <3>1. op[t] \in Dropping /\ op[t] \notin Arming /\ op[t] # "converge"
      BY <2>5 DEF Dropping, Arming, Maintenance
    <3> QED
      BY <3>1 DEF Keeps, Coming, Bad, Begun, Converging
  <2>6. CASE /\ t # "owner" /\ op[t] \notin Dropping /\ ~Cancels(t)
             /\ t = "monitor" => op[t] = "converge"
             /\ todo'[t] = After(t)
    <3> DEFINE a == After(t)
               h == s[1].on
    <3>1. /\ Only(a, h, FaultNames) /\ Has(a, h, {"fault"})
          /\ \A i, names : i # h /\ Has(s, i, names) => Has(a, i, names)
          /\ \A i, names : i # h /\ Only(s, i, names) => Only(a, i, names)
          /\ Lacks(s, {"switched"}) => Lacks(a, {"switched"})
      BY <1>1, <2>6, AfterFaults
    <3>2. s = todo[t] /\ a = todo'[t]
      BY <2>6
    <3> HIDE DEF s, a, h
    <3>3. CASE g = h
      <4>1. t \in Workers /\ g \in held[t] => Bad(t, g)'
        BY <2>1, <2>6, <3>1, <3>2, <3>3 DEF Bad
      <4>2. Converging(t, g) => Converging(t, g)'
        BY <2>1, <3>1, <3>2, <3>3 DEF Converging
      <4> QED
        BY <4>1, <4>2 DEF Keeps, Coming, Bad, Begun
    <3>4. CASE g # h
      <4>1. Bad(t, g) => Bad(t, g)'
        BY <2>1, <3>1, <3>2, <3>4 DEF Bad
      <4>2. Begun(t, g) => Begun(t, g)'
        BY <2>1, <3>1, <3>2, <3>4 DEF Begun
      <4>3. Converging(t, g) => Converging(t, g)'
        BY <2>1, <3>1, <3>2, <3>4 DEF Converging
      <4> QED
        BY <4>1, <4>2, <4>3 DEF Keeps, Coming
    <3> QED
      BY <3>3, <3>4
  <2> QED
    BY <2>1, <2>4, <2>5, <2>6
<1> QED
  BY <1>2, <1>3

(* The empty list keeps every rule.                                         *)
LEMMA NothingLeft == \A g : Settles(<< >>, g) /\ Resolves(<< >>, g) /\ HaltsFor(<< >>, g) /\ Lags(<< >>)
<1> DEFINE s == << >>
<1>1. Len(s) = 0
  OBVIOUS
<1> HIDE DEF s
<1>2. \A g : Settles(s, g) /\ Resolves(s, g) /\ HaltsFor(s, g) /\ Lags(s)
  BY <1>1 DEF Settles, Resolves, HaltsFor, Precedes, Lags
<1> QED
  BY <1>2 DEF s

(* So does what is left of a transaction.                                   *)
LEMMA Undone ==
  ASSUME NEW g \in Groups, NEW a, a = Steps(<<"maintained">>, g) \/ a = Steps(<<"roll_back",
         "maintained">>, g) \/ a = << >>
  PROVE  \A h : HaltsFor(a, h) /\ (a # << >> => a[1].do \notin Reached)
<1>1. CASE a = << >>
  BY <1>1, NothingLeft
<1>2. ASSUME NEW names \in Seq(Names), names = <<"maintained">> \/ names = <<"roll_back",
             "maintained">>,
             a = Steps(names, g)
      PROVE  \A h : HaltsFor(a, h) /\ (a # << >> => a[1].do \notin Reached)
  <2>1. \A i \in 1..Len(names) : names[i] \in {"maintained", "roll_back"}
    BY <1>2
  <2>2. 1 \in 1..Len(names)
    BY <1>2
  <2>3. Len(a) = Len(names) /\ \A i \in 1..Len(names) : a[i].do = names[i]
    BY <1>2, StepsFacts
  <2>4. \A i \in 1..Len(a) : a[i].do \in {"maintained", "roll_back"}
    BY <2>1, <2>3
  <2>5. a[1].do \notin Reached
    BY <2>2, <2>3, <2>4 DEF Reached
  <2> QED
    BY <2>4, <2>5 DEF HaltsFor, Precedes
<1>3. <<"maintained">> \in Seq(Names) /\ <<"roll_back", "maintained">> \in Seq(Names)
  BY DEF Names, Assigned
<1> QED
  BY <1>1, <1>2, <1>3

(* A thread that gives up knows what it knew.                               *)
LEMMA RaisingRules ==
  ASSUME Safety, Typing', NEW t \in Threads, todo[t] # << >>, Raise(t),
         NEW g \in held'[t], g # todo[t][1].on => Spares(g)
  PROVE  Rule(t, g)'
<1> DEFINE s == todo[t]
<1>1. Threading /\ Threading' /\ s \in Seq(Plans) /\ op \in [Threads -> Ops]
      /\ held \in [Threads -> SUBSET Groups]
      /\ todo \in [Threads -> Seq(Plans)] /\ s # << >> /\ 1 \in 1..Len(s) /\ s[1] \in Plans
  BY HeadFacts DEF Safety, Typing, Threaded, Threading
<1>2. /\ op'[t] = op[t] /\ held'[t] = held[t]
      /\ \/ todo'[t] = << >>
         \/ t \in Workers /\ op[t] \in Maintenance /\ todo'[t] = Undoes(t)
         \/ /\ t # "owner" /\ op[t] \notin Dropping /\ ~Cancels(t)
            /\ t = "monitor" => op[t] = "converge"
            /\ todo'[t] = After(t)
  <2>1. held'[t] # {}
    OBVIOUS
  <2> QED
    BY <2>1, <1>1, Raised
<1>3. g \in held[t] /\ Rule(t, g) /\ g \in Groups
  BY <1>1, <1>2 DEF Safety, Rules
<1>4. t \in Workers /\ op[t] = "profile" => held[t] = {g} /\ Lags(s)
  BY <1>3 DEF Rule, RuleP
<1>5. t \in Workers => Script(todo'[t], op[t], held[t])
  BY <1>1, <1>2 DEF Threading, Fits, Suits
<1>6. CASE todo'[t] = << >>
  BY <1>2, <1>4, <1>6, NothingLeft DEF Rule, RuleN, RuleJ, RuleT, RuleP, RuleS
<1>7. CASE t \in Workers /\ op[t] \in Maintenance /\ todo'[t] = Undoes(t)
  <2>1. op[t] \notin Arming /\ op[t] # "profile"
    BY <1>7 DEF Arming, Maintenance
  <2>2. Settles(todo'[t], g) /\ Resolves(todo'[t], g)
    BY <2>1, <1>5, <1>7, Leaves
  <2>3. s[1].on \in Groups
    BY <1>1, <1>7, HeadFacts DEF Maintenance
  <2>4. HaltsFor(todo'[t], g) /\ (todo'[t] # << >> => todo'[t][1].do \notin Reached)
    BY <2>3, <1>7, Undone DEF Undoes
  <2> QED
    BY <1>2, <2>1, <2>2, <2>4 DEF Rule, RuleN, RuleJ, RuleT, RuleP, RuleS, Reached
<1>8. CASE /\ t # "owner" /\ op[t] \notin Dropping /\ ~Cancels(t)
           /\ t = "monitor" => op[t] = "converge"
           /\ todo'[t] = After(t)
  <2> DEFINE a == After(t)
             h == s[1].on
  <2>1. /\ a \in Seq(Plans) /\ a # << >> /\ a[1].do = "bump" /\ h \in Groups
        /\ Lacks(s, {"switched"}) => Lacks(a, {"switched"})
        /\ \A first, then : then \subseteq Sensitive => Precedes(a, h, first, then)
        /\ \A i, first, then : then \subseteq Sensitive /\ Precedes(s, i, first, then)
              => Precedes(a, i, first, then)
    BY <1>1, <1>8, AfterFaults
  <2>2. Rising \subseteq Sensitive /\ Rising \cup {"arm_unless_armed"} \subseteq Sensitive
        /\ {"transact"} \subseteq Sensitive
    BY DEF Sensitive, Recording
  <2>3. "switched" \in StepsLeft(t) \/ Lacks(s, {"switched"})
    BY DEF StepsLeft, Lacks
  <2>4. s = todo[t] /\ a = todo'[t]
    BY <1>8
  <2> HIDE DEF s, a, h
  <2>5. /\ g = h \/ Settles(s, g) => Settles(a, g)
        /\ g = h \/ Resolves(s, g) => Resolves(a, g)
        /\ g = h \/ HaltsFor(s, g) => HaltsFor(a, g)
    BY <2>1, <2>2 DEF Settles, Resolves, HaltsFor
  <2>6. g # h => Spares(g)
    BY DEF h, s
  <2>7. RuleN(t, g)'
    BY <1>3, <2>4, <2>5, <2>6 DEF Rule, RuleN, Spares
  <2>8. RuleJ(t, g)'
    BY <1>3, <2>4, <2>5, <2>6 DEF Rule, RuleJ, Spares
  <2>9. RuleT(t, g)'
    BY <1>3, <2>4, <2>5, <2>6 DEF Rule, RuleT, Spares
  <2>10. RuleP(t, g)'
    <3>1. SUFFICES ASSUME t \in Workers, op[t] = "profile"
                   PROVE  Lags(a)
      BY <1>2, <1>4, <2>4 DEF RuleP
    <3>2. "switched" \notin StepsLeft(t)
      BY <3>1, <1>8 DEF Cancels
    <3> QED
      BY <3>2, <2>1, <2>3, LacksLags
  <2>11. RuleS(t, g)'
    BY <2>1, <2>4 DEF RuleS
  <2> QED
    BY <2>7, <2>8, <2>9, <2>10, <2>11 DEF Rule
<1> QED
  BY <1>2, <1>6, <1>7, <1>8
(* One that meets an exception as it raises a group gives up on it. *)
LEMMA RaisingBad ==
  ASSUME Safety, NEW t \in Workers, todo[t] # << >>, Raise(t), op[t] \in Arming,
         todo[t][1].do \in Rising,
         NEW h, h = todo[t][1].on
  PROVE  Bad(t, h)'
<1> DEFINE s == todo[t]
<1>1. Threading /\ t \in Threads /\ s \in Seq(Plans) /\ s # << >> /\ op \in [Threads -> Ops]
      /\ held \in [Threads -> SUBSET Groups] /\ todo \in [Threads -> Seq(Plans)]
  BY HeadFacts DEF Safety, Typing, Threaded, Threading, Threads
<1>2. h \in held[t]
  BY <1>1, HeadFacts DEF Rising, Teardown
<1>3. t # "monitor" /\ t # "owner"
  BY Apiece
<1>4. op[t] \notin Dropping /\ op[t] \notin Maintenance /\ op[t] # "shutdown" /\ op[t] # "owner"
  BY DEF Arming, Dropping, Maintenance
<1>5. ~Cancels(t)
  <2>1. SUFFICES ASSUME op[t] = "profile"
                 PROVE  ~At(t, {"halted"}) /\ "switched" \notin StepsLeft(t)
    BY <1>4 DEF Cancels
  <2>2. Lags(s)
    BY <2>1, <1>1, <1>2 DEF Safety, Rules, Rule, RuleP
  <2>3. s[1].do \notin StopNames \cup {"switched"}
    BY DEF Rising, StopNames
  <2>4. Lacks(s, {"switched"})
    BY <1>1, <2>2, <2>3, LagsLacks
  <2>5. Head(s) = s[1] /\ s[1].do # "halted"
    BY <1>1, HeadFacts DEF Rising
  <2> QED
    BY <2>4, <2>5 DEF At, StepsLeft, Lacks
<1>6. op'[t] = op[t] /\ held'[t] = held[t] /\ todo'[t] = After(t)
  BY <1>1, <1>3, <1>4, <1>5, Raised
<1>7. Only(After(t), h, FaultNames) /\ Has(After(t), h, {"fault"})
  BY <1>1, <1>3, <1>4, AfterFaults
<1> QED
  BY <1>2, <1>4, <1>6, <1>7 DEF Bad

-----------------------------------------------------------------------------
(* Every step keeps the invariant.                                          *)

(* What need be seen of a step to know that it leaves a group alone, or stops it. *)
LEMMA Sparing ==
  ASSUME NEW g \in Groups, phase'[g] = phase[g] \/ phase'[g] = "closed", g \in active' => g \in active,
         \A c \in pending' : c.on = g /\ c.do \in Critical => c \in pending,
         Resolved(g) => Resolved(g)', state[g]' = state[g] \/ state[g]' # "Armed"
  PROVE  Spares(g)
<1>1. NoCalls(g) => NoCalls(g)'
  BY DEF NoCalls
<1>2. NoRise(g) => NoRise(g)'
  BY DEF NoRise, Critical, Starters
<1>3. Still(g) => Still(g)'
  BY <1>2 DEF Still
<1>4. Quiet(g) => Quiet(g)'
  BY <1>3 DEF Quiet
<1> QED
  BY <1>1, <1>3, <1>4 DEF Spares

(* A call that does not raise g leaves it alone, or stops it.               *)
LEMMA EffectLeaves ==
  ASSUME RobotTypes, NEW c, Proper(c), Effect(c), NEW g \in Groups, c.do \notin Critical \/ c.on # g
  PROVE  (phase'[g] = phase[g] \/ phase'[g] = "closed") /\ (g \in active' => g \in active)
<1>1. phase \in [Groups -> {"closed", "armed", "open"}]
  BY DEF RobotTypes
<1>2. phase'[g] = phase[g] \/ phase'[g] = "closed"
  <2>1. CASE ClosesAll(c)
    BY <2>1 DEF Effect
  <2>2. CASE ~ClosesAll(c)
    <3>1. phase' = CASE c.do \in {"halt", "maintenance_lock"} -> [phase EXCEPT ![c.on] = "closed"]
                     [] c.do = "arm"  -> [phase EXCEPT ![c.on] = "armed"]
                     [] c.do = "run"  -> [phase EXCEPT ![c.on] = "open"]
                     [] OTHER -> phase
      BY <2>2 DEF Effect
    <3>2. CASE c.do \in {"halt", "maintenance_lock"}
      BY <1>1, <3>1, <3>2
    <3>3. CASE c.do \in {"arm", "run"}
      BY <1>1, <3>1, <3>3 DEF Critical
    <3>4. CASE c.do \notin {"halt", "maintenance_lock", "arm", "run"}
      BY <3>1, <3>4
    <3> QED
      BY <3>2, <3>3, <3>4
  <2> QED
    BY <2>1, <2>2
<1>3. g \in active' => g \in active
  <2>1. active' = CASE c.do = "start" -> active \cup {c.on}
                 [] c.do \in {"release", "release_lingering"} -> active \ {c.on}
                 [] c.do = "release_owned" -> active \ c.with
                 [] OTHER -> active
    BY DEF Effect
  <2>2. CASE c.do = "start"
    BY <2>1, <2>2 DEF Critical
  <2>3. CASE c.do # "start"
    BY <2>1, <2>3
  <2> QED
    BY <2>2, <2>3
<1> QED
  BY <1>2, <1>3

(* Fewer late calls are no worse.                                           *)
LEMMA CallsFewer ==
  ASSUME Calls, pending' \subseteq pending
  PROVE  Calls'
<1>1. IsFiniteSet(pending')
  BY FS_Subset DEF Calls
<1> QED
  BY <1>1 DEF Calls
(* A step of no thread, or one of the owner check *)
LEMMA OwnerTurn ==
  ASSUME Safety, Typing', Calls', Alone("owner"),
         \A g \in Groups : Spares(g) /\ (state[g]' = "Halted" => state[g] = "Halted")
  PROVE  Safety'
<1> DEFINE t == "owner"
<1>1. t \in Threads /\ t \notin Workers /\ t # "monitor"
  BY Apiece DEF Threads
<1>2. ASSUME NEW g \in held'[t]
      PROVE  Rule(t, g)'
  <2>1. Takes(todo'[t])
    BY <1>1 DEF Typing, Threaded, Threading, Fits, Suits
  <2>2. todo'[t] # << >> => todo'[t][1].do \in OwnerNames
    <3>1. SUFFICES ASSUME todo'[t] # << >>
                   PROVE  1 \in 1..Len(todo'[t])
      BY <2>1 DEF Takes, Uses
    <3> QED
      BY <2>1, <3>1, Rest DEF Takes
  <2>3. RuleS(t, g)'
    BY <2>2 DEF RuleS, OwnerNames
  <2> QED
    BY <1>1, <2>3 DEF Rule, RuleN, RuleJ, RuleT, RuleP
<1>3. ASSUME NEW g \in Groups
      PROVE  Keeps(t, g)
  BY <1>1 DEF Keeps, Bad, Coming, Begun, Converging
<1> HIDE DEF t
<1>4. Alone(t)
  BY DEF t
<1> QED
  BY <1>1, <1>2, <1>3, <1>4, Turn

(* Every step keeps the invariant: a late call, ...                         *)
LEMMA SafeTakesEffect ==
  ASSUME Safety, Typing', NEW c \in pending, TakesEffect(c)
  PROVE  Safety'
<1>1. RobotTypes /\ Proper(c) /\ Calls
  BY DEF Safety, Typing, PendingTypes
<1>2. pending' \subseteq pending /\ pending' = pending \ {c} /\ Calls'
  BY <1>1, CallsFewer DEF TakesEffect
<1>3. UNCHANGED <<ownerVars, threadVars, journalVars>>
  BY DEF TakesEffect
<1>4. Alone("owner") /\ \A g \in Groups : state[g]' = state[g] /\ (Resolved(g) => Resolved(g)')
  BY <1>3 DEF Alone, ownerVars, threadVars, journalVars, Resolved
<1>5. ASSUME NEW g \in Groups
      PROVE  Spares(g)
  <2>1. CASE ~Possible(c)
    <3>1. UNCHANGED robotVars
      BY <2>1 DEF TakesEffect
    <3> QED
      BY <3>1, <1>2, <1>4, Sparing DEF robotVars
  <2>2. CASE Possible(c) /\ (c.do \notin Critical \/ c.on # g)
    <3>1. Effect(c)
      BY <2>2 DEF TakesEffect
    <3> QED
      BY <3>1, <2>2, <1>1, <1>2, <1>4, EffectLeaves, Sparing
  <2>3. CASE Possible(c) /\ c.do \in Critical /\ c.on = g
    <3>1. Effect(c) /\ ~ClosesAll(c)
      BY <2>3 DEF TakesEffect, ClosesAll, Critical, Lifecycle
    <3>2. NoCalls(g)' /\ NoRise(g)'
      <4>1. \A d \in pending' : d.on = g => d.do \notin Critical
        BY <1>1, <1>2, <2>3 DEF Calls
      <4> QED
        BY <4>1 DEF NoCalls, NoRise, Critical, Starters
    <3>3. CASE c.do = "arm"
      <4>1. phase' = [phase EXCEPT ![g] = "armed"] /\ active' = active
        BY <3>1, <3>3, <2>3 DEF Effect
      <4>2. phase'[g] = "armed"
        BY <4>1, <1>1 DEF RobotTypes
      <4>3. Still(g)'
        BY <3>2, <4>2 DEF Still
      <4> QED
        BY <1>4, <3>2, <4>1, <4>3 DEF Spares, Quiet
    <3>4. CASE c.do \in Starters
      <4>1. phase[g] = "armed"
        BY <2>3, <3>4 DEF Possible, Starters
      <4>2. ~Still(g)
        BY <4>1, <2>3, <3>4 DEF Still, NoRise
      <4> QED
        BY <1>4, <3>2, <4>2 DEF Spares, Quiet
    <3> QED
      BY <2>3, <3>3, <3>4 DEF Critical, Starters
  <2> QED
    BY <2>1, <2>2, <2>3
<1> QED
  BY <1>2, <1>4, <1>5, OwnerTurn

(* ... sessions and controllers that end, ...                               *)
LEMMA SafeRobot ==
  ASSUME Safety, Typing', NEW g \in Groups, SessionEnds(g) \/ ControllersStop(g)
  PROVE  Safety'
<1>1. RobotTypes /\ Calls
  BY DEF Safety, Typing
<1>2. UNCHANGED <<ownerVars, threadVars, journalVars, pending>>
  BY DEF SessionEnds, ControllersStop, rest
<1>3. Calls'
  BY <1>1, <1>2, CallsFewer
<1>4. Alone("owner") /\ \A h \in Groups : state[h]' = state[h] /\ (Resolved(h) => Resolved(h)')
  BY <1>2 DEF Alone, ownerVars, threadVars, journalVars, Resolved
<1>5. ASSUME NEW h \in Groups
      PROVE  (phase'[h] = phase[h] \/ phase'[h] = "closed") /\ (h \in active' => h \in active)
  BY <1>1 DEF SessionEnds, ControllersStop, RobotTypes
<1>6. \A h \in Groups : Spares(h)
  BY <1>2, <1>4, <1>5, Sparing
<1> QED
  BY <1>3, <1>4, <1>6, OwnerTurn

(* ... the takeover, ...                                                    *)
LEMMA SafeOwner ==
  ASSUME Safety, Typing', OwnerBegins \/ OwnerReads \/ TakesOver \/ UNCHANGED vars
  PROVE  Safety'
<1>1. Typing /\ Calls /\ Threading /\ OwnerTypes
  BY DEF Safety, Typing, Threaded
<1>2. UNCHANGED <<robotVars, journalVars, pending>>
  BY DEF OwnerBegins, OwnerReads, TakesOver, rest, vars
<1>3. Calls'
  BY <1>1, <1>2, CallsFewer
<1>4. Alone("owner")
  <2>1. CASE OwnerBegins
    BY <2>1, <1>1 DEF OwnerBegins, Alone, Threading
  <2>2. CASE OwnerReads
    BY <2>2, <1>1 DEF OwnerReads, Continue, Alone, Threading
  <2>3. CASE TakesOver
    BY <2>3, <1>1 DEF TakesOver, Continue, Alone, Threading
  <2>4. CASE UNCHANGED vars
    BY <2>4 DEF vars, threadVars, Alone
  <2> QED
    BY <2>1, <2>2, <2>3, <2>4
<1>5. ASSUME NEW g \in Groups
      PROVE  state[g]' = state[g] \/ state[g]' = "Fault"
  BY <1>1, <1>5 DEF OwnerBegins, OwnerReads, TakesOver, vars, ownerVars, OwnerTypes
<1>6. ASSUME NEW g \in Groups
      PROVE  Spares(g)
  <2>1. phase' = phase /\ active' = active /\ pending' = pending /\ (Resolved(g) => Resolved(g)')
    BY <1>2 DEF robotVars, journalVars, Resolved
  <2> QED
    BY <2>1, <1>5, Sparing
<1> QED
  BY <1>3, <1>4, <1>5, <1>6, OwnerTurn

(* (a step of the monitor outside converge())                               *)
LEMMA MonitorTurn ==
  ASSUME Safety, Typing', Calls', Alone("monitor"), op["monitor"] # "converge",
         \A g \in held'["monitor"] : RuleS("monitor", g)',
         \A g \in Groups : Spares(g) /\ (state[g]' = "Halted" => state[g] = "Halted")
  PROVE  Safety'
<1> DEFINE t == "monitor"
<1>1. t \in Threads /\ t \notin Workers
  BY Apiece DEF Threads
<1>2. ASSUME NEW g \in held'[t]
      PROVE  Rule(t, g)'
  BY <1>1, <1>2 DEF Rule, RuleN, RuleJ, RuleT, RuleP
<1>3. ASSUME NEW g \in Groups
      PROVE  Keeps(t, g)
  BY <1>1 DEF Keeps, Bad, Coming, Begun, Converging
<1> HIDE DEF t
<1>4. Alone(t)
  BY DEF t
<1> QED
  BY <1>1, <1>2, <1>3, <1>4, Turn

(* ... the monitor's looks, ...                                             *)
LEMMA SafeLooks ==
  ASSUME Safety, Typing', LocksDirty \/ ReadsStatus \/ ReadsResources \/ Suspects
  PROVE  Safety'
<1>1. Threaded /\ Threading /\ Calls /\ (dirty => journal \in Groups) /\ requested \in SUBSET Groups
  BY DEF Safety, Typing, Threaded, JournalTypes, OwnerTypes
<1>2. PICK s : Continue("monitor", s) /\ Suits("monitor", "monitor", held["monitor"], s)
           /\ Lacks(s, Stopping)
  BY <1>1, LookingOn
<1>3. UNCHANGED <<ownerVars, errors, robotVars, pending, journalVars>>
  BY DEF LocksDirty, ReadsStatus, ReadsResources, Suspects, rest
<1>4. Calls'
  BY <1>1, <1>3, CallsFewer
<1> DEFINE Here == {"lock_dirty", "status", "resources", "suspect"}
<1>5. At("monitor", Here) /\ Here \cap FaultNames = {}
  BY DEF LocksDirty, ReadsStatus, ReadsResources, Suspects, At, FaultNames, StopNames
<1> HIDE DEF Here
<1>6. /\ todo["monitor"] # << >> /\ op["monitor"] = "monitor" /\ Guarded(todo["monitor"],
            held["monitor"])
      /\ todo["monitor"] \in Seq(Plans) /\ Tail(todo["monitor"]) \in Seq(Plans)
      /\ todo["monitor"][1].do \notin StopNames /\ "monitor" \in Threads
  BY <1>1, <1>5, AtLook
<1>7. Alone("monitor") /\ todo'["monitor"] = s \o Tail(todo["monitor"])
  BY <1>1, <1>2, <1>3, <1>6 DEF Continue, Alone, Threading
<1>8. s \in Seq(Plans) /\ Lacks(Tail(todo["monitor"]), Stopping)
  BY <1>2, <1>6, SuitsBasic, GuardedLacks
<1>9. Lacks(todo'["monitor"], Stopping) /\ todo'["monitor"] \in Seq(Plans)
  <2> DEFINE r == Tail(todo["monitor"])
  <2>1. r \in Seq(Plans) /\ Lacks(r, Stopping) /\ todo'["monitor"] = s \o r
    BY <1>6, <1>7, <1>8
  <2> HIDE DEF r
  <2>2. Lacks(s \o r, Stopping)
    BY <1>2, <1>8, <2>1, LacksJoin
  <2>3. s \o r \in Seq(Plans)
    BY <1>8, <2>1
  <2> QED
    BY <2>1, <2>2, <2>3
<1>10. ASSUME NEW g
       PROVE  RuleS("monitor", g)'
  <2>1. todo'["monitor"] # << >> => todo'["monitor"][1].do \notin Stopping
    BY <1>9, Rest DEF Lacks
  <2> QED
    BY <2>1 DEF RuleS, Stopping, StopNames
<1>11. ASSUME NEW g \in Groups
       PROVE  Spares(g) /\ state[g]' = state[g]
  <2>1. phase' = phase /\ active' = active /\ pending' = pending /\ (Resolved(g) => Resolved(g)')
        /\ state[g]' = state[g]
    BY <1>3 DEF robotVars, journalVars, ownerVars, Resolved
  <2> QED
    BY <2>1, Sparing
<1> QED
  BY <1>4, <1>6, <1>7, <1>10, <1>11, MonitorTurn

(* ... its beginning, ...                                                   *)
LEMMA SafeMonitorBegins ==
  ASSUME Safety, Typing', MonitorBegins
  PROVE  Safety'
<1>1. Threading /\ Calls /\ "monitor" \in Threads
  BY DEF Safety, Typing, Threaded, Threads
<1>2. UNCHANGED <<ownerVars, held, errors, robotVars, pending, journalVars>> /\ op["monitor"] = ""
  BY DEF MonitorBegins, rest
<1>3. Calls'
  BY <1>1, <1>2, CallsFewer
<1>4. Alone("monitor") /\ held'["monitor"] = {}
  BY <1>1, <1>2 DEF MonitorBegins, Alone, Threading, Fits
<1>5. ASSUME NEW g \in Groups
      PROVE  Spares(g) /\ state[g]' = state[g]
  <2>1. phase' = phase /\ active' = active /\ pending' = pending /\ (Resolved(g) => Resolved(g)')
        /\ state[g]' = state[g]
    BY <1>2 DEF robotVars, journalVars, ownerVars, Resolved
  <2> QED
    BY <2>1, Sparing
<1> QED
  BY <1>2, <1>3, <1>4, <1>5, MonitorTurn

(* ... its decision, ...                                                    *)
LEMMA SafeConfirms ==
  ASSUME Safety, Typing', Confirms
  PROVE  Safety'
<1> DEFINE g == GroupOf("monitor")
           r == Tail(todo["monitor"])
           more == Steps(<<"condemned">>, g)
<1>1. Threading /\ Threaded /\ Calls
  BY DEF Safety, Typing, Threaded
<1>2. At("monitor", {"confirm"}) /\ {"confirm"} \cap FaultNames = {}
  BY DEF Confirms, FaultNames, StopNames
<1>3. /\ todo["monitor"] # << >> /\ todo["monitor"][1].do = "confirm" /\ g = todo["monitor"][1].on
      /\ op["monitor"] = "monitor" /\ "monitor" \in Threads /\ r \in Seq(Plans)
  BY <1>1, <1>2, AtLook
<1>4. g \in Groups
  BY <1>1, <1>3, HeadFacts DEF RoundNames
<1>5. UNCHANGED <<ownerVars, errors, robotVars, pending, journalVars, op>>
  BY DEF Confirms, rest
<1>6. Calls'
  BY <1>1, <1>5, CallsFewer
<1>7. Alone("monitor")
  BY <1>1, <1>5 DEF Confirms, Alone, Threading
<1>8. \/ held'["monitor"] = {}
      \/ todo'["monitor"] = (Stop(g) \o more) \o r
  BY <1>1, <1>3 DEF Confirms, Threading
<1>9. (Stop(g) \o more) \o r # << >> => ((Stop(g) \o more) \o r)[1].do = "bump"
  <2>1. Stop(g) \in Seq(Plans) /\ Len(Stop(g)) = 4 /\ Stop(g)[1].do = "bump"
    <3>1. 1 \in 1..4 /\ <<"bump", "halt", "list", "halted">>[1] = "bump"
      OBVIOUS
    <3> HIDE DEF g
    <3> QED
      BY <1>4, <3>1, StopBlock
  <2>2. more \in Seq(Plans)
    <3>1. "condemned" \in Names /\ "condemned" \notin Starters /\ g \in Groups \cup {"all"}
      BY <1>4 DEF Names, Others, Starters
    <3> QED
      BY <3>1, OneStep
  <2> HIDE DEF more
  <2>3. 1 \in 1..Len(Stop(g)) /\ Stop(g) \o more \in Seq(Plans)
    BY <2>1, <2>2, JoinedPlans
  <2>4. 1 \in 1..Len(Stop(g) \o more) /\ (Stop(g) \o more)[1] = Stop(g)[1]
    BY <2>1, <2>2, <2>3, JoinedPlans
  <2>5. ((Stop(g) \o more) \o r)[1] = (Stop(g) \o more)[1]
    BY <1>3, <2>3, <2>4, JoinedPlans
  <2> QED
    BY <2>1, <2>4, <2>5
<1> HIDE DEF g, r, more
<1>10. ASSUME NEW h \in held'["monitor"]
       PROVE  RuleS("monitor", h)'
  BY <1>8, <1>9, <1>10 DEF RuleS
<1>11. ASSUME NEW h \in Groups
       PROVE  Spares(h) /\ state[h]' = state[h]
  <2>1. phase' = phase /\ active' = active /\ pending' = pending /\ (Resolved(h) => Resolved(h)')
        /\ state[h]' = state[h]
    BY <1>5 DEF robotVars, journalVars, ownerVars, Resolved
  <2> QED
    BY <2>1, Sparing
<1> QED
  BY <1>3, <1>6, <1>7, <1>10, <1>11, MonitorTurn

(* ... the end of its stop, ...                                             *)
LEMMA SafeCondemns ==
  ASSUME Safety, Typing', Condemns
  PROVE  Safety'
<1>1. Threading /\ Threaded /\ Calls /\ state \in [Groups -> States]
  BY DEF Safety, Typing, Threaded, OwnerTypes
<1>2. At("monitor", {"condemned"}) /\ {"condemned"} \cap FaultNames = {}
  BY DEF Condemns, FaultNames, StopNames
<1>3. op["monitor"] = "monitor" /\ "monitor" \in Threads
  BY <1>1, <1>2, AtLook
<1>4. UNCHANGED <<errors, robotVars, pending, journalVars, op>>
  BY DEF Condemns, rest
<1>5. Calls'
  BY <1>1, <1>4, CallsFewer
<1>6. Alone("monitor") /\ held'["monitor"] = {}
  BY <1>1, <1>3, <1>4 DEF Condemns, Alone, Threading
<1>7. ASSUME NEW h \in Groups
      PROVE  Spares(h) /\ (state[h]' = state[h] \/ state[h]' = "Fault")
  <2>1. state[h]' = state[h] \/ state[h]' = "Fault"
    BY <1>1 DEF Condemns
  <2>2. phase' = phase /\ active' = active /\ pending' = pending /\ (Resolved(h) => Resolved(h)')
    BY <1>4 DEF robotVars, journalVars, Resolved
  <2> QED
    BY <2>1, <2>2, Sparing
<1> QED
  BY <1>3, <1>5, <1>6, <1>7, MonitorTurn

(* (a thread with nothing left has promised nothing)                        *)
LEMMA EmptyHandsKeep ==
  ASSUME NEW t \in Threads, todo[t] = << >>, NEW g
  PROVE  Keeps(t, g)
<1>1. Len(todo[t]) = 0
  OBVIOUS
<1> QED
  BY <1>1 DEF Keeps, Coming, Bad, Begun, Converging, Has

(* ... an operation's beginning ...                                         *)
LEMMA SafeBegin ==
  ASSUME Safety, Typing', NEW t \in Workers, NEW action \in asked, NEW gs \in Scopes(action),
         Begin(t, action, gs)
  PROVE  Safety'
<1>1. Threading /\ Threaded /\ Calls /\ t \in Threads
  BY DEF Safety, Typing, Threaded, Threads
<1>2. action \in Actions /\ gs \in SUBSET Groups
  BY <1>1, ThreadsBegin
<1> DEFINE s == Program(action, gs)
<1>3. s \in Seq(Plans) /\ Fresh(s) /\ \A g : Ruled(s, g)
  BY <1>2, ProgramSound DEF Script
<1>4. action = "profile" => \E h \in Groups : gs = {h}
  BY <1>2, ProgramSound
<1>5. action = "profile" => Lags(s)
  BY <1>4, ProfileLags
<1> HIDE DEF s
<1>6. op'[t] = action /\ held'[t] = gs /\ todo'[t] = s /\ todo[t] = << >>
  BY <1>1 DEF Begin, Threading, s, Fits
<1>7. UNCHANGED <<state, errors, robotVars, pending, journalVars>> /\ Alone(t)
  BY <1>1 DEF Begin, rest, Alone, Threading
<1>8. Calls'
  BY <1>1, <1>7, CallsFewer
<1>9. ASSUME NEW g \in held'[t]
      PROVE  Rule(t, g)'
  <2>1. Settles(s, g) /\ Resolves(s, g) /\ HaltsFor(s, g)
    BY <1>3 DEF Ruled
  <2>2. s # << >> => s[1].do \notin Followers
    BY <1>3, Rest DEF Fresh
  <2>3. RuleN(t, g)' /\ RuleJ(t, g)' /\ RuleT(t, g)'
    BY <1>6, <2>1 DEF RuleN, RuleJ, RuleT
  <2>4. RuleP(t, g)'
    BY <1>4, <1>5, <1>6, <1>9 DEF RuleP
  <2>5. RuleS(t, g)'
    BY <1>6, <2>2 DEF RuleS, Followers
  <2> QED
    BY <2>3, <2>4, <2>5 DEF Rule
<1>10. ASSUME NEW g \in Groups
       PROVE  Spares(g) /\ Keeps(t, g) /\ state[g]' = state[g]
  <2>1. phase' = phase /\ active' = active /\ pending' = pending /\ (Resolved(g) => Resolved(g)')
        /\ state[g]' = state[g]
    BY <1>7 DEF robotVars, journalVars, Resolved
  <2> QED
    BY <2>1, <1>1, <1>6, Sparing, EmptyHandsKeep
<1> QED
  BY <1>1, <1>7, <1>8, <1>9, <1>10, Turn

(* ... and end, ...                                                         *)
LEMMA SafeEnds ==
  ASSUME Safety, Typing', NEW t \in Threads, Ends(t)
  PROVE  Safety'
<1>1. Threading /\ Calls
  BY DEF Safety, Typing, Threaded
<1>2. UNCHANGED <<ownerVars, todo, errors, robotVars, pending, journalVars>> /\ todo[t] = << >>
  BY DEF Ends, rest
<1>3. Alone(t) /\ held'[t] = {}
  BY <1>1, <1>2 DEF Ends, Alone, Threading
<1>4. Calls'
  BY <1>1, <1>2, CallsFewer
<1>5. ASSUME NEW g \in Groups
      PROVE  Spares(g) /\ Keeps(t, g) /\ state[g]' = state[g]
  <2>1. phase' = phase /\ active' = active /\ pending' = pending /\ (Resolved(g) => Resolved(g)')
        /\ state[g]' = state[g]
    BY <1>2 DEF robotVars, journalVars, ownerVars, Resolved
  <2> QED
    BY <2>1, <1>2, Sparing, EmptyHandsKeep
<1> QED
  BY <1>3, <1>4, <1>5, Turn
(* No call of an earlier process is left to a new one: there is none, or it     *)
(* begins once there is none.                                               *)
NoOrphans == MaxCrashes = 0 \/ MaxOrphans = 0

(* ... a crash; ...                                                         *)
LEMMA SafeCrash ==
  ASSUME Safety, Typing', NoOrphans, Crash
  PROVE  Safety'
<1>1. Calls /\ crashes \in 0..MaxCrashes /\ MaxCrashes \in Nat
  BY CoordinatorAssumption DEF Safety, Typing, CoordinatorAssumption
<1>2. MaxOrphans = 0
  <2>1. crashes < MaxCrashes
    BY DEF Crash
  <2> QED
    BY <1>1, <2>1 DEF NoOrphans
<1>3. PICK sent \in SUBSET {t \in Threads : At(t, Mutations \cap Unreliable)} :
        pending' = {[c EXCEPT !.own = FALSE] : c \in pending} \cup {Call(t, FALSE) : t \in sent}
  BY DEF Crash
<1>4. IsFiniteSet(Threads)
  <2>1. IsFiniteSet(Workers)
    BY CoordinatorAssumption DEF CoordinatorAssumption
  <2>2. IsFiniteSet(Workers \cup {"monitor"})
    BY <2>1, FS_AddElement
  <2>3. IsFiniteSet((Workers \cup {"monitor"}) \cup {"owner"})
    BY <2>2, FS_AddElement
  <2>4. Threads = (Workers \cup {"monitor"}) \cup {"owner"}
    BY DEF Threads
  <2> QED
    BY <2>3, <2>4
<1>5. IsFiniteSet(sent)
  BY <1>4, FS_Subset
<1>6. IsFiniteSet({[c EXCEPT !.own = FALSE] : c \in pending})
  <2> DEFINE f == [c \in pending |-> [c EXCEPT !.own = FALSE]]
             R == {[c EXCEPT !.own = FALSE] : c \in pending}
  <2>1. f \in Surjection(pending, R)
    BY DEF Surjection
  <2> HIDE DEF f, R
  <2>2. IsFiniteSet(R)
    BY <1>1, <2>1, FS_Surjection DEF Calls
  <2> QED
    BY <2>2 DEF R
<1>7. IsFiniteSet({Call(t, FALSE) : t \in sent})
  <2> DEFINE f == [t \in sent |-> Call(t, FALSE)]
             R == {Call(t, FALSE) : t \in sent}
  <2>1. f \in Surjection(sent, R)
    BY DEF Surjection
  <2> HIDE DEF f, R
  <2>2. IsFiniteSet(R)
    BY <1>5, <2>1, FS_Surjection
  <2> QED
    BY <2>2 DEF R
<1>8. pending' = {}
  <2>1. IsFiniteSet(pending')
    BY <1>3, <1>6, <1>7, FS_Union
  <2>2. Cardinality(pending') \in Nat /\ Cardinality(pending') <= 0
    BY <1>2, <2>1, FS_CardinalityType DEF Crash
  <2>3. Cardinality(pending') = 0
    BY <2>2
  <2> QED
    BY <2>1, <2>3, FS_EmptySet
<1>9. Calls'
  BY <1>1, <1>8, CallsFewer
<1>10. held' = [t \in Threads |-> {}] /\ state' = [g \in Groups |-> "Stopped"]
       /\ UNCHANGED <<robotVars, journalVars>>
  BY DEF Crash
<1>11. Rules'
  BY <1>10 DEF Rules
<1>12. ASSUME NEW g \in Groups
       PROVE  GroupSafe(g)'
  <2>1. state'[g] = "Stopped" /\ phase' = phase /\ (~Resolved(g)' => ~Resolved(g))
    BY <1>10 DEF robotVars, journalVars, Resolved
  <2>2. ~Resolved(g) => phase[g] # "open"
    BY DEF Safety, Safes, GroupSafe, Still
  <2>3. NoRise(g)'
    BY <1>8 DEF NoRise
  <2> QED
    BY <2>1, <2>2, <2>3 DEF GroupSafe, Still
<1> QED
  BY <1>9, <1>11, <1>12 DEF Safety, Safes

(* ... and it holds at first.                                               *)
LEMMA SafetyStarts ==
  ASSUME Init
  PROVE  Safety
<1>1. Typing
  BY TypingStarts
<1>2. pending = {} /\ held = [t \in Threads |-> {}] /\ state = [g \in Groups |-> "Stopped"]
      /\ phase = [g \in Groups |-> "closed"]
  BY DEF Init
<1>3. Calls
  BY <1>2, FS_EmptySet DEF Calls
<1>4. Rules
  BY <1>2 DEF Rules
<1>5. Safes
  BY <1>2 DEF Safes, GroupSafe, Still
<1> QED
  BY <1>1, <1>3, <1>4, <1>5 DEF Safety

(* The steps that may follow step x *)
Mild(x, steps) ==
  /\ steps \in Seq(Plans) /\ On(steps, {x.on}) /\ Lacks(steps, {"switched"})
  /\ \A g : Settles(steps, g) /\ HaltsFor(steps, g) /\ (g # x.on => Resolves(steps, g))
  /\ x.do \in FaultNames \cup {"switched"} => Uses(steps, StopNames)
(* The step raises g no further than its thread may know *)
Near(t, g) ==
  /\ NoCalls(g) => NoCalls(g)'
  /\ op[t] \in Arming => (Resolved(g) => Resolved(g)')
  /\ op[t] \in Maintenance => (Still(g) /\ state[g] # "Armed" => Still(g)' /\ state[g]' # "Armed")
(* What the step has found out of g *)
Learns(t, g, steps) ==
  /\ todo[t][1].on = g => Resolved(g)' \/ Resolves(steps, g)
  /\ todo[t][1].on = g /\ todo[t][1].do \in Settling => NoCalls(g)' \/ Has(steps, g, Settling)
  /\ todo[t][1].on = g /\ todo[t][1].do \in Acknowledging => Resolved(g)' \/ Has(steps, g,
        Acknowledging)
  /\ todo[t][1].on = g /\ todo[t][1].do = "halted" /\ op[t] \in Maintenance => Still(g)'
        /\ state[g]' # "Armed"

(* The empty list may follow any step.                                      *)
LEMMA MildNothing == \A x : Mild(x, << >>)
<1> DEFINE s == << >>
<1>1. Len(s) = 0 /\ s \in Seq(Plans)
  OBVIOUS
<1> HIDE DEF s
<1>2. \A x : Mild(x, s)
  BY <1>1 DEF Mild, On, Lacks, Uses, Settles, Resolves, HaltsFor, Precedes
<1> QED
  BY <1>2 DEF s

(* The invariant's step for a thread that goes on.                          *)
LEMMA Proceeding ==
  ASSUME Safety, Typing', Calls', NEW t \in Threads, todo[t] # << >>, NEW steps, Continue(t, steps),
         Mild(todo[t][1], steps), Alone(t),
         \A g \in held[t] : RuleS(t, g)' /\ Learns(t, g, steps),
         \A g \in Groups :
           /\ todo[t][1].on = g /\ todo[t][1].do \in {"fault", "running"}
                 => state[g]' \notin {"Armed", "Halted"}
           /\ state[g]' = "Halted" => state[g] = "Halted" \/ Quiet(g)' \/ Coming(t, g)'
           /\ Spares(g) \/ (g \in held[t] /\ GroupSafe(g)' /\ Near(t, g))
  PROVE  Safety'
<1>1. Threading /\ held'[t] = held[t] /\ held[t] \subseteq Groups
  BY DEF Safety, Typing, Threaded, Threading, Continue
<1>2. \A g \in Groups : Near(t, g)
  BY DEF Spares, Near
<1>3. ASSUME NEW g \in held[t]
      PROVE  Rule(t, g)'
  <2>1. Near(t, g) /\ Learns(t, g, steps) /\ RuleS(t, g)'
    BY <1>1, <1>2
  <2>2. RuleN(t, g)' /\ RuleJ(t, g)' /\ RuleT(t, g)' /\ RuleP(t, g)'
    BY <2>1, Continuing DEF Mild, Near, Learns
  <2> QED
    BY <2>1, <2>2 DEF Rule
<1>4. ASSUME NEW g \in Groups
      PROVE  Keeps(t, g)
  BY <1>1, ContinuingKeeps DEF Mild
<1> QED
  BY <1>1, <1>3, <1>4, Turn

(* After it the thread is not within a stop.                                *)
LEMMA NextCalm ==
  ASSUME Safety, NEW t \in Threads, todo[t] # << >>, NEW steps, Continue(t, steps),
         steps \in Seq(Plans),
         Fresh(steps), todo[t][1].do \notin {"halt", "list", "release"}, NEW g
  PROVE  RuleS(t, g)'
<1>1. todo[t] \in Seq(Plans) /\ Chained(todo[t]) /\ todo \in [Threads -> Seq(Plans)]
  BY HeadFacts DEF Safety, Typing, Threaded, Threading
<1>2. todo'[t] = steps \o Tail(todo[t])
  BY <1>1 DEF Continue
<1>3. todo'[t] # << >> => todo'[t][1].do \notin Reached
  BY <1>1, <1>2, CalmNext
<1> QED
  BY <1>3 DEF RuleS, Reached
(* A failure that a stop remembers *)
LEMMA SafeRemembers ==
  ASSUME Safety, Typing', Calls', NEW t \in Threads, Fail(t), At(t, {"halt", "list", "release"}),
         \A g \in Groups : Spares(g) /\ state[g]' = state[g]
  PROVE  Safety'
<1>1. Threading /\ errors \in [Threads -> BOOLEAN] /\ todo \in [Threads -> Seq(Plans)]
      /\ op \in [Threads -> Ops] /\ held \in [Threads -> SUBSET Groups]
  BY DEF Safety, Typing, Threaded, Threading
<1>2. todo[t] # << >> /\ todo[t][1].do \in {"halt", "list", "release"}
  BY <1>1, AtHead
<1>3. errors' = [errors EXCEPT ![t] = TRUE] /\ Continue(t, << >>)
  BY DEF Fail
<1>4. Alone(t) /\ errors'[t]
  BY <1>1, <1>3 DEF Alone, Continue
<1>5. ASSUME NEW g \in held[t]
      PROVE  RuleS(t, g)' /\ Learns(t, g, << >>)
  <2>1. Learns(t, g, << >>)
    BY <1>2, NothingLeft DEF Learns, Settling, Acknowledging
  <2> QED
    BY <1>4, <2>1 DEF RuleS
<1>6. todo[t][1].do \notin {"fault", "running"}
  BY <1>2
<1> QED
  BY <1>2, <1>3, <1>4, <1>5, <1>6, MildNothing, Proceeding
(* A failure that is raised *)
LEMMA SafeRaises ==
  ASSUME Safety, Typing', Calls', NEW t \in Threads, todo[t] # << >>, Raise(t),
         todo[t][1].do \in FaultNames => todo[t][1].do = "halted" /\ state'[todo[t][1].on] = "Fault",
         \A g \in Groups :
           /\ Spares(g) \/ (g = todo[t][1].on /\ g \in held[t] /\ GroupSafe(g)')
           /\ state[g]' = state[g] \/ state[g]' = "Fault"
  PROVE  Safety'
<1>1. Threading /\ errors \in [Threads -> BOOLEAN] /\ todo \in [Threads -> Seq(Plans)]
      /\ op \in [Threads -> Ops] /\ held \in [Threads -> SUBSET Groups] /\ t \in Threads
  BY DEF Safety, Typing, Threaded, Threading
<1>2. Alone(t)
  BY <1>1 DEF Alone, Raise
<1>3. held'[t] \subseteq held[t]
  BY <1>1 DEF Raise
<1>4. ASSUME NEW g \in held'[t]
      PROVE  Rule(t, g)'
  <2>1. g \in Groups
    BY <1>1, <1>3
  <2>2. g # todo[t][1].on => Spares(g)
    BY <2>1
  <2> QED
    BY <2>2, RaisingRules
<1>5. ASSUME NEW g \in Groups
      PROVE  Keeps(t, g)
  BY RaisingKeeps
<1>6. ASSUME NEW g \in Groups, state[g]' = "Halted"
      PROVE  state[g] = "Halted"
  BY <1>6
<1> QED
  BY <1>2, <1>4, <1>5, <1>6, Turn

(* A thread that is about to raise a group knows that nothing else will. *)
LEMMA RisingHead ==
  ASSUME Safety, NEW t \in Threads, todo[t] # << >>, todo[t][1].do \in Rising, NEW g, g = todo[t][1].on
  PROVE  /\ t \in Workers /\ op[t] \in Arming /\ op[t] \notin Maintenance /\ op[t] \notin Dropping
         /\ g \in held[t] /\ g \in Groups /\ NoCalls(g) /\ Resolved(g)
         /\ op[t] = "profile" => Lacks(todo[t], {"switched"})
<1> DEFINE s == todo[t]
<1>1. Threading /\ s \in Seq(Plans) /\ 1 \in 1..Len(s) /\ held[t] \subseteq Groups /\ s # << >>
  BY HeadFacts DEF Safety, Typing, Threaded, Threading
<1>2. t \in Workers
  <2>1. s[1].do \in WorkerOnly
    BY DEF Rising, WorkerOnly, Names, Mutations, Assigned, MonitorNames, OwnerNames, StopNames
  <2> QED
    BY <1>1, <2>1, AtWorker
<1>3. op[t] \in Arming
  <2>1. Script(s, op[t], held[t])
    BY <1>1, <1>2 DEF Threading, Fits, Suits
  <2>2. ~Lacks(s, Rising \cup {"arm_unless_armed"})
    BY <1>1 DEF Lacks
  <2> QED
    BY <2>1, <2>2 DEF Script
<1>4. op[t] \notin Maintenance /\ op[t] \notin Dropping
  BY <1>3 DEF Arming, Maintenance, Dropping
<1>5. g \in held[t] /\ g \in Groups
  BY <1>1, <1>2, HeadFacts DEF Rising, Teardown
<1>6. Rule(t, g)
  BY <1>5 DEF Safety, Rules
<1>7. NoCalls(g)
  <2>1. Settles(s, g) => ~(s[1].on = g /\ s[1].do \in Rising)
    BY <1>1, RestPrecedes DEF Settles
  <2> QED
    BY <1>2, <1>6, <2>1 DEF Rule, RuleN
<1>8. Resolved(g)
  <2>1. Resolves(s, g) => ~(s[1].on = g /\ s[1].do \in Rising)
    BY <1>1, RestPrecedes DEF Resolves
  <2> QED
    BY <1>2, <1>6, <2>1 DEF Rule, RuleJ
<1>9. op[t] = "profile" => Lacks(s, {"switched"})
  <2>1. s[1].do \notin StopNames \cup {"switched"}
    BY DEF Rising, StopNames
  <2> QED
    BY <1>1, <1>2, <1>6, <2>1, LagsLacks DEF Rule, RuleP
<1> QED
  BY <1>2, <1>3, <1>4, <1>5, <1>7, <1>8, <1>9

(* What follows a start.                                                    *)
LEMMA RunningAhead ==
  ASSUME NEW s \in Seq(Plans), Chained(s), s # << >>, s[1].do \in Starters
  PROVE  Has(Tail(s), s[1].on, {"running"})
<1> DEFINE r == Tail(s)
           q == Tail(r)
<1>1. r \in Seq(Plans) /\ Chained(r) /\ Len(r) > 0 /\ r # << >> /\ Leads(s[1], r[1]) /\ 1 \in 1..Len(r)
  <2>1. r \in Seq(Plans) /\ Chained(r) /\ Len(r) > 0 /\ Leads(s[1], r[1])
    BY Rest, RestChain
  <2> HIDE DEF r
  <2> QED
    BY <2>1
<1> HIDE DEF r
<1>2. r[1].on = s[1].on /\ (s[1].do = "start" => r[1].do = "run") /\ (s[1].do = "run"
      => r[1].do = "running")
  BY <1>1 DEF Leads
<1>3. CASE s[1].do = "run"
  BY <1>1, <1>2, <1>3 DEF Has, r
<1>4. CASE s[1].do = "start"
  <2>1. r[1].do = "run" /\ r[1].do \in Starters
    BY <1>2, <1>4 DEF Starters
  <2>2. q \in Seq(Plans) /\ Len(q) > 0 /\ Leads(r[1], q[1])
    BY <1>1, <2>1, Rest, RestChain
  <2> HIDE DEF q
  <2>3. q[1].on = r[1].on /\ q[1].do = "running"
    BY <2>1, <2>2 DEF Leads
  <2>4. Has(q, s[1].on, {"running"})
    BY <1>2, <2>2, <2>3 DEF Has
  <2>5. Has(r, s[1].on, {"running"})
    BY <1>1, <2>4, RestAll DEF q
  <2> QED
    BY <2>5 DEF r
<1> QED
  BY <1>3, <1>4 DEF Starters

(* The empty list may follow any other.                                     *)
LEMMA FreshNothing == Fresh(<< >>) /\ << >> \in Seq(Plans)
<1> DEFINE s == << >>
<1>1. Len(s) = 0 /\ s \in Seq(Plans)
  OBVIOUS
<1> HIDE DEF s
<1>2. Fresh(s)
  BY <1>1 DEF Fresh
<1> QED
  BY <1>1, <1>2 DEF s

(* A call that is answered keeps the invariant, ...                         *)
LEMMA SafeAnswered ==
  ASSUME Safety, Typing', NEW t \in Threads, Answered(t)
  PROVE  Safety'
<1> DEFINE s == todo[t]
           c == s[1]
<1>1. Threading /\ Calls /\ RobotTypes /\ errors \in [Threads -> BOOLEAN]
      /\ todo \in [Threads -> Seq(Plans)]
      /\ op \in [Threads -> Ops] /\ held \in [Threads -> SUBSET Groups]
            /\ phase \in [Groups -> {"closed", "armed", "open"}]
  BY DEF Safety, Typing, Threaded, Threading, RobotTypes
<1>2. At(t, Mutations)
  BY DEF Answered
<1>3. s # << >> /\ Head(s) = c /\ c.do \in Mutations /\ Proper(c)
  BY <1>1, <1>2, AtHead, ProperHead
<1>4. Possible(c) /\ Effect(c) /\ Continue(t, << >>) /\ UNCHANGED <<ownerVars, errors, pending,
      journalVars>>
  BY <1>3 DEF Answered, rest
<1>5. s \in Seq(Plans) /\ Chained(s) /\ Tail(s) \in Seq(Plans) /\ 1 \in 1..Len(s)
  BY <1>1, <1>3, HeadFacts
<1>6. todo'[t] = Tail(s) /\ op'[t] = op[t] /\ held'[t] = held[t] /\ Alone(t)
  <2>1. << >> \o Tail(s) = Tail(s)
    BY <1>5, JoinEmpty
  <2> QED
    BY <1>1, <1>4, <2>1 DEF Continue, Alone
<1>7. Calls'
  BY <1>1, <1>4, CallsFewer
<1>8. \A g \in Groups : state[g]' = state[g] /\ (Resolved(g) => Resolved(g)') /\ (NoCalls(g)
      => NoCalls(g)')
  BY <1>4 DEF ownerVars, journalVars, Resolved, NoCalls
<1>9. ASSUME NEW g \in Groups
      PROVE  Spares(g) \/ (g \in held[t] /\ GroupSafe(g)' /\ Near(t, g))
  <2>1. CASE c.do \notin Critical \/ c.on # g
    BY <1>1, <1>3, <1>4, <1>8, <2>1, EffectLeaves, Sparing
  <2>2. CASE c.do \in Critical /\ c.on = g
    <3>1. /\ t \in Workers /\ op[t] \in Arming /\ op[t] \notin Maintenance /\ g \in held[t]
                /\ NoCalls(g) /\ Resolved(g)
          /\ op[t] = "profile" => Lacks(s, {"switched"})
      BY <1>3, <2>2, RisingHead DEF Critical, Rising
    <3>2. NoCalls(g)' /\ NoRise(g)' /\ Resolved(g)'
      BY <1>8, <3>1 DEF NoCalls, NoRise, Critical, Starters
    <3>3. CASE c.do = "arm"
      <4>1. ~ClosesAll(c)
        BY <3>3 DEF ClosesAll, Lifecycle
      <4>2. phase' = [phase EXCEPT ![g] = "armed"] /\ active' = active
        BY <1>4, <3>3, <4>1, <2>2 DEF Effect
      <4>3. phase'[g] = "armed"
        BY <1>1, <4>2
      <4>4. Still(g)'
        BY <3>2, <4>3 DEF Still
      <4> QED
        BY <1>8, <3>2, <4>2, <4>4 DEF Spares, Quiet
    <3>4. CASE c.do \in Starters
      <4>1. Has(Tail(s), g, {"running"})
        BY <1>3, <1>5, <2>2, <3>4, RunningAhead
      <4>2. op[t] = "profile" => Lacks(Tail(s), {"switched"})
        BY <1>3, <1>5, <3>1, RestAll
      <4>3. Begun(t, g)'
        BY <1>6, <3>1, <4>1, <4>2 DEF Begun
      <4>4. GroupSafe(g)'
        BY <3>2, <4>3 DEF GroupSafe, Coming
      <4>5. Near(t, g)
        BY <3>1, <3>2 DEF Near
      <4> QED
        BY <3>1, <4>4, <4>5
    <3> QED
      BY <2>2, <3>3, <3>4 DEF Critical, Starters
  <2> QED
    BY <2>1, <2>2
<1>10. ASSUME NEW g \in held[t]
       PROVE  RuleS(t, g)'
  <2>1. CASE c.do \notin {"halt", "list", "release"}
    BY <1>3, <1>4, <2>1, FreshNothing, NextCalm
  <2>2. ASSUME c.do \in {"halt", "list", "release"}, ~errors[t], Tail(s) # << >>, Tail(s)[1].on = g
        PROVE  /\ Tail(s)[1].do \in {"list", "release", "halted"} => Still(g)'
               /\ Tail(s)[1].do = "halted" => g \notin active'
    <3>1. Leads(c, Tail(s)[1])
      <4>1. Len(Tail(s)) > 0
        BY <1>5, <2>2
      <4> QED
        BY <1>3, <1>5, <4>1, RestChain
    <3>2. g \in Groups /\ c.do # "list" /\ c.do \notin Critical
      BY <1>1, <1>3, <2>2 DEF Mutations, Lifecycle, Critical
    <3>3. CASE c.do = "halt"
      <4>1. Tail(s)[1].do \notin {"halted", "release"} /\ (Tail(s)[1].do = "list" => c.on = g)
        BY <2>2, <3>1, <3>3 DEF Leads, Followers
      <4>2. SUFFICES ASSUME c.on = g
                     PROVE  Still(g)'
        BY <4>1
      <4>3. phase'[g] = "closed"
        <5>1. CASE ClosesAll(c)
          BY <1>4, <3>2, <5>1 DEF Effect
        <5>2. CASE ~ClosesAll(c)
          <6>1. phase' = [phase EXCEPT ![g] = "closed"]
            BY <1>4, <3>3, <4>2, <5>2 DEF Effect
          <6> QED
            BY <1>1, <3>2, <6>1
        <5> QED
          BY <5>1, <5>2
      <4> QED
        BY <4>3 DEF Still
    <3>4. CASE c.do = "release"
      <4>1. Tail(s)[1].do \notin {"list", "release"} /\ (Tail(s)[1].do = "halted" => c.on = g)
        BY <2>2, <3>1, <3>4 DEF Leads, Followers
      <4>2. SUFFICES ASSUME c.on = g
                     PROVE  Still(g)' /\ g \notin active'
        BY <4>1
      <4>3. Still(g)
        BY <1>3, <2>2, <3>4, <4>2 DEF Safety, Rules, Rule, RuleS
      <4>4. Spares(g)
        BY <1>1, <1>3, <1>4, <1>8, <3>2, EffectLeaves, Sparing
      <4>5. active' = active \ {g}
        BY <1>4, <3>4, <4>2 DEF Effect
      <4> QED
        BY <4>3, <4>4, <4>5 DEF Spares
    <3> QED
      BY <2>2, <3>2, <3>3, <3>4
  <2>3. errors'[t] = errors[t]
    BY <1>4
  <2> QED
    BY <1>6, <2>1, <2>2, <2>3 DEF RuleS
<1>11. \A g : Learns(t, g, << >>)
  BY <1>3, NothingLeft DEF Learns, Settling, Acknowledging, Mutations, Lifecycle
<1>12. c.do \notin {"fault", "running"}
  BY <1>3 DEF Mutations, Lifecycle
<1> QED
  BY <1>3, <1>4, <1>6, <1>7, <1>8, <1>9, <1>10, <1>11, <1>12, MildNothing, Proceeding

(* (a step that changes nothing but the thread)                             *)
LEMMA WorldSame ==
  ASSUME UNCHANGED <<ownerVars, robotVars, pending, journalVars>>, NEW g \in Groups
  PROVE  /\ Spares(g) /\ state[g]' = state[g] /\ phase' = phase /\ active' = active
         /\ (Resolved(g)' <=> Resolved(g)) /\ (NoCalls(g)' <=> NoCalls(g)) /\ (Still(g)' <=> Still(g))
<1>1. phase' = phase /\ active' = active /\ pending' = pending /\ state' = state
      /\ dirty' = dirty /\ journal' = journal
  BY DEF robotVars, journalVars, ownerVars
<1>2. (Resolved(g)' <=> Resolved(g)) /\ (NoCalls(g)' <=> NoCalls(g)) /\ (Still(g)' <=> Still(g))
  BY <1>1 DEF Resolved, NoCalls, Still, NoRise
<1> QED
  BY <1>1, <1>2, Sparing

(* ... a call or a read that fails ...                                      *)
LEMMA SafeFails ==
  ASSUME Safety, Typing', NEW t \in Threads, Refused(t) \/ ReadFails(t)
  PROVE  Safety'
<1>1. Threading /\ Calls
  BY DEF Safety, Typing, Threaded
<1>2. Fail(t) /\ UNCHANGED <<ownerVars, robotVars, pending, journalVars>> /\ At(t, Mutations \cup Reads)
  <2>1. At(t, Mutations) \/ At(t, Reads \cap Unreliable)
    BY DEF Refused, ReadFails
  <2>2. At(t, Mutations \cup Reads)
    BY <2>1 DEF At
  <2> QED
    BY <2>2 DEF Refused, ReadFails, rest
<1>3. todo[t] # << >> /\ todo[t][1].do \in Mutations \cup Reads /\ Head(todo[t]) = todo[t][1]
  BY <1>1, <1>2, AtHead
<1>4. Calls' /\ \A g \in Groups : Spares(g) /\ state[g]' = state[g]
  BY <1>1, <1>2, CallsFewer, WorldSame
<1>5. CASE At(t, {"halt", "list", "release"})
  BY <1>2, <1>4, <1>5, SafeRemembers
<1>6. CASE ~At(t, {"halt", "list", "release"})
  <2>1. Raise(t)
    BY <1>2, <1>6 DEF Fail
  <2>2. todo[t][1].do \notin FaultNames
    BY <1>3, <1>6 DEF At, FaultNames, StopNames, Mutations, Reads, Lifecycle
  <2> QED
    BY <1>3, <1>4, <2>1, <2>2, SafeRaises
<1> QED
  BY <1>5, <1>6

(* ... or times out, ...                                                    *)
LEMMA SafeTimesOut ==
  ASSUME Safety, Typing', NEW t \in Threads, TimesOut(t)
  PROVE  Safety'
<1> DEFINE c == Call(t, TRUE)
           s == todo[t]
<1>1. Threading /\ Calls
  BY DEF Safety, Typing, Threaded
<1>2. Fail(t) /\ UNCHANGED <<ownerVars, robotVars, journalVars>> /\ At(t, Mutations)
      /\ pending' = pending \cup {c}
  <2>1. At(t, Mutations \cap Unreliable)
    BY DEF TimesOut
  <2>2. At(t, Mutations)
    BY <2>1 DEF At
  <2> QED
    BY <2>2 DEF TimesOut
<1>3. s # << >> /\ s[1].do \in Mutations /\ Head(s) = s[1] /\ GroupOf(t) = s[1].on
  BY <1>1, <1>2, AtHead
<1>4. c.do = s[1].do /\ c.on = s[1].on /\ c.scope = Scope(t) /\ c.own = TRUE
  BY <1>3 DEF Call
<1>5. c.do \in Critical =>
        /\ t \in Workers /\ op[t] \in Arming /\ s[1].on \in held[t] /\ s[1].on \in Groups
        /\ NoCalls(s[1].on) /\ Resolved(s[1].on) /\ s[1].do \in Rising
  <2>1. c.do \in Critical => s[1].do \in Rising
    BY <1>4 DEF Critical, Rising
  <2> QED
    BY <1>3, <2>1, RisingHead
<1>6. c.do \in Critical => c.scope = c.on
  BY <1>3, <1>4, <1>5 DEF Scope, Arming
<1> HIDE DEF c
<1>7. Calls'
  <2>1. IsFiniteSet(pending')
    BY <1>1, <1>2, FS_AddElement DEF Calls
  <2>2. \A d \in pending' : d.own /\ (d.do \in Critical => d.scope = d.on)
    BY <1>1, <1>2, <1>4, <1>6 DEF Calls
  <2>3. c.do \in Critical => \A d \in pending : d.on = c.on => d.do \notin Critical
    BY <1>4, <1>5 DEF NoCalls
  <2>4. \A d, e \in pending' : d.do \in Critical /\ e.do \in Critical /\ d.on = e.on => d = e
    BY <1>1, <1>2, <2>3 DEF Calls
  <2> QED
    BY <2>1, <2>2, <2>4 DEF Calls
<1>8. phase' = phase /\ active' = active /\ state' = state /\ \A g : Resolved(g)' <=> Resolved(g)
  BY <1>2 DEF robotVars, ownerVars, journalVars, Resolved
<1>9. ASSUME NEW g \in Groups, c.do \notin Critical \/ c.on # g
      PROVE  Spares(g)
  <2>1. \A d \in pending' : d.on = g /\ d.do \in Critical => d \in pending
    BY <1>2, <1>9
  <2> QED
    BY <1>8, <2>1, Sparing
<1>10. CASE At(t, {"halt", "list", "release"})
  <2>1. c.do \notin Critical
    BY <1>3, <1>4, <1>10 DEF At, Critical
  <2> QED
    BY <1>2, <1>7, <1>8, <1>9, <1>10, <2>1, SafeRemembers
<1>11. CASE ~At(t, {"halt", "list", "release"})
  <2>1. Raise(t)
    BY <1>2, <1>11 DEF Fail
  <2>2. s[1].do \notin FaultNames
    BY <1>3, <1>11 DEF At, FaultNames, StopNames, Mutations, Lifecycle
  <2>3. ASSUME NEW g \in Groups, c.do \in Critical, c.on = g
        PROVE  g = s[1].on /\ g \in held[t] /\ GroupSafe(g)'
    <3>1. t \in Workers /\ op[t] \in Arming /\ g \in held[t] /\ Resolved(g)'
          /\ s[1].do \in Rising /\ g = s[1].on
      BY <1>4, <1>5, <1>8, <2>3
    <3>2. Bad(t, g)'
      BY <1>3, <2>1, <3>1, RaisingBad
    <3> QED
      BY <3>1, <3>2 DEF GroupSafe, Coming
  <2> QED
    BY <1>3, <1>7, <1>8, <1>9, <2>1, <2>2, <2>3, SafeRaises
<1> QED
  BY <1>10, <1>11

(* (a sound list without sensitive steps may follow)                        *)
LEMMA MildTame ==
  ASSUME NEW x, NEW steps, Sound(steps, {x.on}), Lacks(steps, Sensitive), Lacks(steps, {"switched"}),
         x.do \in FaultNames \cup {"switched"} => Uses(steps, StopNames)
  PROVE  Mild(x, steps) /\ \A g : Resolves(steps, g)
  BY TameParts DEF Sound, Mild
(* One that looks at the world, and goes on. *)
LEMMA Stepping ==
  ASSUME Safety, Typing', NEW t \in Threads, todo[t] # << >>, NEW steps, Continue(t, steps),
         UNCHANGED <<ownerVars, errors, robotVars, pending, journalVars>>, Mild(todo[t][1], steps),
         todo[t][1].do \notin {"fault", "running"},
         \A g \in held[t] : RuleS(t, g)' /\ Learns(t, g, steps)
  PROVE  Safety'
<1>1. Threading /\ Calls
  BY DEF Safety, Typing, Threaded
<1>2. Alone(t)
  BY <1>1 DEF Alone, Continue, Threading
<1>3. Calls'
  BY <1>1, CallsFewer
<1>4. \A g \in Groups : Spares(g) /\ state[g]' = state[g]
  BY WorldSame
<1> QED
  BY <1>2, <1>3, <1>4, Proceeding

(* ... a read, ...                                                          *)
LEMMA SafeReadsRobot ==
  ASSUME Safety, Typing', NEW t \in Threads, ReadsRobot(t)
  PROVE  Safety'
<1> DEFINE s == todo[t]
           h == s[1].on
           Here == {"list", "lingering", "verify", "ready"}
<1>1. Threading
  BY DEF Safety, Typing, Threaded
<1>2. s # << >> /\ s[1].do \in Here /\ GroupOf(t) = h /\ Head(s) = s[1]
  <2>1. At(t, Here)
    BY DEF ReadsRobot
  <2> HIDE DEF Here
  <2> QED
    BY <1>1, <2>1, AtHead
<1>3. UNCHANGED <<ownerVars, errors, robotVars, pending, journalVars>>
  BY DEF ReadsRobot, rest
<1>4. /\ \/ Continue(t, << >>) /\ (s[1].do = "list" => h \notin active)
         \/ Continue(t, Steps(<<"release">>, h)) /\ s[1].do = "list"
         \/ Continue(t, Steps(<<"release_lingering">>, h)) /\ s[1].do # "list"
  BY <1>2 DEF ReadsRobot, At
<1>5. /\ s \in Seq(Plans) /\ Chained(s) /\ h \in Groups /\ Tail(s) \in Seq(Plans)
            /\ held[t] \subseteq Groups
      /\ todo \in [Threads -> Seq(Plans)]
  <2>1. s[1].do \notin OwnerNames \cup RoundNames \cup Teardown
    BY <1>2 DEF OwnerNames, RoundNames, Teardown
  <2>2. t \in Workers \/ t = "monitor" \/ t = "owner"
    BY Apiece
  <2>3. s \in Seq(Plans) /\ Chained(s) /\ h \in Groups /\ Tail(s) \in Seq(Plans)
        /\ held[t] \subseteq Groups
    BY <1>1, <1>2, <2>1, <2>2, HeadFacts
  <2> QED
    BY <1>1, <2>3 DEF Threading
<1>6. s[1].do \notin Settling \cup Acknowledging \cup {"halted", "fault", "running"}
  BY <1>2 DEF Settling, Acknowledging
<1>7. CASE Continue(t, << >>) /\ (s[1].do = "list" => h \notin active)
  <2>1. todo'[t] = Tail(s)
    BY <1>5, <1>7, JoinEmpty DEF Continue
  <2>2. ASSUME NEW g \in held[t]
        PROVE  RuleS(t, g)'
    <3>1. CASE s[1].do # "list"
      BY <1>2, <1>7, <3>1, FreshNothing, NextCalm
    <3>2. CASE s[1].do = "list"
      <4>1. SUFFICES ASSUME ~errors[t], Tail(s) # << >>, Tail(s)[1].on = g, Tail(s)[1].do \in Reached
                     PROVE  Still(g)' /\ g \notin active'
        BY <1>3, <2>1 DEF RuleS, Reached
      <4>2. Len(Tail(s)) > 0
        BY <1>5, <4>1
      <4>3. Leads(s[1], Tail(s)[1])
        BY <1>2, <1>5, <4>2, RestChain
      <4>4. h = g
        BY <3>2, <4>1, <4>3 DEF Leads, Reached, Followers
      <4>5. Still(g) /\ g \notin active
        BY <1>2, <1>7, <3>2, <4>1, <4>4 DEF Safety, Rules, Rule, RuleS
      <4> QED
        BY <1>3, <1>5, <4>5, WorldSame
    <3> QED
      BY <3>1, <3>2
  <2>3. \A g : Learns(t, g, << >>)
    BY <1>6, NothingLeft DEF Learns
  <2> QED
    BY <1>2, <1>3, <1>6, <1>7, <2>2, <2>3, MildNothing, Stepping
<1>8. CASE Continue(t, Steps(<<"release">>, h)) /\ s[1].do = "list"
  <2> DEFINE steps == Steps(<<"release">>, h)
  <2>1. steps \in Seq(Plans) /\ On(steps, {h}) /\ Uses(steps, {"release"}) /\ Len(steps) = 1
        /\ steps[1].do = "release" /\ steps[1].on = h
    BY <1>5, ReleaseStep
  <2>2. Uses(steps, StopNames)
    BY <2>1 DEF Uses, StopNames
  <2>3. Continue(t, steps)
    BY <1>8
  <2> HIDE DEF steps
  <2>4. Lacks(steps, Sensitive) /\ Lacks(steps, {"switched"})
    BY <2>2, StopsTame
  <2>5. Mild(s[1], steps) /\ \A g : Resolves(steps, g)
    BY <2>1, <2>2, <2>4, TameParts DEF Mild
  <2>6. \A g : Learns(t, g, steps)
    BY <1>6, <2>5 DEF Learns
  <2>7. todo'[t] = steps \o Tail(s) /\ (steps \o Tail(s))[1] = steps[1]
    <3>1. 1 \in 1..Len(steps)
      BY <2>1
    <3>2. (steps \o Tail(s))[1] = steps[1]
      BY <1>5, <2>1, <3>1, JoinedPlans, ZenonT(30)
    <3>3. todo'[t] = steps \o Tail(s)
      BY <1>5, <2>3 DEF Continue
    <3> QED
      BY <3>2, <3>3
  <2>8. ASSUME NEW g \in held[t]
        PROVE  RuleS(t, g)'
    <3>1. SUFFICES ASSUME ~errors[t], h = g
                   PROVE  Still(g)'
      BY <1>3, <2>1, <2>7 DEF RuleS
    <3>2. Still(g)
      BY <1>2, <1>8, <3>1 DEF Safety, Rules, Rule, RuleS
    <3> QED
      BY <1>3, <1>5, <3>2, WorldSame
  <2> QED
    BY <1>2, <1>3, <1>6, <2>3, <2>5, <2>6, <2>8, Stepping
<1>9. CASE Continue(t, Steps(<<"release_lingering">>, h)) /\ s[1].do # "list"
  <2> DEFINE steps == Steps(<<"release_lingering">>, h)
  <2>1. "release_lingering" \in Names /\ "release_lingering" \notin Starters \cup Followers
        /\ "release_lingering" \notin Sensitive
    BY DEF Names, Mutations, Starters, Followers, Sensitive, Rising, Recording
  <2>2. Sound(steps, {h}) /\ Uses(steps, {"release_lingering"}) /\ steps \in Seq(Plans) /\ Fresh(steps)
    BY <1>5, <2>1, OneStep DEF Sound
  <2>3. Continue(t, steps)
    BY <1>9
  <2> HIDE DEF steps
  <2>4. Lacks(steps, Sensitive) /\ Lacks(steps, {"switched"})
    BY <2>1, <2>2, UsesLacks
  <2>5. s[1].do \notin FaultNames \cup {"switched"}
    BY <1>2, <1>9 DEF FaultNames, StopNames
  <2>6. Mild(s[1], steps) /\ \A g : Resolves(steps, g)
    BY <2>2, <2>4, <2>5, MildTame
  <2>7. \A g : Learns(t, g, steps)
    BY <1>6, <2>6 DEF Learns
  <2>8. \A g \in held[t] : RuleS(t, g)'
    BY <1>2, <1>9, <2>2, <2>3, NextCalm
  <2> QED
    BY <1>2, <1>3, <1>6, <2>3, <2>6, <2>7, <2>8, Stepping
<1> QED
  BY <1>4, <1>7, <1>8, <1>9

(* (so may one of steps no rule is about)                                   *)
LEMMA PlainMild ==
  ASSUME NEW x, NEW steps, Sound(steps, {x.on}), Uses(steps, Plain),
         x.do \notin FaultNames \cup {"switched"},
         Lacks(steps, {"switched"})
  PROVE  Mild(x, steps) /\ (\A g : Resolves(steps, g)) /\ Fresh(steps) /\ steps \in Seq(Plans)
<1>1. Lacks(steps, Sensitive)
  BY DEF Uses, Lacks, Plain
<1> QED
  BY <1>1, MildTame DEF Sound

(* (what the blocks do not have, and what they do)                          *)
LEMMA PlainLacks ==
  ASSUME NEW g \in Groups
  PROVE  /\ Lacks(InitGroup(g) \o Prepare(g), {"switched"}) /\ Lacks(Acknowledge(g), {"switched"})
         /\ Lacks(Arm(g), {"switched"}) /\ Lacks(Arm(g), Recording)
         /\ Lacks(Steps(<<"to_unconfigured", "to_inactive", "rebuilt">>, g), {"switched"})
         /\ Has(Acknowledge(g), g, Acknowledging) /\ Has(Arm(g), g, Settling)
<1>1. Uses(InitGroup(g), InitNames) /\ Uses(Prepare(g), PrepareNames)
      /\ InitGroup(g) \in Seq(Plans) /\ Prepare(g) \in Seq(Plans)
  BY InitGroupBlock, PrepareBlock DEF InitNames, PrepareNames
<1>2. Lacks(InitGroup(g), {"switched"}) /\ Lacks(Prepare(g), {"switched"})
  BY <1>1 DEF Uses, Lacks, InitNames, PrepareNames
<1>3. Lacks(InitGroup(g) \o Prepare(g), {"switched"})
  BY <1>1, <1>2, LacksJoin
<1>4. Lacks(Acknowledge(g), {"switched"})
  BY AcknowledgeBlock DEF Uses, Lacks
<1>5. Lacks(Arm(g), {"switched"}) /\ Lacks(Arm(g), Recording)
  BY ArmBlock DEF Uses, Lacks, Recording
<1>6. Lacks(Steps(<<"to_unconfigured", "to_inactive", "rebuilt">>, g), {"switched"})
  <2>1. Uses(Steps(<<"to_unconfigured", "to_inactive", "rebuilt">>, g), Plain) /\ "switched" \in Plain
    BY RebuildBlock
    DEF Plain, Names, Checked, Followers, Starters, Sensitive, Rising, Recording, Stopping,
        StopNames
  <2> DEFINE names == <<"to_unconfigured", "to_inactive", "rebuilt">>
  <2>2. names \in Seq(Names) /\ \A i \in 1..Len(names) : names[i] \notin {"switched"}
    BY DEF Names, Others, Assigned
  <2> HIDE DEF names
  <2>3. g \in Groups \cup {"all"}
    OBVIOUS
  <2>4. Lacks(Steps(names, g), {"switched"})
    BY <2>2, <2>3, StepsSet
  <2> QED
    BY <2>4 DEF names
<1>7. Has(Acknowledge(g), g, Acknowledging)
  BY AcknowledgeHas DEF Acknowledging
<1>8. Has(Arm(g), g, Settling)
  BY PlainBlocks DEF Has, Settling
<1> QED
  BY <1>3, <1>4, <1>5, <1>6, <1>7, <1>8

(* ... a check, ...                                                         *)
LEMMA SafeChecks ==
  ASSUME Safety, Typing', NEW t \in Threads, Checks(t)
  PROVE  Safety'
<1> DEFINE s == todo[t]
           h == s[1].on
           Here == {"if_halted", "unless_armed", "arm_unless_armed", "rebuild", "switched",
                    "may_init", "may_prepare", "may_acknowledge", "fit", "settled"}
<1>1. Threading /\ Calls
  BY DEF Safety, Typing, Threaded
<1>2. s # << >> /\ s[1].do \in Here /\ GroupOf(t) = h /\ Head(s) = s[1]
  <2>1. At(t, Here)
    BY DEF Checks
  <2> HIDE DEF Here
  <2> QED
    BY <1>1, <2>1, AtHead
<1>3. UNCHANGED <<ownerVars, robotVars, pending, journalVars>>
  BY DEF Checks, rest
<1>4. t \in Workers /\ h \in held[t] /\ h \in Groups /\ held[t] \subseteq Groups /\ s \in Seq(Plans)
  <2>1. s[1].do \in WorkerOnly /\ s[1].do \notin Teardown
    BY <1>2 DEF WorkerOnly, Names, Checked, MonitorNames, OwnerNames, StopNames, Teardown
  <2>2. t \in Workers
    BY <1>1, <1>2, <2>1, AtWorker
  <2> QED
    BY <1>1, <1>2, <2>1, <2>2, HeadFacts DEF Threading
<1>5. GroupSafe(h) /\ Rule(t, h)
  BY <1>4 DEF Safety, Safes, Rules
<1>6. s[1].do \notin FaultNames \cup {"halt", "list", "release", "halted", "fault", "running"}
  BY <1>2 DEF FaultNames, StopNames
<1>7. Calls' /\ \A g \in Groups : Spares(g) /\ state[g]' = state[g]
  BY <1>1, <1>3, CallsFewer, WorldSame
<1>8. CASE Raise(t)
  BY <1>2, <1>6, <1>7, <1>8, SafeRaises
<1>9. ASSUME NEW steps, Continue(t, steps), UNCHANGED errors, Mild(s[1], steps), Fresh(steps),
             steps \in Seq(Plans),
             Resolved(h) \/ Resolves(steps, h),
             s[1].do \in Settling => NoCalls(h) \/ Has(steps, h, Settling),
             s[1].do \in Acknowledging => Resolved(h) \/ Has(steps, h, Acknowledging)
      PROVE  Safety'
  <2>1. \A g \in Groups : (NoCalls(g) => NoCalls(g)') /\ (Resolved(g) => Resolved(g)')
    BY <1>3, WorldSame
  <2>2. ASSUME NEW g \in held[t]
        PROVE  RuleS(t, g)' /\ Learns(t, g, steps)
    <3>1. RuleS(t, g)'
      BY <1>2, <1>6, <1>9, NextCalm
    <3>2. g \in Groups
      BY <1>4
    <3>3. Learns(t, g, steps)
      <4>1. CASE g # h
        BY <4>1 DEF Learns
      <4>2. CASE g = h
        <5>1. Resolved(g) \/ Resolves(steps, g)
          BY <1>9, <4>2
        <5>2. s[1].do \in Settling => NoCalls(g) \/ Has(steps, g, Settling)
          BY <1>9, <4>2
        <5>3. s[1].do \in Acknowledging => Resolved(g) \/ Has(steps, g, Acknowledging)
          BY <1>9, <4>2
        <5> QED
          BY <1>6, <2>1, <3>2, <5>1, <5>2, <5>3 DEF Learns
      <4> QED
        BY <4>1, <4>2
    <3> QED
      BY <3>1, <3>3
  <2> QED
    BY <1>2, <1>3, <1>6, <1>9, <2>2, Stepping
<1>10. /\ Sound(InitGroup(h) \o Prepare(h), {h}) /\ Uses(InitGroup(h) \o Prepare(h), Plain)
       /\ Sound(Acknowledge(h), {h}) /\ Uses(Acknowledge(h), Plain)
       /\ Sound(Arm(h), {h}) /\ (\A g : Settles(Arm(h), g))
       /\ Sound(Steps(<<"to_unconfigured", "to_inactive", "rebuilt">>, h), {h})
       /\ Uses(Steps(<<"to_unconfigured", "to_inactive", "rebuilt">>, h), Plain)
  BY <1>4, PlainBlocks, RebuildBlock
<1>11. ~Raise(t) => UNCHANGED errors
  BY DEF Checks
<1> HIDE DEF h
<1>12. CASE ~Raise(t) /\ s[1].do = "if_halted"
  <2>1. \/ Continue(t, InitGroup(h) \o Prepare(h)) \/ Continue(t, << >>)
    BY <1>2, <1>12 DEF Checks, At
  <2>2. s[1].do \notin Settling /\ s[1].do \notin Acknowledging /\ s[1].do # "switched"
    BY <1>12 DEF Settling, Acknowledging
  <2>3. Mild(s[1], InitGroup(h) \o Prepare(h)) /\ Fresh(InitGroup(h) \o Prepare(h))
        /\ InitGroup(h) \o Prepare(h) \in Seq(Plans) /\ Resolves(InitGroup(h) \o Prepare(h), h)
    BY <1>4, <1>6, <1>10, <2>2, PlainMild, PlainLacks DEF h
  <2> QED
    BY <1>9, <1>11, <1>12, <2>1, <2>2, <2>3, MildNothing, FreshNothing, NothingLeft
<1>13. CASE ~Raise(t) /\ s[1].do = "unless_armed"
  <2>1. \/ Continue(t, Acknowledge(h)) \/ (Continue(t, << >>) /\ state[h] = "Armed")
    BY <1>2, <1>13 DEF Checks, At
  <2>2. s[1].do \notin Settling /\ s[1].do # "switched"
    BY <1>13 DEF Settling
  <2>3. Mild(s[1], Acknowledge(h)) /\ Fresh(Acknowledge(h)) /\ Acknowledge(h) \in Seq(Plans)
        /\ Resolves(Acknowledge(h), h)
        /\ Has(Acknowledge(h), h, Acknowledging)
    BY <1>4, <1>6, <1>10, <2>2, PlainMild, PlainLacks DEF h
  <2>4. state[h] = "Armed" => Resolved(h)
    BY <1>5 DEF GroupSafe
  <2> QED
    BY <1>9, <1>11, <1>13, <2>1, <2>2, <2>3, <2>4, MildNothing, FreshNothing, NothingLeft
<1>14. CASE ~Raise(t) /\ s[1].do = "arm_unless_armed"
  <2>1. \/ Continue(t, Arm(h)) \/ (Continue(t, << >>) /\ state[h] = "Armed")
    BY <1>2, <1>14 DEF Checks, At
  <2>2. s[1].do \notin Acknowledging /\ s[1].do # "switched"
    BY <1>14 DEF Acknowledging
  <2>3. Resolved(h)
    <3>1. Resolves(s, h) => ~(s[1].on = h /\ s[1].do \in Rising \cup {"arm_unless_armed"})
      BY <1>2, <1>4, RestPrecedes DEF Resolves
    <3> QED
      BY <1>4, <1>5, <1>14, <3>1 DEF Rule, RuleJ, h
  <2>4. Mild(s[1], Arm(h)) /\ Fresh(Arm(h)) /\ Arm(h) \in Seq(Plans) /\ Has(Arm(h), h, Settling)
    <3>1. Lacks(Arm(h), {"switched"}) /\ Has(Arm(h), h, Settling) /\ \A g : HaltsFor(Arm(h), g)
      BY <1>4, PlainLacks, Unrecorded
    <3>2. Arm(h) \in Seq(Plans) /\ On(Arm(h), {h}) /\ Fresh(Arm(h))
      BY <1>10 DEF Sound
    <3>3. \A g : g # h => Resolves(Arm(h), g)
      BY <3>2, AbsentRuled DEF Ruled
    <3> QED
      BY <1>6, <1>10, <2>2, <3>1, <3>2, <3>3 DEF Mild, h
  <2>5. state[h] = "Armed" => NoCalls(h)
    <3>1. SUFFICES ASSUME NEW u \in Threads, Bad(u, h)
                   PROVE  FALSE
      BY <1>5 DEF GroupSafe
    <3>2. u = t
      BY <1>1, <1>4, <3>1 DEF Bad, Threading, Disjoint
    <3>3. s[1].do \in FaultNames
      BY <1>2, <1>4, <3>1, <3>2, RestAll DEF Bad, h
    <3> QED
      BY <1>6, <3>3
  <2> QED
    BY <1>9, <1>11, <1>14, <2>1, <2>2, <2>3, <2>4, <2>5, MildNothing, FreshNothing, NothingLeft
<1>15. CASE ~Raise(t) /\ s[1].do = "rebuild"
  <2> DEFINE steps == Steps(<<"to_unconfigured", "to_inactive", "rebuilt">>, h)
  <2>1. Continue(t, steps)
    BY <1>2, <1>15 DEF Checks, At
  <2>2. s[1].do \notin Settling /\ s[1].do \notin Acknowledging /\ s[1].do # "switched"
    BY <1>15 DEF Settling, Acknowledging
  <2>3. Mild(s[1], steps) /\ Fresh(steps) /\ steps \in Seq(Plans) /\ Resolves(steps, h)
    BY <1>4, <1>6, <1>10, <2>2, PlainMild, PlainLacks DEF h
  <2> HIDE DEF steps
  <2> QED
    BY <1>9, <1>11, <1>15, <2>1, <2>2, <2>3
<1>16. CASE ~Raise(t) /\ s[1].do \notin {"if_halted", "unless_armed", "arm_unless_armed", "rebuild"}
  <2>1. Continue(t, << >>)
    BY <1>2, <1>16 DEF Checks, At
  <2>2. s[1].do \in Acknowledging => Resolved(h)
    BY <1>2, <1>16 DEF Checks, At, Acknowledging
  <2>3. s[1].do \in Settling => NoCalls(h)
    <3>1. SUFFICES ASSUME s[1].do = "settled"
                   PROVE  NoCalls(h)
      BY <1>16 DEF Settling
    <3>2. Settled(h)
      BY <1>2, <1>16, <3>1 DEF Checks, At
    <3> QED
      BY <1>1, <3>2 DEF Settled, Calls, NoCalls
  <2> QED
    BY <1>9, <1>11, <1>16, <2>1, <2>2, <2>3, MildNothing, FreshNothing, NothingLeft
<1> QED
  BY <1>8, <1>12, <1>13, <1>14, <1>15, <1>16

(* (the component's transitions)                                            *)
LEMMA PathSteps ==
  ASSUME NEW g \in Groups \cup {"all"}, NEW path,
         \/ path = << >> \/ path = <<"inactive">> \/ path = <<"inactive", "active">>
               \/ path = <<"active">>
         \/ path = <<"unconfigured">>
  PROVE  Sound(Steps(path, g), {g}) /\ Uses(Steps(path, g), Lifecycle)
<1> DEFINE s == Steps(path, g)
<1>1. path \in Seq(Names) /\ \A i \in 1..Len(path) : path[i] \in Lifecycle
  <2>1. Lifecycle \subseteq Names /\ {"inactive", "active", "unconfigured"} \subseteq Lifecycle
    BY DEF Names, Mutations, Lifecycle
  <2>2. CASE path = << >>
    BY <2>2
  <2>3. CASE path = <<"inactive">>
    BY <2>1, <2>3
  <2>4. CASE path = <<"inactive", "active">>
    BY <2>1, <2>4
  <2>5. CASE path = <<"active">>
    BY <2>1, <2>5
  <2>6. CASE path = <<"unconfigured">>
    BY <2>1, <2>6
  <2> QED
    BY <2>2, <2>3, <2>4, <2>5, <2>6
<1>2. /\ s \in Seq(Plans) /\ Len(s) = Len(path) /\ Len(path) \in Nat
      /\ \A i \in 1..Len(path) : s[i].do = path[i] /\ s[i].on = g
  BY <1>1, StepsFacts
<1> HIDE DEF s
<1>3. Uses(s, Lifecycle) /\ On(s, {g})
  BY <1>1, <1>2 DEF Uses, On
<1>4. Lifecycle \cap (Followers \cup Starters) = {}
  BY DEF Lifecycle, Followers, Starters
<1>5. Lacks(s, Followers \cup Starters)
  BY <1>3, <1>4, UsesLacks
<1> QED
  BY <1>2, <1>3, <1>5, LooseChain DEF Sound, s

(* ... a transition, ...                                                    *)
LEMMA SafeTransition ==
  ASSUME Safety, Typing', NEW t \in Threads, Transition(t)
  PROVE  Safety'
<1> DEFINE s == todo[t]
           h == s[1].on
           Here == {"to_inactive", "to_active", "to_unconfigured"}
           path ==
        CASE At(t, {"to_inactive"}) /\ component = "unconfigured" -> <<"inactive">>
          [] At(t, {"to_active"}) /\ component = "unconfigured" -> <<"inactive", "active">>
          [] At(t, {"to_active"}) /\ component = "inactive" -> <<"active">>
          [] At(t, {"to_unconfigured"}) /\ component # "unconfigured" -> <<"unconfigured">>
          [] OTHER -> <<>>
<1>1. Threading /\ Calls
  BY DEF Safety, Typing, Threaded
<1>2. s # << >> /\ s[1].do \in Here /\ GroupOf(t) = h /\ Head(s) = s[1]
  <2>1. At(t, Here)
    BY DEF Transition
  <2> HIDE DEF Here
  <2> QED
    BY <1>1, <2>1, AtHead
<1>3. UNCHANGED <<ownerVars, robotVars, pending, journalVars>>
  BY DEF Transition, rest
<1>4. /\ \/ path = << >> \/ path = <<"inactive">> \/ path = <<"inactive", "active">>
               \/ path = <<"active">>
         \/ path = <<"unconfigured">>
      /\ Raise(t) \/ (Continue(t, Steps(path, h)) /\ UNCHANGED errors)
  BY <1>2 DEF Transition
<1> HIDE DEF path
<1>5. s[1].do \notin FaultNames \cup {"halt", "list", "release", "switched", "fault", "running"}
      /\ s[1].do \notin Settling /\ s[1].do \notin Acknowledging /\ s[1].do # "halted"
  BY <1>2 DEF FaultNames, StopNames, Settling, Acknowledging
<1>6. Calls' /\ \A g \in Groups : Spares(g) /\ state[g]' = state[g]
  BY <1>1, <1>3, CallsFewer, WorldSame
<1>7. CASE Raise(t)
  BY <1>2, <1>5, <1>6, <1>7, SafeRaises
<1>8. CASE Continue(t, Steps(path, h)) /\ UNCHANGED errors
  <2> DEFINE steps == Steps(path, h)
  <2>1. h \in Groups \cup {"all"}
    <3>1. s[1] \in Plans
      BY <1>1, <1>2, HeadFacts
    <3> QED
      BY <3>1 DEF Plans
  <2>2. Sound(steps, {h}) /\ Uses(steps, Lifecycle)
    BY <1>4, <2>1, PathSteps
  <2>3. Continue(t, steps) /\ UNCHANGED errors
    BY <1>8
  <2> HIDE DEF steps
  <2>4. Lifecycle \subseteq Plain /\ "switched" \notin Lifecycle
    BY DEF Lifecycle, Plain, Names, Mutations, Followers, Starters, Sensitive, Rising,
           Recording, Stopping, StopNames
  <2>5. Uses(steps, Plain) /\ Lacks(steps, {"switched"})
    BY <2>2, <2>4 DEF Uses, Lacks
  <2>6. Mild(s[1], steps) /\ (\A g : Resolves(steps, g)) /\ Fresh(steps) /\ steps \in Seq(Plans)
    BY <1>5, <2>2, <2>5, PlainMild
  <2>7. \A g \in held[t] : RuleS(t, g)' /\ Learns(t, g, steps)
    <3>1. \A g : RuleS(t, g)'
      BY <1>2, <1>5, <2>3, <2>6, NextCalm
    <3> QED
      BY <1>5, <2>6, <3>1 DEF Learns
  <2> QED
    BY <1>2, <1>3, <1>5, <2>3, <2>6, <2>7, Stepping
<1> QED
  BY <1>4, <1>7, <1>8

(* ... the end of a rebuild, ...                                            *)
LEMMA SafeRebuilt ==
  ASSUME Safety, Typing', NEW t \in Threads, Rebuilt(t)
  PROVE  Safety'
<1> DEFINE s == todo[t]
           r == Tail(s)
           D == {x \in ToSet(r) : x.do = "rebuild"}
           w == Without(r, D)
<1>1. Threading /\ Calls
  BY DEF Safety, Typing, Threaded
<1>2. s # << >> /\ s[1].do = "rebuilt" /\ s \in Seq(Plans)
  <2>1. At(t, {"rebuilt"})
    BY DEF Rebuilt
  <2>2. s # << >> /\ s[1].do \in {"rebuilt"}
    BY <1>1, <2>1, AtHead
  <2> QED
    BY <1>1, <2>2, HeadFacts
<1>3. UNCHANGED <<ownerVars, op, held, errors, robotVars, pending, journalVars>>
  BY DEF Rebuilt, rest
<1>4. todo' = [todo EXCEPT ![t] = w] /\ todo'[t] = w /\ Alone(t)
  <2>1. todo' = [todo EXCEPT ![t] = w]
    BY DEF Rebuilt, WithoutName
  <2> HIDE DEF w
  <2> QED
    BY <1>1, <1>3, <2>1 DEF Alone, Threading
<1>5. Calls' /\ \A g \in Groups : Spares(g) /\ state[g]' = state[g] /\ (Resolved(g)' <=> Resolved(g))
                                 /\ (NoCalls(g)' <=> NoCalls(g)) /\ (Still(g)' <=> Still(g))
  BY <1>1, <1>3, CallsFewer, WorldSame
<1>6. Fresh(w) /\ w \in Seq(Plans) /\ r \in Seq(Plans) /\ held[t] \subseteq Groups
  <2>1. Suits(t, op[t], held[t], s) /\ held[t] \subseteq Groups
    BY <1>1, <1>2, HeadFacts
  <2> QED
    BY <1>2, <2>1, SuitsRebuilt DEF WithoutName
<1>7. \A x \in D : x.do = "rebuild"
  OBVIOUS
<1> HIDE DEF D, w, r
<1>8. ASSUME NEW g, NEW first, NEW then, Precedes(s, g, first, then), {"rebuild",
             "rebuilt"} \cap first = {}
      PROVE  Precedes(w, g, first, then)
  <2>1. Precedes(r, g, first, then)
    BY <1>2, <1>8, RestPrecedes DEF r
  <2> QED
    BY <1>6, <1>7, <1>8, <2>1, WithoutPrecedes DEF w
<1>9. ASSUME NEW g, NEW name, Has(s, g, {name}), name \notin {"rebuild", "rebuilt"}
      PROVE  Has(w, g, {name})
  <2>1. Has(r, g, {name})
    BY <1>2, <1>9, RestAll DEF r
  <2> QED
    BY <1>6, <1>7, <1>9, <2>1, WithoutAll DEF w
<1>10. \A g, names : Only(s, g, names) => Only(w, g, names)
  BY <1>2, <1>6, RestAll, WithoutAll DEF r, w
<1>11. \A names : Lacks(s, names) => Lacks(w, names)
  BY <1>2, <1>6, RestAll, WithoutAll DEF r, w
<1> HIDE DEF s
<1>12. \A g : /\ Settles(s, g) => Settles(w, g) 
              /\ Resolves(s, g) => Resolves(w, g)
              /\ HaltsFor(s, g) => HaltsFor(w, g)
  <2>1. {"rebuild", "rebuilt"} \cap {"settled", "arm_unless_armed"} = {}
        /\ {"rebuild", "rebuilt"} \cap {"may_acknowledge", "unless_armed"} = {}
        /\ {"rebuild", "rebuilt"} \cap {"halted"} = {}
    OBVIOUS
  <2>2. \A g : Settles(s, g) => Settles(w, g)
    BY <1>8, <2>1 DEF Settles
  <2>3. \A g : Resolves(s, g) => Resolves(w, g)
    BY <1>8, <2>1 DEF Resolves
  <2>4. \A g : HaltsFor(s, g) => HaltsFor(w, g)
    BY <1>8, <2>1 DEF HaltsFor
  <2> QED
    BY <2>2, <2>3, <2>4
<1>13. Lags(s) => Lags(w)
  <2>1. "rebuilt" \notin StopNames \cup {"switched"}
    BY DEF StopNames
  <2> QED
    BY <1>2, <1>11, <2>1, LagsLacks, LacksLags
<1>14. ASSUME NEW g \in held'[t]
       PROVE  Rule(t, g)'
  <2>1. g \in held[t] /\ g \in Groups
    BY <1>3, <1>6
  <2>2. Rule(t, g)
    BY <2>1 DEF Safety, Rules
  <2>3. w # << >> => w[1].do \notin {"list", "release", "halted"}
    <3>1. w # << >> => Len(w) > 0
      BY <1>6
    <3> QED
      BY <1>6, <3>1 DEF Fresh, Followers
  <2>4. RuleS(t, g)'
    BY <1>4, <2>3 DEF RuleS
  <2>5. RuleN(t, g)' /\ RuleJ(t, g)'
    BY <1>4, <1>5, <1>12, <2>1, <2>2 DEF Rule, RuleN, RuleJ, s
  <2>6. RuleT(t, g)'
    BY <1>4, <1>5, <1>12, <2>1, <2>2 DEF Rule, RuleT, s
  <2>7. RuleP(t, g)'
    BY <1>3, <1>4, <1>13, <2>2 DEF Rule, RuleP, s
  <2> QED
    BY <2>4, <2>5, <2>6, <2>7 DEF Rule
<1>15. ASSUME NEW g \in Groups
       PROVE  Keeps(t, g)
  <2>1. Bad(t, g) => Bad(t, g)'
    BY <1>3, <1>4, <1>9, <1>10 DEF Bad, s
  <2>2. Begun(t, g) => Begun(t, g)'
    BY <1>3, <1>4, <1>9, <1>11 DEF Begun, s
  <2>3. Converging(t, g) => Converging(t, g)'
    BY <1>3, <1>4, <1>9 DEF Converging, s
  <2> QED
    BY <2>1, <2>2, <2>3 DEF Keeps, Coming
<1>16. \A g \in Groups : /\ Keeps(t, g) /\ Spares(g)
                         /\ state[g]' = "Halted" => state[g] = "Halted" \/ Quiet(g)' \/ Coming(t, g)'
  BY <1>5, <1>15
<1> QED
  BY <1>4, <1>5, <1>14, <1>16, Turn

(* (a step that changes only the coordinator's own state)                   *)
LEMMA RobotSame ==
  ASSUME UNCHANGED <<robotVars, pending, journalVars>>, NEW g \in Groups
  PROVE  /\ (Resolved(g)' <=> Resolved(g)) /\ (NoCalls(g)' <=> NoCalls(g)) /\ (Still(g)' <=> Still(g))
         /\ (Quiet(g)' <=> Quiet(g)) /\ phase' = phase /\ active' = active
         /\ (state[g] # "Armed" => state[g]' # "Armed") => Spares(g)
<1>1. phase' = phase /\ active' = active /\ pending' = pending /\ journal' = journal /\ dirty' = dirty
  BY DEF robotVars, journalVars
<1>2. (Resolved(g)' <=> Resolved(g)) /\ (NoCalls(g)' <=> NoCalls(g))
  BY <1>1 DEF Resolved, NoCalls
<1>3. (Still(g)' <=> Still(g)) /\ (Quiet(g)' <=> Quiet(g))
  BY <1>1 DEF Still, Quiet, NoRise
<1> QED
  BY <1>1, <1>2, <1>3 DEF Spares

(* ... an assignment, ...                                                   *)
LEMMA SafeAssigns ==
  ASSUME Safety, Typing', NEW t \in Threads, Assigns(t)
  PROVE  Safety'
<1> DEFINE s == todo[t]
           h == s[1].on
           Here == {"initialized", "armed", "running", "stopped", "fault"}
<1>1. Threading /\ Calls /\ state \in [Groups -> States]
  BY DEF Safety, Typing, Threaded, OwnerTypes
<1>2. s # << >> /\ s[1].do \in Here /\ GroupOf(t) = h /\ Head(s) = s[1]
  <2>1. At(t, Here)
    BY DEF Assigns
  <2> HIDE DEF Here
  <2> QED
    BY <1>1, <2>1, AtHead
<1>3. /\ state' = [state EXCEPT ![h] = StateAfter(s[1].do)] /\ Continue(t, << >>)
      /\ UNCHANGED <<errors, robotVars, pending, journalVars>>
  BY <1>2 DEF Assigns, rest
<1>4. s[1].do \notin Settling \cup Acknowledging \cup {"halted", "halt", "list", "release"}
  BY <1>2 DEF Settling, Acknowledging
<1>5. Calls' /\ Alone(t)
  BY <1>1, <1>3, CallsFewer DEF Alone, Continue, Threading
<1>6. \A g : RuleS(t, g)' /\ Learns(t, g, << >>)
  <2>1. \A g : RuleS(t, g)'
    BY <1>2, <1>3, <1>4, FreshNothing, NextCalm
  <2> QED
    BY <1>4, <2>1, NothingLeft DEF Learns
<1>7. ASSUME NEW g \in Groups
      PROVE  /\ state[g]' = state[g] \/ (h = g /\ state[g]' = StateAfter(s[1].do))
             /\ h = g => state[g]' = StateAfter(s[1].do)
  BY <1>1, <1>3
<1> HIDE DEF h
<1>8. ASSUME NEW g \in Groups
      PROVE  /\ h = g /\ s[1].do \in {"fault", "running"} => state[g]' \notin {"Armed", "Halted"}
             /\ state[g]' = "Halted" => state[g] = "Halted"
             /\ state[g]' = "Armed" => state[g] = "Armed" \/ (h = g /\ s[1].do = "armed")
  <2>1. /\ s[1].do \in {"fault", "running"} => StateAfter(s[1].do) \notin {"Armed", "Halted"}
        /\ StateAfter(s[1].do) # "Halted" /\ (s[1].do # "armed" => StateAfter(s[1].do) # "Armed")
    BY <1>2 DEF StateAfter
  <2> QED
    BY <1>7, <2>1
<1>9. ASSUME NEW g \in Groups
      PROVE  Spares(g) \/ (g \in held[t] /\ GroupSafe(g)' /\ Near(t, g))
  <2>1. CASE state[g]' = "Armed" => state[g] = "Armed"
    BY <1>3, <2>1, RobotSame
  <2>2. CASE h = g /\ s[1].do = "armed"
    <3>1. op[t] \notin Maintenance /\ g \in held[t] /\ NoCalls(g) /\ Resolved(g)
      BY <1>2, <2>2, RisingHead DEF Rising, h
    <3>2. NoCalls(g)' /\ Resolved(g)'
      BY <1>3, <3>1, RobotSame
    <3>3. state[g]' # "Halted"
      BY <1>7, <2>2 DEF StateAfter
    <3> QED
      BY <3>1, <3>2, <3>3 DEF GroupSafe, Near
  <2> QED
    BY <1>8, <2>1, <2>2
<1> QED
  BY <1>2, <1>3, <1>5, <1>6, <1>8, <1>9, MildNothing, Proceeding DEF h

(* ... the beginning of a stop, ...                                         *)
LEMMA SafeBumps ==
  ASSUME Safety, Typing', NEW t \in Threads, Bumps(t)
  PROVE  Safety'
<1> DEFINE s == todo[t]
<1>1. Threading /\ Calls /\ errors \in [Threads -> BOOLEAN]
  BY DEF Safety, Typing, Threaded, Threading
<1>2. s # << >> /\ s[1].do = "bump"
  <2>1. At(t, {"bump"})
    BY DEF Bumps
  <2>2. s # << >> /\ s[1].do \in {"bump"}
    BY <1>1, <2>1, AtHead
  <2> QED
    BY <2>2
<1>3. /\ Continue(t, << >>) /\ UNCHANGED <<state, robotVars, pending, journalVars>>
      /\ errors' = [errors EXCEPT ![t] = FALSE]
  BY DEF Bumps, rest
<1>4. s[1].do \notin Settling \cup Acknowledging \cup {"halted", "halt", "list", "release",
      "fault", "running"}
  BY <1>2 DEF Settling, Acknowledging
<1>5. Calls' /\ Alone(t)
  BY <1>1, <1>3, CallsFewer DEF Alone, Continue, Threading
<1>6. \A g : RuleS(t, g)' /\ Learns(t, g, << >>)
  <2>1. \A g : RuleS(t, g)'
    BY <1>2, <1>3, <1>4, FreshNothing, NextCalm
  <2> QED
    BY <1>4, <2>1, NothingLeft DEF Learns
<1>7. \A g \in Groups : Spares(g) /\ state[g]' = state[g]
  BY <1>3, RobotSame
<1> HIDE DEF s
<1> QED
  BY <1>2, <1>3, <1>4, <1>5, <1>6, <1>7, MildNothing, Proceeding DEF s

(* ... the end of a transaction, ...                                        *)
LEMMA SafeCloses ==
  ASSUME Safety, Typing', NEW t \in Threads, Closes(t)
  PROVE  Safety'
<1> DEFINE s == todo[t]
           h == s[1].on
<1>1. Threading /\ Calls /\ Threaded
  BY DEF Safety, Typing, Threaded
<1>2. s # << >> /\ s[1].do \in {"close", "roll_back"} /\ GroupOf(t) = h
  <2>1. At(t, {"close", "roll_back"})
    BY DEF Closes
  <2> QED
    BY <1>1, <2>1, AtHead
<1>3. Continue(t, << >>) /\ UNCHANGED <<ownerVars, state, errors, robotVars, pending, journal>>
  BY DEF Closes, ownerVars
<1>4. s[1].do \notin Settling \cup Acknowledging \cup {"halted", "halt", "list", "release",
      "fault", "running"}
  BY <1>2 DEF Settling, Acknowledging
<1>5. Calls' /\ Alone(t)
  BY <1>1, <1>3, CallsFewer DEF Alone, Continue, Threading
<1>6. \A g : RuleS(t, g)' /\ Learns(t, g, << >>)
  <2>1. \A g : RuleS(t, g)'
    BY <1>2, <1>3, <1>4, FreshNothing, NextCalm
  <2> QED
    BY <1>4, <2>1, NothingLeft DEF Learns
<1>7. journal = h
  BY <1>1, <1>2, ThreadsCloses DEF Resolved
<1> HIDE DEF h
<1>8. ASSUME NEW g \in Groups
      PROVE  Spares(g) /\ state[g]' = state[g]
  <2>1. phase'[g] = phase[g] /\ active' = active /\ pending' = pending /\ state[g]' = state[g]
        /\ journal' = journal
    BY <1>3 DEF robotVars
  <2>2. ~Resolved(h)
    BY <1>1, <1>2, ThreadsCloses DEF h
  <2>3. Resolved(g) => Resolved(g)'
    BY <1>7, <2>1, <2>2 DEF Resolved
  <2> QED
    BY <2>1, <2>3, Sparing
<1> HIDE DEF s
<1> QED
  BY <1>2, <1>3, <1>4, <1>5, <1>6, <1>8, MildNothing, Proceeding DEF s

(* ... and of maintenance, ...                                              *)
LEMMA SafeConcludes ==
  ASSUME Safety, Typing', NEW t \in Threads, Concludes(t)
  PROVE  Safety'
<1> DEFINE s == todo[t]
           h == s[1].on
           lock == Steps(<<"maintenance_lock">>, h)
<1>1. Threading /\ Calls /\ state \in [Groups -> States]
  BY DEF Safety, Typing, Threaded, OwnerTypes
<1>2. s # << >> /\ s[1].do = "maintained" /\ GroupOf(t) = h
  <2>1. At(t, {"maintained"})
    BY DEF Concludes
  <2>2. s # << >> /\ s[1].do \in {"maintained"} /\ GroupOf(t) = h
    BY <1>1, <2>1, AtHead
  <2> QED
    BY <2>2
<1>3. /\ \E v \in {"Initialized", "Fault"} : state' = [state EXCEPT ![h] = v]
      /\ Continue(t, << >>) \/ Continue(t, lock)
      /\ UNCHANGED <<errors, robotVars, pending, journalVars>>
  BY <1>2 DEF Concludes, rest
<1>4. s[1].do \notin Settling \cup Acknowledging \cup FaultNames
                      \cup {"halted", "halt", "list", "release", "fault", "running", "switched"}
  BY <1>2 DEF Settling, Acknowledging, FaultNames, StopNames
<1>5. Calls' /\ Alone(t)
  BY <1>1, <1>3, CallsFewer DEF Alone, Continue, Threading
<1>6. h \in Groups
  <2>1. s[1].do \in WorkerOnly /\ s[1].do \notin Teardown
    BY <1>2 DEF WorkerOnly, Names, Assigned, MonitorNames, OwnerNames, StopNames, Teardown
  <2> QED
    BY <1>1, <1>2, <2>1, AtWorker, HeadFacts
<1>7. Mild(s[1], lock) /\ (\A g : Resolves(lock, g)) /\ Fresh(lock) /\ lock \in Seq(Plans)
  <2>1. "maintenance_lock" \in Plain
    BY DEF Plain, Names, Mutations, Followers, Starters, Sensitive, Rising, Recording, Stopping,
           StopNames
  <2>2. Sound(lock, {h}) /\ Uses(lock, Plain)
    BY <1>6, <2>1, PlainStep
  <2>3. Lacks(lock, {"switched"})
    <3>1. "maintenance_lock" \in Names /\ "maintenance_lock" \notin Starters
      BY DEF Names, Mutations, Starters
    <3> HIDE DEF lock
    <3>2. Uses(lock, {"maintenance_lock"})
      BY <1>6, <3>1, OneStep DEF lock
    <3> QED
      BY <3>2 DEF Uses, Lacks
  <2> HIDE DEF lock
  <2> QED
    BY <1>4, <2>2, <2>3, PlainMild
<1> HIDE DEF lock
<1>8. ASSUME NEW g \in Groups
      PROVE  Spares(g) /\ (state[g]' = state[g] \/ state[g]' \in {"Initialized", "Fault"})
  <2>1. state[g]' = state[g] \/ state[g]' \in {"Initialized", "Fault"}
    BY <1>1, <1>3
  <2>2. state[g] # "Armed" => state[g]' # "Armed"
    BY <2>1
  <2> QED
    BY <1>3, <2>1, <2>2, RobotSame
<1>9. ASSUME NEW steps, Continue(t, steps), Mild(s[1], steps), Fresh(steps), steps \in Seq(Plans),
             \A g : Resolves(steps, g)
      PROVE  Safety'
  <2>1. \A g : RuleS(t, g)'
    BY <1>2, <1>4, <1>9, NextCalm
  <2>2. \A g : RuleS(t, g)' /\ Learns(t, g, steps)
    BY <1>4, <1>9, <2>1 DEF Learns
  <2> HIDE DEF s
  <2>3. \A g \in Groups : /\ Spares(g)
                          /\ state[g]' = "Halted" => state[g] = "Halted"
    BY <1>8
  <2> QED
    BY <1>2, <1>4, <1>5, <1>9, <2>2, <2>3, Proceeding DEF s
<1> QED
  BY <1>3, <1>7, <1>9, MildNothing, FreshNothing, NothingLeft

(* ... the journal's record ...                                             *)
LEMMA SafeRecords ==
  ASSUME Safety, Typing', NEW t \in Threads, Records(t)
  PROVE  Safety'
<1> DEFINE s == todo[t]
           h == s[1].on
<1>1. Threading /\ Calls
  BY DEF Safety, Typing, Threaded
<1>2. s # << >> /\ s[1].do = "transact" /\ GroupOf(t) = h
  <2>1. At(t, {"transact"})
    BY DEF Records
  <2>2. s # << >> /\ s[1].do \in {"transact"} /\ GroupOf(t) = h
    BY <1>1, <2>1, AtHead
  <2> QED
    BY <2>2
<1>3. /\ UNCHANGED <<ownerVars, robotVars, pending>>
      /\ \/ Raise(t) /\ UNCHANGED journalVars
         \/ journal' = h /\ dirty' = TRUE /\ Continue(t, << >>) /\ UNCHANGED errors
  BY <1>2 DEF Records
<1>4. s[1].do \notin Settling \cup Acknowledging \cup FaultNames
                      \cup {"halted", "halt", "list", "release", "fault", "running"}
  BY <1>2 DEF Settling, Acknowledging, FaultNames, StopNames
<1>5. Calls'
  BY <1>1, <1>3, CallsFewer
<1>6. /\ t \in Workers /\ h \in held[t] /\ h \in Groups /\ s \in Seq(Plans) /\ 1 \in 1..Len(s)
      /\ op[t] \in Maintenance /\ op[t] \notin Arming
  <2>1. s[1].do \in WorkerOnly /\ s[1].do \notin Teardown /\ s[1].do \in Recording
    BY <1>2
    DEF WorkerOnly, Names, Assigned, MonitorNames, OwnerNames, StopNames, Teardown, Recording
  <2>2. t \in Workers
    BY <1>1, <1>2, <2>1, AtWorker
  <2>3. /\ h \in held[t] /\ h \in Groups /\ s \in Seq(Plans) /\ 1 \in 1..Len(s) /\ Script(s,
              op[t], held[t])
    BY <1>1, <1>2, <2>1, <2>2, HeadFacts DEF Suits
  <2>4. op[t] \in Maintenance
    BY <2>1, <2>3 DEF Script, Lacks
  <2>5. op[t] \notin Arming
    BY <2>4 DEF Maintenance, Arming
  <2> QED
    BY <2>2, <2>3, <2>4, <2>5
<1>7. CASE Raise(t) /\ UNCHANGED journalVars
  <2>1. \A g \in Groups : Spares(g) /\ state[g]' = state[g]
    BY <1>3, <1>7, WorldSame
  <2> QED
    BY <1>2, <1>4, <1>5, <1>7, <2>1, SafeRaises
<1>8. CASE journal' = h /\ dirty' = TRUE /\ Continue(t, << >>) /\ UNCHANGED errors
  <2>1. Alone(t)
    BY <1>1, <1>8 DEF Alone, Continue, Threading
  <2>2. \A g : RuleS(t, g)' /\ Learns(t, g, << >>)
    <3>1. \A g : RuleS(t, g)'
      BY <1>2, <1>4, <1>8, FreshNothing, NextCalm
    <3> QED
      BY <1>4, <3>1, NothingLeft DEF Learns
  <2>3. Still(h) /\ state[h] # "Armed"
    <3>1. RuleT(t, h)
      BY <1>6 DEF Safety, Rules, Rule
    <3>2. HaltsFor(s, h) => ~(s[1].on = h /\ s[1].do \in {"transact"})
      BY <1>2, <1>6, RestPrecedes DEF HaltsFor
    <3> QED
      BY <1>2, <1>6, <3>1, <3>2 DEF RuleT
  <2>4. ASSUME NEW k \in Groups, k = h
        PROVE  GroupSafe(k)' /\ Near(t, k)
    <3>1. Keeps(t, k)
      BY <1>1, <1>2, <1>4, <1>6, <1>8, MildNothing, ContinuingKeeps DEF Mild
    <3>2. GroupSafe(k) /\ Still(k) /\ state[k] # "Armed"
      BY <1>6, <2>3, <2>4 DEF Safety, Safes
    <3>3. state' = state /\ phase' = phase /\ active' = active /\ pending' = pending
      BY <1>3 DEF ownerVars, robotVars
    <3>4. (Still(k)' <=> Still(k)) /\ (NoCalls(k) => NoCalls(k)')
      BY <3>3 DEF Still, NoRise, NoCalls
    <3>5. Quiet(k)' <=> Quiet(k)
      BY <3>3, <3>4 DEF Quiet
    <3>6. ASSUME state[k] = "Halted"
          PROVE  Quiet(k)' \/ \E u \in Threads : Coming(u, k)'
      <4>1. CASE Quiet(k)
        BY <3>5, <4>1
      <4>2. ASSUME NEW u \in Threads, Coming(u, k)
            PROVE  Coming(u, k)'
        <5>1. CASE u = t
          BY <3>1, <3>3, <3>6, <4>2, <5>1 DEF Keeps
        <5>2. CASE u # t
          BY <2>1, <4>2, <5>2, OthersKeep
        <5> QED
          BY <5>1, <5>2
      <4> QED
        BY <3>2, <3>6, <4>1, <4>2 DEF GroupSafe
    <3>7. GroupSafe(k)'
      BY <3>2, <3>3, <3>4, <3>6 DEF GroupSafe
    <3> QED
      BY <1>6, <3>2, <3>3, <3>4, <3>7 DEF Near
  <2>5. ASSUME NEW g \in Groups
         PROVE  /\ Spares(g) \/ (g \in held[t] /\ GroupSafe(g)' /\ Near(t, g))
                /\ state[g]' = state[g]
    <3>1. state' = state /\ phase' = phase /\ active' = active /\ pending' = pending
      BY <1>3 DEF ownerVars, robotVars
    <3>2. CASE g = h
      BY <1>6, <2>4, <3>1, <3>2
    <3>3. CASE g # h
      <4>1. Resolved(g)'
        BY <1>8, <3>3 DEF Resolved
      <4> QED
        BY <3>1, <4>1, Sparing
    <3> QED
      BY <3>2, <3>3
  <2> HIDE DEF s
  <2> QED
    BY <1>2, <1>4, <1>5, <1>8, <2>1, <2>2, <2>5, MildNothing, Proceeding DEF s
<1> QED
  BY <1>3, <1>7, <1>8

(* ... and the end of a stop.                                               *)
LEMMA SafeHalted ==
  ASSUME Safety, Typing', NEW t \in Threads, Halted(t)
  PROVE  Safety'
<1> DEFINE s == todo[t]
           h == s[1].on
           swallowed == Len(s) > 1 /\ s[2].do = "fault"
<1>1. Threading /\ Calls /\ state \in [Groups -> States] /\ errors \in [Threads -> BOOLEAN]
  BY DEF Safety, Typing, Threaded, Threading, OwnerTypes
<1>2. s # << >> /\ s[1].do = "halted" /\ GroupOf(t) = h
  <2>1. At(t, {"halted"})
    BY DEF Halted
  <2>2. s # << >> /\ s[1].do \in {"halted"} /\ GroupOf(t) = h
    BY <1>1, <2>1, AtHead
  <2> QED
    BY <2>2
<1>3. /\ UNCHANGED <<robotVars, pending, journalVars>>
      /\ state' = [state EXCEPT ![h] = IF errors[t] THEN "Fault" ELSE "Halted"]
      /\ \/ errors[t] /\ ~swallowed /\ Raise(t)
         \/ (~errors[t] \/ swallowed) /\ Continue(t, << >>) /\ errors' = [errors EXCEPT ![t] = FALSE]
  BY <1>2 DEF Halted, StateAfterStop, rest
<1>4. /\ s \in Seq(Plans) /\ 1 \in 1..Len(s) /\ h \in Groups /\ Suits(t, op[t], held[t], s)
      /\ t \in Workers => h \in held[t]
      /\ t \in Workers \/ t = "monitor"
  <2>1. s[1].do \notin Teardown \cup OwnerNames \cup RoundNames
    BY <1>2 DEF Teardown, OwnerNames, RoundNames
  <2>2. t \in Workers \/ t = "monitor" \/ t = "owner"
    BY Apiece
  <2> QED
    BY <1>1, <1>2, <2>1, <2>2, HeadFacts
<1>5. s[1].do \notin Settling \cup Acknowledging \cup {"halt", "list", "release", "fault", "running"}
  BY <1>2 DEF Settling, Acknowledging
<1>6. Calls'
  BY <1>1, <1>3, CallsFewer
<1> HIDE DEF swallowed
<1>7. ASSUME NEW g \in Groups
      PROVE  /\ Spares(g) /\ (Still(g)' <=> Still(g)) /\ (Quiet(g)' <=> Quiet(g))
             /\ state[g]' = state[g] \/ (h = g /\ state[g]' = IF errors[t] THEN "Fault" ELSE "Halted")
             /\ h = g => state[g]' = IF errors[t] THEN "Fault" ELSE "Halted"
  <2>1. /\ state[g]' = state[g] \/ (h = g /\ state[g]' = IF errors[t] THEN "Fault" ELSE "Halted")
        /\ h = g => state[g]' = IF errors[t] THEN "Fault" ELSE "Halted"
    BY <1>1, <1>3
  <2> QED
    BY <1>3, <2>1, RobotSame
<1>8. CASE errors[t] /\ Raise(t)
  <2>1. state'[h] = "Fault"
    BY <1>1, <1>3, <1>4, <1>8
  <2>2. \A g \in Groups : Spares(g) /\ (state[g]' = state[g] \/ state[g]' = "Fault")
    BY <1>7, <1>8
  <2> QED
    BY <1>2, <1>6, <1>8, <2>1, <2>2, SafeRaises
<1>9. CASE (~errors[t] \/ swallowed) /\ Continue(t, << >>) /\ errors' = [errors EXCEPT ![t] = FALSE]
  <2>1. Alone(t)
    BY <1>1, <1>9 DEF Alone, Continue, Threading
  <2>2. \A g : RuleS(t, g)'
    BY <1>2, <1>5, <1>9, FreshNothing, NextCalm
  <2>3. ~errors[t] /\ h \in held[t] => Still(h) /\ h \notin active
    <3>1. SUFFICES ASSUME ~errors[t], h \in held[t]
                   PROVE  Still(h) /\ h \notin active
      OBVIOUS
    <3>2. RuleS(t, h)
      BY <3>1 DEF Safety, Rules, Rule
    <3> QED
      BY <1>2, <3>1, <3>2 DEF RuleS
  <2>4. op[t] \in Maintenance => ~swallowed /\ t \in Workers
    <3>1. SUFFICES ASSUME op[t] \in Maintenance
                   PROVE  ~swallowed /\ t \in Workers
      OBVIOUS
    <3>2. t \in Workers
      <4>1. t = "monitor" => op[t] \in {"", "monitor", "converge"}
        BY <1>1, <1>2, HeadFacts DEF Role
      <4> QED
        BY <1>4, <3>1, <4>1 DEF Maintenance
    <3>3. Lacks(s, {"fault"})
      BY <1>4, <3>1, <3>2 DEF Suits, Script, Dropping
    <3> QED
      BY <1>4, <3>2, <3>3 DEF Lacks, swallowed
  <2>5. ASSUME t = "monitor", op[t] = "converge", NEW g, g = h
        PROVE  Converging(t, g)'
    <3>1. Faulted(s)
      BY <1>4, <2>5 DEF Suits, Watch
    <3>2. Has(s, g, {"fault"})
      BY <1>2, <1>4, <2>5, <3>1 DEF Faulted, Has, StopNames
    <3>3. Has(Tail(s), g, {"fault"})
      BY <1>2, <1>4, <3>2, RestAll
    <3>4. todo'[t] = Tail(s) /\ op'[t] = op[t]
      <4>1. Tail(s) \in Seq(Plans)
        BY <1>1, <1>2, HeadFacts
      <4> QED
        BY <1>1, <1>9, <4>1, JoinEmpty DEF Continue, Threading
    <3> QED
      BY <2>5, <3>3, <3>4 DEF Converging
  <2>6. t = "monitor" /\ op[t] # "converge" => h \in held[t]
    <3>1. SUFFICES ASSUME t = "monitor", op[t] # "converge"
                   PROVE  h \in held[t]
      OBVIOUS
    <3>2. op[t] = "monitor"
      BY <1>1, <1>2, <3>1, HeadFacts, Apiece DEF Role
    <3>3. Guarded(s, held[t])
      BY <1>1, <3>1, <3>2 DEF Threading, Fits
    <3> QED
      BY <1>2, <1>4, <3>3 DEF Guarded, Stopping, StopNames
  <2>7. ~errors[t] => Quiet(h) \/ (t = "monitor" /\ op[t] = "converge")
    BY <1>4, <2>3, <2>6 DEF Quiet
  <2> HIDE DEF h
  <2>8. ASSUME NEW g \in Groups
        PROVE  state[g]' = "Halted" => state[g] = "Halted" \/ Quiet(g)' \/ Coming(t, g)'
    <3>1. SUFFICES ASSUME h = g, ~errors[t]
                   PROVE  Quiet(g)' \/ Coming(t, g)'
      BY <1>7
    <3>2. CASE Quiet(h)
      BY <1>7, <3>1, <3>2
    <3>3. CASE t = "monitor" /\ op[t] = "converge"
      BY <2>5, <3>1, <3>3 DEF Coming
    <3> QED
      BY <2>7, <3>1, <3>2, <3>3
  <2>9. ASSUME NEW g \in held[t]
        PROVE  RuleS(t, g)' /\ Learns(t, g, << >>)
    <3>1. g \in Groups
      BY <1>1 DEF Threading
    <3>2. h = g /\ op[t] \in Maintenance => Still(g)' /\ state[g]' # "Armed"
      BY <1>7, <1>9, <2>3, <2>4, <2>9, <3>1
    <3> QED
      BY <1>5, <2>2, <3>2, NothingLeft DEF Learns, h
  <2> HIDE DEF s
  <2> QED
    BY <1>2, <1>5, <1>6, <1>7, <1>9, <2>1, <2>8, <2>9, MildNothing, Proceeding DEF s
<1> QED
  BY <1>3, <1>8, <1>9

-----------------------------------------------------------------------------
(* What holds always.                                                       *)

(* Every step of a thread keeps it, ...                                     *)
LEMMA SafeWorks ==
  ASSUME Safety, Typing', NEW t \in Threads, Works(t)
  PROVE  Safety'
<1>1. CASE Answered(t)
  BY <1>1, SafeAnswered
<1>2. CASE Refused(t) \/ ReadFails(t)
  BY <1>2, SafeFails
<1>3. CASE TimesOut(t)
  BY <1>3, SafeTimesOut
<1>4. CASE ReadsRobot(t)
  BY <1>4, SafeReadsRobot
<1>5. CASE Checks(t)
  BY <1>5, SafeChecks
<1>6. CASE Transition(t)
  BY <1>6, SafeTransition
<1>7. CASE Rebuilt(t)
  BY <1>7, SafeRebuilt
<1>8. CASE Assigns(t)
  BY <1>8, SafeAssigns
<1>9. CASE Bumps(t)
  BY <1>9, SafeBumps
<1>10. CASE Halted(t)
  BY <1>10, SafeHalted
<1>11. CASE Records(t)
  BY <1>11, SafeRecords
<1>12. CASE Closes(t)
  BY <1>12, SafeCloses
<1>13. CASE Concludes(t)
  BY <1>13, SafeConcludes
<1>14. CASE Ends(t)
  BY <1>14, SafeEnds
<1> QED
  BY <1>1, <1>2, <1>3, <1>4, <1>5, <1>6, <1>7, <1>8, <1>9, <1>10, <1>11, <1>12, <1>13, <1>14
  DEF Works

(* ... and every step.                                                      *)
LEMMA SafetyStep ==
  ASSUME NoOrphans, Safety, [Next]_vars
  PROVE  Safety'
<1>1. Typing
  BY DEF Safety
<1>2. CASE UNCHANGED vars
  <2>1. Typing'
    BY <1>1, <1>2, OtherTypes
  <2> QED
    BY <1>2, <2>1, SafeOwner
<1>3. ASSUME NEW t \in Workers, NEW action \in asked, NEW gs \in Scopes(action), Begin(t, action, gs)
      PROVE  Safety'
  <2>1. Typing'
    BY <1>1, <1>3, OtherTypes
  <2> QED
    BY <1>3, <2>1, SafeBegin
<1>4. ASSUME NEW t \in Threads, Works(t)
      PROVE  Safety'
  <2>1. Typing'
    BY <1>1, <1>4, WorkTypes
  <2> QED
    BY <1>4, <2>1, SafeWorks
<1>5. CASE Monitors
  <2>1. Typing'
    BY <1>1, <1>5, OtherTypes
  <2> QED
    BY <1>5, <2>1, SafeMonitorBegins, SafeLooks, SafeConfirms, SafeCondemns DEF Monitors
<1>6. CASE Owns
  <2>1. Typing'
    BY <1>1, <1>6, OtherTypes
  <2> QED
    BY <1>6, <2>1, SafeOwner DEF Owns
<1>7. CASE Crash
  <2>1. Typing'
    BY <1>1, <1>7, OtherTypes
  <2> QED
    BY <1>7, <2>1, SafeCrash
<1>8. ASSUME NEW c \in pending, TakesEffect(c)
      PROVE  Safety'
  <2>1. Typing'
    BY <1>1, <1>8, OtherTypes
  <2> QED
    BY <1>8, <2>1, SafeTakesEffect
<1>9. ASSUME NEW g \in Groups, SessionEnds(g) \/ ControllersStop(g)
      PROVE  Safety'
  <2>1. Typing'
    BY <1>1, <1>9, OtherTypes
  <2> QED
    BY <1>9, <2>1, SafeRobot
<1> QED
  BY <1>2, <1>3, <1>4, <1>5, <1>6, <1>7, <1>8, <1>9 DEF Next

(* While no call of a process outlives it: what the threads, the groups and *)
(* the late calls have in common always holds.                              *)
THEOREM SafetyHolds ==
  ASSUME NoOrphans
  PROVE  Spec => []Safety
<1>1. Init => Safety
  BY SafetyStarts
<1>2. Safety /\ [Next]_vars => Safety'
  BY SafetyStep
<1> QED
  BY <1>1, <1>2, PTL DEF Spec

(* What it says of halted and of unresolved groups.                         *)
LEMMA SafetyShows ==
  ASSUME Safety
  PROVE  HaltedIsQuiet /\ UnresolvedStaysClosed
<1>1. ASSUME NEW g \in Groups, state[g] = "Halted", ~AtWork(g)
      PROVE  phase[g] # "open" /\ g \notin active
  <2>1. ASSUME NEW t \in Threads, Coming(t, g)
        PROVE  FALSE
    BY <1>1, <2>1 DEF Coming, Bad, Begun, Converging, Has, AtWork
  <2>2. Quiet(g)
    BY <1>1, <2>1 DEF Safety, Safes, GroupSafe
  <2> QED
    BY <2>2 DEF Quiet, Still
<1>2. ASSUME NEW g \in Groups, dirty, journal = g
      PROVE  phase[g] # "open"
  BY <1>2 DEF Safety, Safes, GroupSafe, Resolved, Still
<1> QED
  BY <1>1, <1>2 DEF HaltedIsQuiet, UnresolvedStaysClosed

(* While no call of a process outlives it: a group whose state is Halted,   *)
(* with nobody at work on it, does not move and has no active controllers,  *)
(* whatever has failed or come late (groups.py:_stop).                      *)
THEOREM HaltedStaysQuiet ==
  ASSUME NoOrphans
  PROVE  Spec => []HaltedIsQuiet
BY SafetyHolds, SafetyShows, PTL

(* While no call of a process outlives it: a group with an unresolved       *)
(* journal never moves (groups.py:177-181).                                 *)
THEOREM UnresolvedHolds ==
  ASSUME NoOrphans
  PROVE  Spec => []UnresolvedStaysClosed
BY SafetyHolds, SafetyShows, PTL

=============================================================================
