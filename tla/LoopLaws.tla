------------------------------ MODULE LoopLaws ------------------------------
(***************************************************************************)
(* What a loop does to an empty list and to a longer one, for any turn Op. *)
(* A proof about a particular loop instantiates this module with its turn: *)
(* the provers cannot be given an operator, an instance can.  With it come *)
(* the inductions over numbers and lists, which do not depend on the turn. *)
(***************************************************************************)
EXTENDS Loops, FiniteSetsExt, WellFoundedInduction, TLAPS

CONSTANTS Op(_, _), Start

\* What holds of 0 and is passed on holds of every number.
LEMMA AllNumbers ==
  \A S : 0 \in S /\ (\A n \in Nat : n \in S => n + 1 \in S) => Nat \subseteq S
<1>. SUFFICES ASSUME NEW S, 0 \in S, \A n \in Nat : n \in S => n + 1 \in S,
                     NEW k \in Nat, k \notin S
              PROVE  FALSE
  OBVIOUS
<1>. DEFINE T == {n \in Nat : n \notin S}
<1>1. PICK m \in T : \A n \in T : ~ (<<n, m>> \in OpToRel(<, Nat))
  <2>1. T \in SUBSET Nat /\ T # {}
    OBVIOUS
  <2>. HIDE DEF T
  <2>. QED
    BY <2>1, WFMin, NatLessThanWellFounded
<1>2. \A n \in T : ~ (<<n, m>> \in {ss \in Nat \X Nat : ss[1] < ss[2]})
  BY <1>1, Zenon DEF OpToRel
<1>3. m # 0 /\ m - 1 \in Nat /\ m - 1 \in T
  <2>1. m # 0 /\ m \in Nat
    OBVIOUS
  <2>. QED
    BY <2>1
<1>4. <<m - 1, m>> \in {ss \in Nat \X Nat : ss[1] < ss[2]}
  BY <1>3
<1>. QED
  BY <1>2, <1>3, <1>4

\* What holds of the empty list and of every list with one more element holds
\* of every list.
LEMMA AllSequences ==
  ASSUME NEW E, NEW T, << >> \in T, \A s \in Seq(E) : \A x \in E : s \in T => Append(s, x) \in T
  PROVE  Seq(E) \subseteq T
<1>. DEFINE S == {n \in Nat : \A s \in Seq(E) : Len(s) = n => s \in T}
<1>1. 0 \in S
  <2>1. \A s \in Seq(E) : Len(s) = 0 => s = << >>
    OBVIOUS
  <2>. QED
    BY <2>1
<1>2. ASSUME NEW n \in Nat, n \in S PROVE n + 1 \in S
  <2>. SUFFICES ASSUME NEW s \in Seq(E), Len(s) = n + 1 PROVE s \in T
    OBVIOUS
  <2>. DEFINE r == [i \in 1..n |-> s[i]]
  <2>1. r \in Seq(E) /\ Len(r) = n /\ s[n + 1] \in E
    OBVIOUS
  <2>2. s = Append(r, s[n + 1])
    OBVIOUS
  <2>. HIDE DEF r
  <2>. QED
    BY <1>2, <2>1, <2>2
<1>. HIDE DEF S
<1>3. Nat \subseteq S
  BY <1>1, <1>2, AllNumbers
<1>. QED
  BY <1>3 DEF S

\* f holds what is done after each of the first n elements of s.
Course(f, n, s) == f = [i \in 0..n |-> IF i = 0 THEN Start ELSE Op(f[i - 1], s[i])]

LEMMA CourseExists == ASSUME NEW s PROVE \A n \in Nat : \E f : Course(f, n, s)
<1>. DEFINE S == {n \in Nat : \E f : Course(f, n, s)}
<1>1. 0 \in S
  <2>1. Course([i \in 0..0 |-> Start], 0, s)
    BY DEF Course
  <2>. QED
    BY <2>1
<1>2. ASSUME NEW n \in Nat, n \in S PROVE n + 1 \in S
  <2>1. PICK f : Course(f, n, s)
    BY <1>2
  <2>. DEFINE g == [i \in 0..(n + 1) |-> IF i = n + 1 THEN Op(f[n], s[n + 1]) ELSE f[i]]
  <2>2. \A i \in 0..n : f[i] = IF i = 0 THEN Start ELSE Op(f[i - 1], s[i])
    BY <2>1 DEF Course
  <2>3. ASSUME NEW i \in 0..n PROVE g[i] = IF i = 0 THEN Start ELSE Op(g[i - 1], s[i])
    <3>1. g[i] = f[i] /\ (i # 0 => g[i - 1] = f[i - 1])
      OBVIOUS
    <3>. HIDE DEF g
    <3>. QED
      BY <2>2, <3>1
  <2>4. g[n + 1] = Op(g[n], s[n + 1])
    OBVIOUS
  <2>5. g = [i \in 0..(n + 1) |-> g[i]]
    OBVIOUS
  <2>. HIDE DEF g
  <2>6. \A i \in 0..(n + 1) : g[i] = IF i = 0 THEN Start ELSE Op(g[i - 1], s[i])
    <3>1. \A i \in 0..(n + 1) : i \in 0..n \/ i = n + 1
      OBVIOUS
    <3>. QED
      BY <2>3, <2>4, <3>1
  <2>7. Course(g, n + 1, s)
    BY <2>5, <2>6 DEF Course
  <2>. QED
    BY <2>7
<1>. HIDE DEF S
<1>3. Nat \subseteq S
  BY <1>1, <1>2, AllNumbers
<1>. QED
  BY <1>3 DEF S

LEMMA LoopCourse ==
  ASSUME NEW s, Len(s) \in Nat
  PROVE  \E f : Course(f, Len(s), s) /\ Loop(Op, Start, s) = f[Len(s)]
<1>. DEFINE F == CHOOSE f : f = [i \in 0..Len(s) |-> IF i = 0 THEN Start ELSE Op(f[i - 1], s[i])]
<1>1. \E f : f = [i \in 0..Len(s) |-> IF i = 0 THEN Start ELSE Op(f[i - 1], s[i])]
  BY CourseExists DEF Course
<1>2. F = [i \in 0..Len(s) |-> IF i = 0 THEN Start ELSE Op(F[i - 1], s[i])]
  BY <1>1
<1>3. Loop(Op, Start, s) = F[Len(s)]
  BY DEF Loop
<1>. HIDE DEF F
<1>. QED
  BY <1>2, <1>3 DEF Course

\* Loops over lists that begin alike begin alike.
LEMMA CoursesAgree ==
  ASSUME NEW s, NEW t, NEW m \in Nat, NEW n \in 0..m, NEW f, NEW g,
         Course(f, n, s), Course(g, m, t), \A i \in 1..n : s[i] = t[i]
  PROVE  f[n] = g[n]
<1>. DEFINE S == {i \in Nat : i <= n => f[i] = g[i]}
<1>1. /\ \A i \in 0..n : f[i] = IF i = 0 THEN Start ELSE Op(f[i - 1], s[i])
      /\ \A i \in 0..m : g[i] = IF i = 0 THEN Start ELSE Op(g[i - 1], t[i])
  BY DEF Course
<1>2. 0 \in S
  BY <1>1
<1>3. ASSUME NEW i \in Nat, i \in S PROVE i + 1 \in S
  <2>. SUFFICES ASSUME i + 1 <= n PROVE f[i + 1] = g[i + 1]
    OBVIOUS
  <2>1. i + 1 \in 0..n /\ i + 1 \in 0..m /\ i + 1 \in 1..n /\ (i + 1) - 1 = i /\ f[i] = g[i]
    BY <1>3
  <2>. QED
    BY <1>1, <2>1
<1>. HIDE DEF S
<1>4. Nat \subseteq S
  BY <1>2, <1>3, AllNumbers
<1>. QED
  BY <1>4 DEF S

\* A loop over nothing ends where it starts, and one over a list with one more
\* element takes one more turn.
THEOREM LoopLaw ==
  /\ Loop(Op, Start, << >>) = Start
  /\ \A E : \A s \in Seq(E) : \A x \in E :
       Loop(Op, Start, Append(s, x)) = Op(Loop(Op, Start, s), x)
<1>1. Loop(Op, Start, << >>) = Start
  <2>1. Len(<< >>) = 0
    OBVIOUS
  <2>2. PICK f : Course(f, 0, << >>) /\ Loop(Op, Start, << >>) = f[0]
    BY <2>1, LoopCourse
  <2>. QED
    BY <2>2 DEF Course
<1>2. ASSUME NEW E, NEW s \in Seq(E), NEW x \in E
      PROVE  Loop(Op, Start, Append(s, x)) = Op(Loop(Op, Start, s), x)
  <2>. DEFINE t == Append(s, x)
              n == Len(s)
  <2>1. n \in Nat /\ Len(t) = n + 1 /\ t[n + 1] = x /\ \A i \in 1..n : s[i] = t[i]
    OBVIOUS
  <2>2. PICK f : Course(f, n, s) /\ Loop(Op, Start, s) = f[n]
    BY <2>1, LoopCourse
  <2>. HIDE DEF t
  <2>3. PICK g : Course(g, n + 1, t) /\ Loop(Op, Start, t) = g[n + 1]
    BY <2>1, LoopCourse
  <2>. HIDE DEF n
  <2>4. f[n] = g[n]
    BY <2>1, <2>2, <2>3, CoursesAgree
  <2>5. g[n + 1] = Op(g[n], t[n + 1])
    BY <2>1, <2>3 DEF Course
  <2>. QED
    BY <2>1, <2>2, <2>3, <2>4, <2>5 DEF t
<1>. QED
  BY <1>1, <1>2
=============================================================================
