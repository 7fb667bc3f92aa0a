-------------------------- MODULE PurePartsProofs --------------------------
(***************************************************************************)
(* What the parts that compute and keep no state do for every input: the   *)
(* runs of MCPureParts try the inputs of a few elements.                   *)
(***************************************************************************)
EXTENDS MCPureParts, FiniteSetTheorems, SequenceTheorems, WellFoundedInduction, TLAPS

JoinLaws == INSTANCE LoopLaws WITH Op <- Follow, Start <- << >>

-----------------------------------------------------------------------------
(* Numbers                                                                 *)

LEMMA SmallestOf ==
  ASSUME NEW S \in SUBSET Nat, S # {}
  PROVE  Min(S) \in S /\ \A n \in S : Min(S) <= n
<1>1. PICK x \in S : \A y \in S : ~ (<<y, x>> \in OpToRel(<, Nat))
  BY WFMin, NatLessThanWellFounded
<1>2. \A y \in S : ~ (<<y, x>> \in {ss \in Nat \X Nat : ss[1] < ss[2]})
  BY <1>1, Zenon DEF OpToRel
<1>3. ASSUME NEW y \in S PROVE x <= y
  <2>1. <<y, x>> \in Nat \X Nat /\ x \in Nat /\ y \in Nat
    OBVIOUS
  <2>2. ~(<<y, x>>[1] < <<y, x>>[2])
    BY <1>2, <2>1
  <2>. QED
    BY <2>1, <2>2
<1>. QED
  BY <1>3 DEF Min

-----------------------------------------------------------------------------
(* The inputs of the runs                                                  *)

InputInv == part \in DOMAIN Elements /\ input \in Seq(Elements[part])

LEMMA InputsAreSequences == Spec => []InputInv
<1>1. Init => InputInv
  BY DEF Init, InputInv
<1>2. InputInv /\ [Grow]_vars => InputInv'
  BY DEF InputInv, Grow, vars
<1>. QED
  BY <1>1, <1>2, PTL DEF Spec

-----------------------------------------------------------------------------
(* Sequences                                                               *)

\* A sequence that is not empty ends in an element, which may be replaced.
ButLast(s) == [i \in 1..(Len(s) - 1) |-> s[i]]
WithLast(s, y) == [s EXCEPT ![Len(s)] = y]

LEMMA FrontAndLast ==
  ASSUME NEW E, NEW s \in Seq(E), s # << >>
  PROVE  /\ Len(s) \in 1..Len(s) /\ Last(s) \in E /\ Last(s) = s[Len(s)]
         /\ ButLast(s) \in Seq(E) /\ Len(ButLast(s)) = Len(s) - 1
         /\ s = Append(ButLast(s), Last(s))
         /\ \A y : WithLast(s, y) = Append(ButLast(s), y)
<1>1. Len(s) \in Nat /\ Len(s) # 0
  BY EmptySeq
<1>2. ButLast(s) \in Seq(E) /\ Len(ButLast(s)) = Len(s) - 1 /\ \A i \in 1..Len(s) - 1 : ButLast(s)[i] = s[i]
  BY <1>1 DEF ButLast
<1>3. s = Append(ButLast(s), s[Len(s)])
  BY <1>1, <1>2
<1>4. ASSUME NEW y PROVE WithLast(s, y) = Append(ButLast(s), y)
  BY <1>1, <1>2 DEF WithLast, ButLast
<1>5. s[Len(s)] \in E /\ Len(s) \in 1..Len(s)
  BY <1>1
<1>. QED
  BY <1>2, <1>3, <1>4, <1>5 DEF Last

LEMMA Associative ==
  ASSUME NEW L PROVE \A a, b, c \in Seq(L) : (a \o b) \o c = a \o (b \o c)
BY ConcatAssociative

-----------------------------------------------------------------------------
(* Joined texts                                                            *)

LEMMA JoinedLaw ==
  /\ Joined(<< >>) = << >>
  /\ \A E : \A s \in Seq(E) : \A x \in E : Joined(Append(s, x)) = Joined(s) \o x
<1>1. Loop(Follow, << >>, << >>) = << >>
  BY JoinLaws!LoopLaw DEF Loop, JoinLaws!Loop
<1>2. \A E : \A s \in Seq(E) : \A x \in E :
        Loop(Follow, << >>, Append(s, x)) = Follow(Loop(Follow, << >>, s), x)
  BY JoinLaws!LoopLaw DEF Loop, JoinLaws!Loop
<1>. QED
  BY <1>1, <1>2 DEF Joined, Follow

LEMMA JoinedIsText == \A L : \A s \in Seq(Seq(L)) : Joined(s) \in Seq(L)
<1>. SUFFICES ASSUME NEW L PROVE \A s \in Seq(Seq(L)) : Joined(s) \in Seq(L)
  OBVIOUS
<1>. DEFINE T == {s \in Seq(Seq(L)) : Joined(s) \in Seq(L)}
<1>1. << >> \in T
  BY JoinedLaw, EmptySeq
<1>2. ASSUME NEW s \in Seq(Seq(L)), NEW x \in Seq(L), s \in T PROVE Append(s, x) \in T
  <2>1. Joined(Append(s, x)) = Joined(s) \o x
    BY JoinedLaw
  <2>2. Joined(s) \in Seq(L) /\ Append(s, x) \in Seq(Seq(L)) /\ Joined(s) \o x \in Seq(L)
    BY <1>2
  <2>. QED
    BY <2>1, <2>2
<1>. HIDE DEF T
<1>3. Seq(Seq(L)) \subseteq T
  BY <1>1, <1>2, JoinLaws!AllSequences
<1>. QED
  BY <1>3 DEF T

LEMMA JoinedOfTwo ==
  \A L : \A s, t \in Seq(Seq(L)) : Joined(s \o t) = Joined(s) \o Joined(t)
<1>. SUFFICES ASSUME NEW L, NEW s \in Seq(Seq(L))
              PROVE  \A t \in Seq(Seq(L)) : Joined(s \o t) = Joined(s) \o Joined(t)
  OBVIOUS
<1>. DEFINE T == {t \in Seq(Seq(L)) : Joined(s \o t) = Joined(s) \o Joined(t)}
<1>1. << >> \in T
  <2>1. s \o << >> = s /\ Joined(s) \o << >> = Joined(s)
    BY JoinedIsText, ConcatEmptySeq
  <2>. QED
    BY <2>1, JoinedLaw, EmptySeq
<1>2. ASSUME NEW t \in Seq(Seq(L)), NEW x \in Seq(L), t \in T PROVE Append(t, x) \in T
  <2>1. s \o Append(t, x) = Append(s \o t, x) /\ s \o t \in Seq(Seq(L))
    OBVIOUS
  <2>2. Joined(Append(s \o t, x)) = Joined(s \o t) \o x /\ Joined(Append(t, x)) = Joined(t) \o x
    BY <2>1, JoinedLaw
  <2>3. Joined(s) \in Seq(L) /\ Joined(t) \in Seq(L)
    BY JoinedIsText
  <2>4. (Joined(s) \o Joined(t)) \o x = Joined(s) \o (Joined(t) \o x)
    BY <2>3, Associative, SMTT(30)
  <2>5. Joined(s \o t) = Joined(s) \o Joined(t) /\ Append(t, x) \in Seq(Seq(L))
    BY <1>2
  <2>. QED
    BY <2>1, <2>2, <2>4, <2>5
<1>. HIDE DEF T
<1>3. Seq(Seq(L)) \subseteq T
  BY <1>1, <1>2, JoinLaws!AllSequences
<1>. QED
  BY <1>3 DEF T

LEMMA JoinedOfOne == \A L : \A t \in Seq(L) : Joined(<<t>>) = t
<1>. SUFFICES ASSUME NEW L, NEW t \in Seq(L) PROVE Joined(<<t>>) = t
  OBVIOUS
<1>1. << >> \in Seq(Seq(L)) /\ Append(<< >>, t) = <<t>>
  BY EmptySeq
<1>2. Joined(Append(<< >>, t)) = Joined(<< >>) \o t
  BY <1>1, JoinedLaw
<1>. QED
  BY <1>1, <1>2, JoinedLaw, ConcatEmptySeq

\* Where a text is cut, after one more piece and after several.
LEMMA EndsLaw ==
  /\ Ends(<< >>) = {}
  /\ \A L : \A s \in Seq(Seq(L)) : \A x \in Seq(L) :
       Ends(Append(s, x)) = Ends(s) \cup {Len(Joined(Append(s, x)))}
<1>1. Ends(<< >>) = {}
  BY DEF Ends
<1>2. ASSUME NEW L, NEW s \in Seq(Seq(L)), NEW x \in Seq(L)
      PROVE  Ends(Append(s, x)) = Ends(s) \cup {Len(Joined(Append(s, x)))}
  <2>. DEFINE t == Append(s, x)
  <2>1. /\ DOMAIN t = DOMAIN s \cup {Len(s) + 1} /\ Len(t) = Len(s) + 1 /\ Len(s) \in Nat
        /\ SubSeq(t, 1, Len(t)) = t
        /\ \A i \in DOMAIN s : SubSeq(t, 1, i) = SubSeq(s, 1, i)
    OBVIOUS
  <2>. HIDE DEF t
  <2>2. Ends(t) = Ends(s) \cup {Len(Joined(t))}
    BY <2>1 DEF Ends
  <2>. QED
    BY <2>2 DEF t
<1>. QED
  BY <1>1, <1>2

Shifted(n, S) == {n + p : p \in S}

LEMMA EndsOfTwo ==
  \A L : \A s, t \in Seq(Seq(L)) : Ends(s \o t) = Ends(s) \cup Shifted(Len(Joined(s)), Ends(t))
<1>. SUFFICES ASSUME NEW L, NEW s \in Seq(Seq(L))
              PROVE  \A t \in Seq(Seq(L)) :
                       Ends(s \o t) = Ends(s) \cup Shifted(Len(Joined(s)), Ends(t))
  OBVIOUS
<1>. DEFINE T == {t \in Seq(Seq(L)) : Ends(s \o t) = Ends(s) \cup Shifted(Len(Joined(s)), Ends(t))}
<1>1. << >> \in T
  BY EndsLaw, ConcatEmptySeq, EmptySeq DEF Shifted
<1>2. ASSUME NEW t \in Seq(Seq(L)), NEW x \in Seq(L), t \in T PROVE Append(t, x) \in T
  <2>1. s \o Append(t, x) = Append(s \o t, x) /\ s \o t \in Seq(Seq(L)) /\ Append(t, x) \in Seq(Seq(L))
    OBVIOUS
  <2>2. Ends(s \o Append(t, x)) = Ends(s \o t) \cup {Len(Joined(s \o Append(t, x)))}
    <3>. DEFINE u == s \o t
    <3>1. u \in Seq(Seq(L))
      BY <2>1
    <3>. HIDE DEF u
    <3>2. Ends(Append(u, x)) = Ends(u) \cup {Len(Joined(Append(u, x)))}
      BY <3>1, EndsLaw
    <3>. QED
      BY <2>1, <3>2 DEF u
  <2>3. Ends(Append(t, x)) = Ends(t) \cup {Len(Joined(Append(t, x)))}
    BY EndsLaw
  <2>4. Len(Joined(s \o Append(t, x))) = Len(Joined(s)) + Len(Joined(Append(t, x)))
    <3>1. Joined(s \o Append(t, x)) = Joined(s) \o Joined(Append(t, x))
      BY <2>1, JoinedOfTwo
    <3>2. Joined(s) \in Seq(L) /\ Joined(Append(t, x)) \in Seq(L)
      BY <2>1, JoinedIsText
    <3>. QED
      BY <3>1, <3>2
  <2>5. Ends(s \o t) = Ends(s) \cup Shifted(Len(Joined(s)), Ends(t))
    BY <1>2
  <2>6. Ends(s \o Append(t, x)) = Ends(s) \cup Shifted(Len(Joined(s)), Ends(Append(t, x)))
    BY <2>1, <2>2, <2>3, <2>4, <2>5 DEF Shifted
  <2>. QED
    BY <2>1, <2>6
<1>. HIDE DEF T
<1>3. Seq(Seq(L)) \subseteq T
  BY <1>1, <1>2, JoinLaws!AllSequences
<1>. QED
  BY <1>3 DEF T

\* A text is cut within its bounds, and, unless it has no piece, at its end.
LEMMA EndsBound ==
  ASSUME NEW L
  PROVE  \A s \in Seq(Seq(L)) : /\ \A p \in Ends(s) : p \in Nat /\ p <= Len(Joined(s))
                                /\ s # << >> => Len(Joined(s)) \in Ends(s)
<1>. DEFINE T == {s \in Seq(Seq(L)) : /\ \A p \in Ends(s) : p \in Nat /\ p <= Len(Joined(s))
                                      /\ s # << >> => Len(Joined(s)) \in Ends(s)}
<1>1. << >> \in T
  BY EndsLaw, EmptySeq
<1>2. ASSUME NEW s \in Seq(Seq(L)), NEW x \in Seq(L), s \in T PROVE Append(s, x) \in T
  <2>1. Append(s, x) \in Seq(Seq(L)) /\ Joined(s) \in Seq(L)
    BY JoinedIsText
  <2>2. Joined(Append(s, x)) = Joined(s) \o x
    BY JoinedLaw
  <2>3. /\ Len(Joined(s)) \in Nat /\ Len(Joined(Append(s, x))) \in Nat
        /\ Len(Joined(s)) <= Len(Joined(Append(s, x)))
    BY <2>1, <2>2
  <2>4. Ends(Append(s, x)) = Ends(s) \cup {Len(Joined(Append(s, x)))}
    BY EndsLaw
  <2>5. \A p \in Ends(s) : p \in Nat /\ p <= Len(Joined(s))
    BY <1>2
  <2>6. /\ \A p \in Ends(Append(s, x)) : p \in Nat /\ p <= Len(Joined(Append(s, x)))
        /\ Len(Joined(Append(s, x))) \in Ends(Append(s, x))
    BY <2>3, <2>4, <2>5
  <2>. QED
    BY <2>1, <2>6
<1>. HIDE DEF T
<1>3. Seq(Seq(L)) \subseteq T
  BY <1>1, <1>2, JoinLaws!AllSequences
<1>. QED
  BY <1>3 DEF T

-----------------------------------------------------------------------------
(* Nodes                                                                   *)

\* What the parser makes of letters L.
Nodes(L) ==
  [kind : {"heading", "para", "blank", "template", "list"}, parts : Seq(Seq(L)) \ {<< >>}]

LEMMA NodeTextIsText == \A L : \A n \in Nodes(L) : NodeText(n) \in Seq(L)
BY JoinedIsText DEF Nodes, NodeText

LEMMA TextLaw ==
  /\ TextOf(<< >>) = << >>
  /\ \A L : \A ns \in Seq(Nodes(L)) : \A n \in Nodes(L) : TextOf(Append(ns, n)) = TextOf(ns) \o NodeText(n)
<1>1. TextOf(<< >>) = << >>
  <2>1. [i \in DOMAIN << >> |-> NodeText(<< >>[i])] = << >>
    OBVIOUS
  <2>. QED
    BY <2>1, JoinedLaw DEF TextOf
<1>2. ASSUME NEW L, NEW ns \in Seq(Nodes(L)), NEW n \in Nodes(L)
      PROVE  TextOf(Append(ns, n)) = TextOf(ns) \o NodeText(n)
  <2>. DEFINE texts(s) == [i \in DOMAIN s |-> NodeText(s[i])]
  <2>1. \A m \in Nodes(L) : NodeText(m) \in Seq(L)
    BY NodeTextIsText
  <2>2. texts(ns) \in Seq(Seq(L)) /\ Len(texts(ns)) = Len(ns)
    <3>1. Len(ns) \in Nat /\ DOMAIN ns = 1..Len(ns)
      OBVIOUS
    <3>2. \A i \in 1..Len(ns) : NodeText(ns[i]) \in Seq(L)
      <4>1. \A i \in 1..Len(ns) : ns[i] \in Nodes(L)
        OBVIOUS
      <4>. QED
        BY <2>1, <4>1
    <3>3. texts(ns) = [i \in 1..Len(ns) |-> NodeText(ns[i])]
      BY <3>1
    <3>. HIDE DEF texts
    <3>. QED
      BY <3>1, <3>2, <3>3
  <2>3. texts(Append(ns, n)) = Append(texts(ns), NodeText(n))
    BY <2>2
  <2>4. TextOf(ns) = Joined(texts(ns)) /\ TextOf(Append(ns, n)) = Joined(texts(Append(ns, n)))
    BY DEF TextOf
  <2>. HIDE DEF texts
  <2>. QED
    BY <2>1, <2>2, <2>3, <2>4, JoinedLaw
<1>. QED
  BY <1>1, <1>2

LEMMA TextIsText == ASSUME NEW L PROVE \A ns \in Seq(Nodes(L)) : TextOf(ns) \in Seq(L)
<1>. DEFINE T == {ns \in Seq(Nodes(L)) : TextOf(ns) \in Seq(L)}
<1>1. << >> \in T
  BY TextLaw, EmptySeq
<1>2. ASSUME NEW ns \in Seq(Nodes(L)), NEW n \in Nodes(L), ns \in T PROVE Append(ns, n) \in T
  <2>1. TextOf(Append(ns, n)) = TextOf(ns) \o NodeText(n)
    BY TextLaw
  <2>2. TextOf(ns) \in Seq(L) /\ NodeText(n) \in Seq(L) /\ Append(ns, n) \in Seq(Nodes(L))
    BY <1>2, NodeTextIsText
  <2>3. TextOf(Append(ns, n)) \in Seq(L)
    BY <2>1, <2>2
  <2>. QED
    BY <2>2, <2>3
<1>. HIDE DEF T
<1>3. Seq(Nodes(L)) \subseteq T
  BY <1>1, <1>2, JoinLaws!AllSequences
<1>. QED
  BY <1>3 DEF T

LEMMA TextOfTwo ==
  ASSUME NEW L, NEW ms \in Seq(Nodes(L))
  PROVE  \A ns \in Seq(Nodes(L)) : TextOf(ms \o ns) = TextOf(ms) \o TextOf(ns)
<1>. DEFINE T == {ns \in Seq(Nodes(L)) : TextOf(ms \o ns) = TextOf(ms) \o TextOf(ns)}
<1>1. << >> \in T
  <2>1. ms \o << >> = ms /\ TextOf(ms) \o << >> = TextOf(ms)
    BY TextIsText, ConcatEmptySeq
  <2>. QED
    BY <2>1, TextLaw, EmptySeq
<1>2. ASSUME NEW ns \in Seq(Nodes(L)), NEW n \in Nodes(L), ns \in T PROVE Append(ns, n) \in T
  <2>1. ms \o Append(ns, n) = Append(ms \o ns, n) /\ ms \o ns \in Seq(Nodes(L))
    OBVIOUS
  <2>2. TextOf(Append(ms \o ns, n)) = TextOf(ms \o ns) \o NodeText(n)
    BY <2>1, TextLaw
  <2>3. TextOf(Append(ns, n)) = TextOf(ns) \o NodeText(n)
    BY TextLaw
  <2>4. TextOf(ms) \in Seq(L) /\ TextOf(ns) \in Seq(L) /\ NodeText(n) \in Seq(L)
    BY TextIsText, NodeTextIsText
  <2>5. (TextOf(ms) \o TextOf(ns)) \o NodeText(n) = TextOf(ms) \o (TextOf(ns) \o NodeText(n))
    BY <2>4, Associative, SMTT(30)
  <2>6. TextOf(ms \o ns) = TextOf(ms) \o TextOf(ns) /\ Append(ns, n) \in Seq(Nodes(L))
    BY <1>2
  <2>. QED
    BY <2>1, <2>2, <2>3, <2>5, <2>6
<1>. HIDE DEF T
<1>3. Seq(Nodes(L)) \subseteq T
  BY <1>1, <1>2, JoinLaws!AllSequences
<1>. QED
  BY <1>3 DEF T

\* The places inside one node that follows n letters.
InsideOne(n, node) == IF Protected(node) THEN n + 1..n + Len(NodeText(node)) - 1 ELSE {}

LEMMA InsideLaw ==
  /\ Inside(<< >>) = {}
  /\ \A L : \A ns \in Seq(Nodes(L)) : \A n \in Nodes(L) :
       Inside(Append(ns, n)) = Inside(ns) \cup InsideOne(Len(TextOf(ns)), n)
<1>1. Inside(<< >>) = {}
  BY DEF Inside
<1>2. ASSUME NEW L, NEW ns \in Seq(Nodes(L)), NEW n \in Nodes(L)
      PROVE  Inside(Append(ns, n)) = Inside(ns) \cup InsideOne(Len(TextOf(ns)), n)
  <2>. DEFINE span(s, i) == Len(TextOf(SubSeq(s, 1, i))) - Len(NodeText(s[i])) + 1
                              ..Len(TextOf(SubSeq(s, 1, i))) - 1
              t == Append(ns, n)
              k == Len(ns) + 1
  <2>1. /\ DOMAIN t = DOMAIN ns \cup {k} /\ k \notin DOMAIN ns /\ t[k] = n
        /\ SubSeq(t, 1, k) = t
        /\ \A i \in DOMAIN ns : SubSeq(t, 1, i) = SubSeq(ns, 1, i) /\ t[i] = ns[i]
    OBVIOUS
  <2>2. /\ Len(TextOf(t)) = Len(TextOf(ns)) + Len(NodeText(n))
        /\ Len(TextOf(ns)) \in Nat /\ Len(NodeText(n)) \in Nat
    <3>1. TextOf(t) = TextOf(ns) \o NodeText(n)
      BY TextLaw
    <3>2. TextOf(ns) \in Seq(L) /\ NodeText(n) \in Seq(L)
      BY TextIsText, NodeTextIsText
    <3>. QED
      BY <3>1, <3>2
  <2>. HIDE DEF t, k
  <2>3. \A i \in DOMAIN ns : span(t, i) = span(ns, i)
    BY <2>1
  <2>4. span(t, k) = Len(TextOf(ns)) + 1..Len(TextOf(ns)) + Len(NodeText(n)) - 1
    <3>1. SubSeq(t, 1, k) = t /\ t[k] = n
      BY <2>1
    <3>2. span(t, k) = Len(TextOf(t)) - Len(NodeText(n)) + 1..Len(TextOf(t)) - 1
      BY <3>1, Zenon
    <3>. HIDE DEF span
    <3>3. Len(TextOf(t)) - Len(NodeText(n)) = Len(TextOf(ns))
      BY <2>2
    <3>. QED
      BY <2>2, <3>2, <3>3
  <2>5. /\ Inside(t) = UNION {span(t, i) : i \in {j \in DOMAIN t : Protected(t[j])}}
        /\ Inside(ns) = UNION {span(ns, i) : i \in {j \in DOMAIN ns : Protected(ns[j])}}
    BY DEF Inside
  <2>. HIDE DEF span
  <2>6. UNION {span(t, i) : i \in {j \in DOMAIN t : Protected(t[j])}}
          = (UNION {span(ns, i) : i \in {j \in DOMAIN ns : Protected(ns[j])}})
              \cup (IF Protected(n) THEN span(t, k) ELSE {})
    BY <2>1, <2>3
  <2>. QED
    BY <2>4, <2>5, <2>6 DEF InsideOne, t
<1>. QED
  BY <1>1, <1>2

LEMMA InsideBound ==
  ASSUME NEW L
  PROVE  \A ns \in Seq(Nodes(L)) : \A p \in Inside(ns) : p \in Nat /\ p >= 1 /\ p < Len(TextOf(ns))
<1>. DEFINE T == {ns \in Seq(Nodes(L)) : \A p \in Inside(ns) : p \in Nat /\ p >= 1 /\ p < Len(TextOf(ns))}
<1>1. << >> \in T
  BY InsideLaw, EmptySeq
<1>2. ASSUME NEW ns \in Seq(Nodes(L)), NEW n \in Nodes(L), ns \in T PROVE Append(ns, n) \in T
  <2>1. Inside(Append(ns, n)) = Inside(ns) \cup InsideOne(Len(TextOf(ns)), n)
    BY InsideLaw
  <2>2. TextOf(Append(ns, n)) = TextOf(ns) \o NodeText(n)
    BY TextLaw
  <2>3. TextOf(ns) \in Seq(L) /\ NodeText(n) \in Seq(L) /\ Append(ns, n) \in Seq(Nodes(L))
    BY TextIsText, NodeTextIsText
  <2>4. /\ Len(TextOf(Append(ns, n))) = Len(TextOf(ns)) + Len(NodeText(n))
        /\ Len(TextOf(ns)) \in Nat /\ Len(NodeText(n)) \in Nat
    BY <2>2, <2>3
  <2>5. \A p \in Inside(ns) : p \in Nat /\ p >= 1 /\ p < Len(TextOf(ns))
    BY <1>2
  <2>6. \A p \in Inside(Append(ns, n)) : p \in Nat /\ p >= 1 /\ p < Len(TextOf(Append(ns, n)))
    BY <2>1, <2>4, <2>5 DEF InsideOne
  <2>. QED
    BY <2>3, <2>6
<1>. HIDE DEF T
<1>3. Seq(Nodes(L)) \subseteq T
  BY <1>1, <1>2, JoinLaws!AllSequences
<1>. QED
  BY <1>3 DEF T

LEMMA InsideOfTwo ==
  ASSUME NEW L, NEW ms \in Seq(Nodes(L))
  PROVE  \A ns \in Seq(Nodes(L)) :
           Inside(ms \o ns) = Inside(ms) \cup Shifted(Len(TextOf(ms)), Inside(ns))
<1>. DEFINE T == {ns \in Seq(Nodes(L)) :
                    Inside(ms \o ns) = Inside(ms) \cup Shifted(Len(TextOf(ms)), Inside(ns))}
<1>1. << >> \in T
  BY InsideLaw, ConcatEmptySeq, EmptySeq DEF Shifted
<1>2. ASSUME NEW ns \in Seq(Nodes(L)), NEW n \in Nodes(L), ns \in T PROVE Append(ns, n) \in T
  <2>1. ms \o Append(ns, n) = Append(ms \o ns, n) /\ ms \o ns \in Seq(Nodes(L))
    OBVIOUS
  <2>2. Inside(Append(ms \o ns, n)) = Inside(ms \o ns) \cup InsideOne(Len(TextOf(ms \o ns)), n)
    BY <2>1, InsideLaw
  <2>3. Inside(Append(ns, n)) = Inside(ns) \cup InsideOne(Len(TextOf(ns)), n)
    BY InsideLaw
  <2>4. /\ Len(TextOf(ms \o ns)) = Len(TextOf(ms)) + Len(TextOf(ns))
        /\ Len(TextOf(ms)) \in Nat /\ Len(TextOf(ns)) \in Nat /\ Len(NodeText(n)) \in Nat
    <3>1. TextOf(ms \o ns) = TextOf(ms) \o TextOf(ns)
      BY TextOfTwo
    <3>2. TextOf(ms) \in Seq(L) /\ TextOf(ns) \in Seq(L) /\ NodeText(n) \in Seq(L)
      BY TextIsText, NodeTextIsText
    <3>. QED
      BY <3>1, <3>2
  <2>5. InsideOne(Len(TextOf(ms \o ns)), n) = Shifted(Len(TextOf(ms)), InsideOne(Len(TextOf(ns)), n))
    <3>. DEFINE a == Len(TextOf(ms))
                b == Len(TextOf(ns))
                c == Len(NodeText(n))
    <3>1. a \in Nat /\ b \in Nat /\ c \in Nat
      BY <2>4
    <3>. HIDE DEF a, b, c
    <3>2. (a + b) + 1..(a + b) + c - 1 = {a + p : p \in b + 1..b + c - 1}
      <4>1. ASSUME NEW q \in (a + b) + 1..(a + b) + c - 1 PROVE \E p \in b + 1..b + c - 1 : q = a + p
        <5>1. q - a \in b + 1..b + c - 1 /\ q = a + (q - a)
          BY <3>1
        <5>. QED
          BY <5>1
      <4>2. \A p \in b + 1..b + c - 1 : a + p \in (a + b) + 1..(a + b) + c - 1
        BY <3>1
      <4>. QED
        BY <4>1, <4>2
    <3>. QED
      BY <2>4, <3>2 DEF InsideOne, Shifted, a, b, c
  <2>6. Inside(ms \o ns) = Inside(ms) \cup Shifted(Len(TextOf(ms)), Inside(ns)) /\ Append(ns, n) \in Seq(Nodes(L))
    BY <1>2
  <2>7. Inside(Append(ms \o ns, n)) = Inside(ms) \cup Shifted(Len(TextOf(ms)), Inside(Append(ns, n)))
    BY <2>2, <2>3, <2>5, <2>6 DEF Shifted
  <2>. QED
    BY <2>1, <2>6, <2>7
<1>. HIDE DEF T
<1>3. Seq(Nodes(L)) \subseteq T
  BY <1>1, <1>2, JoinLaws!AllSequences
<1>. QED
  BY <1>3 DEF T

-----------------------------------------------------------------------------
(* Paragraphs                                                              *)

ParagraphLaws == INSTANCE LoopLaws WITH Op <- AddParagraph, Start <- << >>

Paragraphs(ns) == Loop(AddParagraph, << >>, ns)

LEMMA ParagraphsLaw ==
  /\ Paragraphs(<< >>) = << >>
  /\ \A E : \A ns \in Seq(E) : \A n \in E : Paragraphs(Append(ns, n)) = AddParagraph(Paragraphs(ns), n)
<1>1. Loop(AddParagraph, << >>, << >>) = << >>
  BY ParagraphLaws!LoopLaw DEF Loop, ParagraphLaws!Loop
<1>2. \A E : \A s \in Seq(E) : \A x \in E :
        Loop(AddParagraph, << >>, Append(s, x)) = AddParagraph(Loop(AddParagraph, << >>, s), x)
  BY ParagraphLaws!LoopLaw DEF Loop, ParagraphLaws!Loop
<1>. QED
  BY <1>1, <1>2 DEF Paragraphs

\* A paragraph joined to the one before it, or to the heading above it.
LEMMA JoinedNodeText ==
  ASSUME NEW L, NEW m \in Nodes(L), NEW n \in Nodes(L), m.kind \in {"heading", "para"}
  PROVE  /\ JoinedNode(m, n) \in Nodes(L) /\ ~Protected(JoinedNode(m, n))
         /\ NodeText(JoinedNode(m, n)) = NodeText(m) \o NodeText(n)
<1>. DEFINE h == Head(n.parts)
            t == Tail(n.parts)
            x == NodeText(m)
            new == JoinedNode(m, n).parts
<1>1. /\ m.parts \in Seq(Seq(L)) /\ m.parts # << >> /\ n.parts \in Seq(Seq(L)) /\ n.parts # << >>
      /\ x \in Seq(L)
  BY NodeTextIsText DEF Nodes
<1>2. h \in Seq(L) /\ t \in Seq(Seq(L)) /\ n.parts = <<h>> \o t
  BY <1>1
<1>3. CASE m.kind = "heading"
  <2>1. new = <<x \o h>> \o t
    BY <1>3 DEF JoinedNode
  <2>2. x \o h \in Seq(L) /\ <<x \o h>> \in Seq(Seq(L)) /\ <<h>> \in Seq(Seq(L))
    BY <1>1, <1>2
  <2>. HIDE DEF h, t, x, new
  <2>3. new \in Seq(Seq(L)) /\ new # << >>
    BY <1>2, <2>1, <2>2
  <2>a. /\ \A p, q \in Seq(Seq(L)) : Joined(p \o q) = Joined(p) \o Joined(q)
        /\ \A p \in Seq(L) : Joined(<<p>>) = p
    BY JoinedOfTwo, JoinedOfOne
  <2>4. Joined(new) = (x \o h) \o Joined(t)
    BY <1>2, <2>1, <2>2, <2>a
  <2>5. NodeText(n) = h \o Joined(t)
    BY <1>2, <2>2, <2>a DEF NodeText
  <2>6. Joined(t) \in Seq(L)
    BY <1>2, JoinedIsText
  <2>7. (x \o h) \o Joined(t) = x \o (h \o Joined(t))
    BY <1>1, <1>2, <2>6, Associative, SMTT(30)
  <2>8. JoinedNode(m, n) = [kind |-> "para", parts |-> new]
    BY DEF JoinedNode, new
  <2>9. NodeText(JoinedNode(m, n)) = Joined(new)
    BY <2>8 DEF NodeText
  <2>10. JoinedNode(m, n) \in Nodes(L) /\ ~Protected(JoinedNode(m, n))
    BY <2>3, <2>8 DEF Nodes, Protected
  <2>. QED
    BY <2>4, <2>5, <2>7, <2>9, <2>10 DEF x
<1>4. CASE m.kind # "heading"
  <2>1. new = m.parts \o n.parts
    BY <1>4 DEF JoinedNode
  <2>. HIDE DEF h, t, x, new
  <2>2. new \in Seq(Seq(L)) /\ new # << >>
    BY <1>1, <2>1, ConcatEqualIffEmpty
  <2>3. Joined(new) = Joined(m.parts) \o Joined(n.parts)
    BY <1>1, <2>1, JoinedOfTwo
  <2>4. JoinedNode(m, n) = [kind |-> "para", parts |-> new]
    BY DEF JoinedNode, new
  <2>. QED
    BY <2>2, <2>3, <2>4 DEF Nodes, Protected, NodeText
<1>. QED
  BY <1>3, <1>4

LEMMA ParagraphsKeepText ==
  ASSUME NEW L
  PROVE  \A ns \in Seq(Nodes(L)) :
           /\ Paragraphs(ns) \in Seq(Nodes(L))
           /\ TextOf(Paragraphs(ns)) = TextOf(ns)
           /\ Inside(Paragraphs(ns)) = Inside(ns)
<1>. DEFINE T == {ns \in Seq(Nodes(L)) : /\ Paragraphs(ns) \in Seq(Nodes(L))
                                         /\ TextOf(Paragraphs(ns)) = TextOf(ns)
                                         /\ Inside(Paragraphs(ns)) = Inside(ns)}
<1>1. << >> \in T
  BY ParagraphsLaw, EmptySeq
<1>2. ASSUME NEW ns \in Seq(Nodes(L)), NEW n \in Nodes(L), ns \in T PROVE Append(ns, n) \in T
  <2>. DEFINE ps == Paragraphs(ns)
              qs == Paragraphs(Append(ns, n))
  <2>1. ps \in Seq(Nodes(L)) /\ TextOf(ps) = TextOf(ns) /\ Inside(ps) = Inside(ns)
    BY <1>2
  <2>2. qs = AddParagraph(ps, n) /\ Append(ns, n) \in Seq(Nodes(L))
    BY ParagraphsLaw
  <2>3. /\ TextOf(Append(ns, n)) = TextOf(ns) \o NodeText(n)
        /\ Inside(Append(ns, n)) = Inside(ns) \cup InsideOne(Len(TextOf(ns)), n)
    BY TextLaw, InsideLaw
  <2>. HIDE DEF ps, qs
  <2>4. CASE n.kind = "para" /\ ps # << >> /\ Last(ps).kind \in {"heading", "para"}
    <3>. DEFINE m == Last(ps)
                f == ButLast(ps)
    <3>1. m \in Nodes(L) /\ m.kind \in {"heading", "para"} /\ m = ps[Len(ps)]
      BY <2>1, <2>4, FrontAndLast
    <3>2. f \in Seq(Nodes(L)) /\ ps = Append(f, m) /\ \A y : WithLast(ps, y) = Append(f, y)
      BY <2>1, <2>4, FrontAndLast
    <3>3. qs = WithLast(ps, JoinedNode(m, n))
      BY <2>2, <2>4, <3>1 DEF AddParagraph, WithLast
    <3>. HIDE DEF m, f
    <3>4. qs = Append(f, JoinedNode(m, n))
      BY <3>2, <3>3
    <3>5. /\ JoinedNode(m, n) \in Nodes(L) /\ ~Protected(JoinedNode(m, n))
          /\ NodeText(JoinedNode(m, n)) = NodeText(m) \o NodeText(n)
      BY <3>1, JoinedNodeText
    <3>6. TextOf(qs) = TextOf(ps) \o NodeText(n)
      <4>1. TextOf(qs) = TextOf(f) \o (NodeText(m) \o NodeText(n)) /\ TextOf(ps) = TextOf(f) \o NodeText(m)
        BY <3>1, <3>2, <3>4, <3>5, TextLaw
      <4>2. TextOf(f) \in Seq(L) /\ NodeText(m) \in Seq(L) /\ NodeText(n) \in Seq(L)
        BY <3>1, <3>2, TextIsText, NodeTextIsText
      <4>3. TextOf(f) \o (NodeText(m) \o NodeText(n)) = (TextOf(f) \o NodeText(m)) \o NodeText(n)
        BY <4>2, Associative, SMTT(30)
      <4>. QED
        BY <4>1, <4>3
    <3>7. Inside(qs) = Inside(f) /\ Inside(ps) = Inside(f)
      <4>1. /\ Inside(qs) = Inside(f) \cup InsideOne(Len(TextOf(f)), JoinedNode(m, n))
            /\ Inside(ps) = Inside(f) \cup InsideOne(Len(TextOf(f)), m)
        BY <3>1, <3>2, <3>4, <3>5, InsideLaw
      <4>2. ~Protected(m)
        BY <3>1 DEF Protected
      <4>. QED
        BY <3>5, <4>1, <4>2 DEF InsideOne
    <3>8. InsideOne(Len(TextOf(ns)), n) = {}
      BY <2>4 DEF InsideOne, Protected
    <3>9. qs \in Seq(Nodes(L))
      BY <3>2, <3>4, <3>5
    <3>. QED
      BY <2>1, <2>2, <2>3, <3>6, <3>7, <3>8, <3>9 DEF qs
  <2>5. CASE ~(n.kind = "para" /\ ps # << >> /\ Last(ps).kind \in {"heading", "para"})
    <3>1. qs = Append(ps, n)
      BY <2>2, <2>5 DEF AddParagraph
    <3>2. /\ TextOf(qs) = TextOf(ps) \o NodeText(n)
          /\ Inside(qs) = Inside(ps) \cup InsideOne(Len(TextOf(ps)), n)
      BY ZenonT(30), <2>1, <3>1, TextLaw, InsideLaw
    <3>3. qs \in Seq(Nodes(L))
      BY <2>1, <3>1
    <3>. QED
      BY <2>1, <2>2, <2>3, <3>2, <3>3 DEF qs
  <2>. QED
    BY <2>4, <2>5
<1>. HIDE DEF T
<1>3. Seq(Nodes(L)) \subseteq T
  BY <1>1, <1>2, JoinLaws!AllSequences
<1>. QED
  BY <1>3 DEF T


-----------------------------------------------------------------------------
(* Units                                                                   *)

UnitLaws == INSTANCE LoopLaws WITH Op <- AddUnit, Start <- << >>

LEMMA UnitsLaw ==
  /\ Loop(AddUnit, << >>, << >>) = << >>
  /\ \A E : \A ns \in Seq(E) : \A n \in E :
       Loop(AddUnit, << >>, Append(ns, n)) = AddUnit(Loop(AddUnit, << >>, ns), n)
BY UnitLaws!LoopLaw DEF Loop, UnitLaws!Loop

LEMMA FunctionIsSequence == ASSUME NEW E, NEW k \in Nat PROVE \A f \in [1..k -> E] : f \in Seq(E)
OBVIOUS

UnitSet(L) == [text : Seq(L), protected : BOOLEAN]
UnitTexts(us) == [i \in DOMAIN us |-> us[i].text]

LEMMA UnitTextsLaw ==
  ASSUME NEW L
  PROVE  /\ UnitTexts(<< >>) = << >>
         /\ \A us \in Seq(UnitSet(L)) : UnitTexts(us) \in Seq(Seq(L)) /\ Len(UnitTexts(us)) = Len(us)
         /\ \A us \in Seq(UnitSet(L)), u \in UnitSet(L) :
              UnitTexts(Append(us, u)) = Append(UnitTexts(us), u.text)
         /\ \A us, vs \in Seq(UnitSet(L)) : UnitTexts(us \o vs) = UnitTexts(us) \o UnitTexts(vs)
<1>1. UnitTexts(<< >>) = << >>
  BY DEF UnitTexts
<1>2. \A us \in Seq(UnitSet(L)) : UnitTexts(us) \in Seq(Seq(L)) /\ Len(UnitTexts(us)) = Len(us)
  <2>. SUFFICES ASSUME NEW us \in Seq(UnitSet(L))
                PROVE  UnitTexts(us) \in Seq(Seq(L)) /\ Len(UnitTexts(us)) = Len(us)
    OBVIOUS
  <2>1. \A i \in 1..Len(us) : us[i].text \in Seq(L)
    <3>1. \A i \in 1..Len(us) : us[i] \in UnitSet(L)
      OBVIOUS
    <3>2. \A u \in UnitSet(L) : u.text \in Seq(L)
      BY DEF UnitSet
    <3>. QED
      BY <3>1, <3>2
  <2>2. UnitTexts(us) = [i \in 1..Len(us) |-> us[i].text] /\ Len(us) \in Nat
    BY DEF UnitTexts
  <2>. QED
    BY <2>1, <2>2
<1>3. ASSUME NEW us \in Seq(UnitSet(L)), NEW u \in UnitSet(L)
      PROVE  UnitTexts(Append(us, u)) = Append(UnitTexts(us), u.text)
  BY DEF UnitTexts
<1>4. ASSUME NEW us \in Seq(UnitSet(L)), NEW vs \in Seq(UnitSet(L))
      PROVE  UnitTexts(us \o vs) = UnitTexts(us) \o UnitTexts(vs)
  <2>. DEFINE a == UnitTexts(us)
              b == UnitTexts(vs)
              c == UnitTexts(us \o vs)
  <2>1. /\ a \in Seq(Seq(L)) /\ b \in Seq(Seq(L)) /\ c \in Seq(Seq(L))
        /\ Len(a) = Len(us) /\ Len(b) = Len(vs) /\ Len(c) = Len(us \o vs)
    <3>1. us \o vs \in Seq(UnitSet(L))
      OBVIOUS
    <3>2. \A w \in Seq(UnitSet(L)) : UnitTexts(w) \in Seq(Seq(L)) /\ Len(UnitTexts(w)) = Len(w)
      BY <1>2
    <3>. QED
      BY <3>1, <3>2
  <2>2. Len(us \o vs) = Len(us) + Len(vs) /\ Len(us) \in Nat /\ Len(vs) \in Nat
    OBVIOUS
  <2>3. ASSUME NEW i \in 1..(Len(us) + Len(vs)) PROVE c[i] = (a \o b)[i]
    <3>1. c[i] = (us \o vs)[i].text
      BY <2>2 DEF UnitTexts
    <3>2. CASE i <= Len(us)
      <4>1. a[i] = us[i].text /\ (us \o vs)[i] = us[i] /\ (a \o b)[i] = a[i]
        BY <2>1, <2>2, <3>2 DEF UnitTexts
      <4>. QED
        BY <3>1, <4>1
    <3>3. CASE i > Len(us)
      <4>1. /\ b[i - Len(us)] = vs[i - Len(us)].text /\ (us \o vs)[i] = vs[i - Len(us)]
            /\ (a \o b)[i] = b[i - Len(us)]
        BY <2>1, <2>2, <3>3 DEF UnitTexts
      <4>. QED
        BY <3>1, <4>1
    <3>4. i \in Int
      BY <2>2
    <3>5. i <= Len(us) \/ i > Len(us)
      BY <2>2, <3>4
    <3>. QED
      BY <3>2, <3>3, <3>5, Zenon
  <2>4. a \o b \in Seq(Seq(L)) /\ Len(a \o b) = Len(c)
    BY <2>1, <2>2
  <2>. HIDE DEF a, b, c
  <2>5. c = a \o b
    <3>1. Len(c) = Len(us) + Len(vs)
      BY <2>1, <2>2
    <3>2. \A i \in 1..Len(c) : c[i] = (a \o b)[i]
      BY <2>3, <3>1
    <3>3. c \in Seq(Seq(L)) /\ a \o b \in Seq(Seq(L)) /\ Len(a \o b) = Len(c)
      BY <2>1, <2>4
    <3>. DEFINE d == a \o b
    <3>. HIDE DEF d
    <3>. QED
      BY <3>2, <3>3, SeqEqual DEF d
  <2>. QED
    BY <2>5 DEF a, b, c
<1>. QED
  BY <1>1, <1>2, <1>3, <1>4

\* What is cut after the nodes so far is not cut inside the next one.
LEMMA CleanStep ==
  ASSUME NEW L, NEW ns \in Seq(Nodes(L)), NEW n \in Nodes(L), NEW old, NEW new,
         \A p \in old : p \in Nat /\ p <= Len(TextOf(ns)),
         \A p \in new : p \in Nat /\ p >= Len(TextOf(ns)),
         Protected(n) => \A p \in new : p >= Len(TextOf(ns)) + Len(NodeText(n)),
         old \cap Inside(ns) = {}
  PROVE  (old \cup new) \cap Inside(Append(ns, n)) = {}
<1>1. Inside(Append(ns, n)) = Inside(ns) \cup InsideOne(Len(TextOf(ns)), n)
  BY InsideLaw
<1>2. Len(TextOf(ns)) \in Nat /\ Len(NodeText(n)) \in Nat
  <2>1. TextOf(ns) \in Seq(L) /\ NodeText(n) \in Seq(L)
    BY TextIsText, NodeTextIsText
  <2>. QED
    BY <2>1
<1>3. \A p \in Inside(ns) : p \in Nat /\ p < Len(TextOf(ns))
  BY InsideBound
<1>4. (old \cup new) \cap InsideOne(Len(TextOf(ns)), n) = {}
  BY <1>2 DEF InsideOne
<1>5. new \cap Inside(ns) = {}
  BY <1>2, <1>3
<1>. QED
  BY <1>1, <1>4, <1>5

\* The units are the nodes' text, cut inside none that must not be.
UnitsFit(L, us, ns) ==
  /\ us \in Seq(UnitSet(L))
  /\ Joined(UnitTexts(us)) = TextOf(ns)
  /\ Ends(UnitTexts(us)) \cap Inside(ns) = {}

LEMMA AddUnitFits ==
  ASSUME NEW L, NEW ns \in Seq(Nodes(L)), NEW n \in Nodes(L), NEW us, UnitsFit(L, us, ns)
  PROVE  UnitsFit(L, AddUnit(us, n), Append(ns, n))
<1>. DEFINE x == NodeText(n)
            new == AddUnit(us, n)
            T == TextOf(ns)
<1>1. /\ us \in Seq(UnitSet(L)) /\ UnitTexts(us) \in Seq(Seq(L))
      /\ Joined(UnitTexts(us)) = T /\ Ends(UnitTexts(us)) \cap Inside(ns) = {}
  BY UnitTextsLaw DEF UnitsFit
<1>2. x \in Seq(L) /\ T \in Seq(L) /\ Len(x) \in Nat /\ Len(T) \in Nat /\ Len(T \o x) = Len(T) + Len(x)
  <2>1. x \in Seq(L) /\ T \in Seq(L)
    BY NodeTextIsText, TextIsText
  <2>. QED
    BY <2>1
<1>3. TextOf(Append(ns, n)) = T \o x
  BY TextLaw
<1>4. \A p \in Ends(UnitTexts(us)) : p \in Nat /\ p <= Len(T)
  BY <1>1, EndsBound
<1>. HIDE DEF x, new, T
\* One more unit, or the last one longer: at the end of the node.
<1>5. ASSUME NEW vs \in Seq(UnitSet(L)), Joined(UnitTexts(vs)) = T \o x,
             Ends(UnitTexts(vs)) \subseteq Ends(UnitTexts(us)) \cup {Len(T \o x)}
      PROVE  UnitsFit(L, vs, Append(ns, n))
  <2>1. (Ends(UnitTexts(us)) \cup {Len(T \o x)}) \cap Inside(Append(ns, n)) = {}
    <3>1. \A p \in {Len(T \o x)} : p \in Nat /\ p >= Len(T) /\ p >= Len(T) + Len(x)
      BY <1>2
    <3>2. /\ \A p \in Ends(UnitTexts(us)) : p \in Nat /\ p <= Len(TextOf(ns))
          /\ \A p \in {Len(T \o x)} :
               p \in Nat /\ p >= Len(TextOf(ns)) /\ p >= Len(TextOf(ns)) + Len(NodeText(n))
      BY <1>4, <3>1 DEF T, x
    <3>. DEFINE old == Ends(UnitTexts(us))
                end == {Len(T \o x)}
    <3>3. old \cap Inside(ns) = {}
      BY <1>1
    <3>. HIDE DEF old, end
    <3>4. /\ \A p \in old : p \in Nat /\ p <= Len(TextOf(ns))
          /\ \A p \in end : p \in Nat /\ p >= Len(TextOf(ns))
          /\ \A p \in end : p >= Len(TextOf(ns)) + Len(NodeText(n))
      BY <3>2 DEF old, end
    <3>5. (old \cup end) \cap Inside(Append(ns, n)) = {}
      BY <3>3, <3>4, CleanStep
    <3>. QED
      BY <3>5 DEF old, end
  <2>. QED
    BY <1>3, <1>5, <2>1 DEF UnitsFit
<1>6. ASSUME NEW p \in BOOLEAN, new = Append(us, Unit(x, p)) PROVE UnitsFit(L, new, Append(ns, n))
  <2>1. Unit(x, p) \in UnitSet(L) /\ Unit(x, p).text = x
    BY <1>2 DEF UnitSet, Unit
  <2>2. new \in Seq(UnitSet(L)) /\ UnitTexts(new) = Append(UnitTexts(us), x)
    BY <1>1, <1>6, <2>1, UnitTextsLaw
  <2>3. Joined(UnitTexts(new)) = T \o x
    BY <1>1, <1>2, <2>2, JoinedLaw
  <2>4. Ends(UnitTexts(new)) = Ends(UnitTexts(us)) \cup {Len(T \o x)}
    <3>. DEFINE v == UnitTexts(us)
    <3>1. v \in Seq(Seq(L))
      BY <1>1
    <3>. HIDE DEF v
    <3>2. Ends(Append(v, x)) = Ends(v) \cup {Len(Joined(Append(v, x)))}
      BY <1>2, <3>1, EndsLaw
    <3>. QED
      BY <2>2, <2>3, <3>2 DEF v
  <2>. QED
    BY <1>5, <2>2, <2>3, <2>4
<1>7. ASSUME us # << >>, new = Glued(us, n) PROVE UnitsFit(L, new, Append(ns, n))
  <2>. DEFINE l == Last(us)
              m == [text |-> l.text \o x, protected |-> l.protected]
              f == ButLast(us)
  <2>1. /\ l \in UnitSet(L) /\ l = us[Len(us)] /\ f \in Seq(UnitSet(L)) /\ us = Append(f, l)
        /\ \A y : WithLast(us, y) = Append(f, y)
    BY <1>1, <1>7, FrontAndLast
  <2>2. l.text \in Seq(L) /\ m \in UnitSet(L) /\ m.text = l.text \o x
    <3>1. l.text \in Seq(L) /\ l.protected \in BOOLEAN
      BY <2>1 DEF UnitSet
    <3>2. l.text \o x \in Seq(L)
      BY <1>2, <3>1
    <3>. QED
      BY <3>1, <3>2 DEF UnitSet
  <2>3. Glued(us, n) = WithLast(us, m)
    <3>1. Len(us) \in DOMAIN us
      BY <1>1, <1>7, FrontAndLast
    <3>2. m = [l EXCEPT !.text = @ \o x]
      <4>1. \A v \in UnitSet(L) : \A y : [v EXCEPT !.text = y] = [text |-> y, protected |-> v.protected]
        BY DEF UnitSet
      <4>2. [l EXCEPT !.text = l.text \o x] = [text |-> l.text \o x, protected |-> l.protected]
        BY <2>1, <4>1
      <4>. QED
        BY <4>2
    <3>. HIDE DEF m
    <3>3. m = [us[Len(us)] EXCEPT !.text = @ \o NodeText(n)]
      BY <2>1, <3>2 DEF x
    <3>. QED
      BY <3>1, <3>3 DEF Glued, WithLast
  <2>. HIDE DEF l, m, f
  <2>4. new \in Seq(UnitSet(L)) /\ UnitTexts(new) = Append(UnitTexts(f), l.text \o x)
    <3>1. new = Append(f, m)
      BY <1>7, <2>1, <2>3
    <3>2. UnitTexts(Append(f, m)) = Append(UnitTexts(f), m.text)
      BY <2>1, <2>2, UnitTextsLaw
    <3>3. Append(f, m) \in Seq(UnitSet(L))
      BY <2>1, <2>2
    <3>. QED
      BY <2>2, <3>1, <3>2, <3>3
  <2>5. UnitTexts(us) = Append(UnitTexts(f), l.text) /\ UnitTexts(f) \in Seq(Seq(L))
    BY <2>1, UnitTextsLaw
  <2>6. Joined(UnitTexts(new)) = T \o x
    <3>1. Joined(UnitTexts(new)) = Joined(UnitTexts(f)) \o (l.text \o x)
      <4>1. l.text \o x \in Seq(L)
        BY <1>2, <2>2
      <4>. QED
        BY <2>4, <2>5, <4>1, JoinedLaw
    <3>2. T = Joined(UnitTexts(f)) \o l.text
      BY <1>1, <2>2, <2>5, JoinedLaw
    <3>3. Joined(UnitTexts(f)) \in Seq(L)
      BY <2>5, JoinedIsText
    <3>4. Joined(UnitTexts(f)) \o (l.text \o x) = (Joined(UnitTexts(f)) \o l.text) \o x
      <4>. DEFINE j == Joined(UnitTexts(f))
                  y == l.text
      <4>1. j \in Seq(L) /\ y \in Seq(L) /\ x \in Seq(L)
        BY <1>2, <2>2, <3>3
      <4>. HIDE DEF j, y
      <4>2. (j \o y) \o x = j \o (y \o x)
        BY <4>1, Associative, SMTT(30)
      <4>. QED
        BY <4>2 DEF j, y
    <3>. QED
      BY <3>1, <3>2, <3>4
  <2>7. Ends(UnitTexts(new)) \subseteq Ends(UnitTexts(us)) \cup {Len(T \o x)}
    <3>1. l.text \o x \in Seq(L)
      BY <1>2, <2>2
    <3>. DEFINE v == UnitTexts(f)
                y == l.text \o x
                z == l.text
    <3>2. v \in Seq(Seq(L)) /\ y \in Seq(L) /\ z \in Seq(L)
      BY <2>2, <2>5, <3>1
    <3>3. UnitTexts(new) = Append(v, y) /\ UnitTexts(us) = Append(v, z)
      BY <2>4, <2>5
    <3>. HIDE DEF v, y, z
    <3>4. /\ Ends(Append(v, y)) = Ends(v) \cup {Len(Joined(Append(v, y)))}
          /\ Ends(Append(v, z)) = Ends(v) \cup {Len(Joined(Append(v, z)))}
      BY <3>2, EndsLaw
    <3>. QED
      BY <2>6, <3>3, <3>4
  <2>. QED
    BY <1>5, <2>4, <2>6, <2>7
<1>8. ASSUME ~Protected(n), new = us \o [i \in DOMAIN n.parts |-> Unit(n.parts[i], FALSE)]
      PROVE  UnitsFit(L, new, Append(ns, n))
  <2>. DEFINE vs == [i \in DOMAIN n.parts |-> Unit(n.parts[i], FALSE)]
  <2>1. n.parts \in Seq(Seq(L)) /\ Joined(n.parts) = x
    BY DEF Nodes, x, NodeText
  <2>2. vs \in Seq(UnitSet(L)) /\ UnitTexts(vs) = n.parts
    <3>1. /\ \A i \in 1..Len(n.parts) : n.parts[i] \in Seq(L)
          /\ Len(n.parts) \in Nat /\ DOMAIN n.parts = 1..Len(n.parts)
          /\ n.parts = [i \in DOMAIN n.parts |-> n.parts[i]]
      BY <2>1
    <3>2. \A i \in 1..Len(n.parts) : vs[i] \in UnitSet(L) /\ vs[i].text = n.parts[i]
      BY <3>1 DEF UnitSet, Unit
    <3>3. vs = [i \in 1..Len(n.parts) |-> vs[i]] /\ DOMAIN vs = DOMAIN n.parts
      BY <3>1
    <3>. HIDE DEF vs
    <3>4. vs \in Seq(UnitSet(L)) /\ DOMAIN vs = 1..Len(n.parts)
      <4>1. DOMAIN vs = 1..Len(n.parts)
        BY <3>1, <3>3
      <4>2. vs \in [1..Len(n.parts) -> UnitSet(L)]
        BY <3>2, <3>3
      <4>3. Len(n.parts) \in Nat
        BY <3>1
      <4>. QED
        BY <4>1, <4>2, <4>3, FunctionIsSequence
    <3>5. UnitTexts(vs) = [i \in 1..Len(n.parts) |-> n.parts[i]]
      BY <3>2, <3>4 DEF UnitTexts
    <3>. QED
      BY <3>1, <3>4, <3>5
  <2>3. new \in Seq(UnitSet(L)) /\ UnitTexts(new) = UnitTexts(us) \o n.parts
    <3>1. new = us \o vs
      BY <1>8
    <3>. HIDE DEF vs
    <3>2. us \o vs \in Seq(UnitSet(L))
      BY <1>1, <2>2
    <3>3. UnitTexts(us \o vs) = UnitTexts(us) \o UnitTexts(vs)
      BY <1>1, <2>2, UnitTextsLaw, Zenon
    <3>. QED
      BY <2>2, <3>1, <3>2, <3>3
  <2>4. Joined(UnitTexts(new)) = T \o x
    BY <1>1, <2>1, <2>3, JoinedOfTwo
  <2>5. Ends(UnitTexts(new)) = Ends(UnitTexts(us)) \cup Shifted(Len(T), Ends(n.parts))
    <3>. DEFINE v == UnitTexts(us)
                w == n.parts
    <3>1. v \in Seq(Seq(L)) /\ w \in Seq(Seq(L))
      BY <1>1, <2>1
    <3>. HIDE DEF v, w
    <3>2. Ends(v \o w) = Ends(v) \cup Shifted(Len(Joined(v)), Ends(w))
      BY <3>1, EndsOfTwo
    <3>. QED
      BY <1>1, <2>3, <3>2 DEF v, w
  <2>6. \A p \in Shifted(Len(T), Ends(n.parts)) : p \in Nat /\ p >= Len(T)
    BY <1>2, <2>1, EndsBound DEF Shifted
  <2>7. Ends(UnitTexts(new)) \cap Inside(Append(ns, n)) = {}
    <3>. DEFINE old == Ends(UnitTexts(us))
                end == Shifted(Len(T), Ends(n.parts))
    <3>1. /\ \A p \in old : p \in Nat /\ p <= Len(TextOf(ns))
          /\ \A p \in end : p \in Nat /\ p >= Len(TextOf(ns))
          /\ old \cap Inside(ns) = {}
      BY <1>1, <1>4, <2>6 DEF T
    <3>. HIDE DEF old, end
    <3>2. (old \cup end) \cap Inside(Append(ns, n)) = {}
      BY <1>8, <3>1, CleanStep
    <3>. QED
      BY <2>5, <3>2 DEF old, end
  <2>. QED
    BY <1>3, <2>3, <2>4, <2>7 DEF UnitsFit
<1>. QED
  BY <1>6, <1>7, <1>8 DEF AddUnit, new, x, Protected

LEMMA SectionUnitsFit ==
  ASSUME NEW L, NEW ns \in Seq(Nodes(L))
  PROVE  UnitsFit(L, Units(ns), ns)
<1>. DEFINE T == {ms \in Seq(Nodes(L)) : UnitsFit(L, Loop(AddUnit, << >>, ms), ms)}
<1>1. << >> \in T
  <2>1. UnitsFit(L, << >>, << >>)
    BY UnitTextsLaw, JoinedLaw, TextLaw, EndsLaw, EmptySeq DEF UnitsFit
  <2>. QED
    BY <2>1, UnitsLaw, EmptySeq
<1>2. ASSUME NEW ms \in Seq(Nodes(L)), NEW n \in Nodes(L), ms \in T PROVE Append(ms, n) \in T
  <2>1. UnitsFit(L, Loop(AddUnit, << >>, ms), ms)
    BY <1>2
  <2>2. UnitsFit(L, AddUnit(Loop(AddUnit, << >>, ms), n), Append(ms, n))
    BY <2>1, AddUnitFits
  <2>3. Loop(AddUnit, << >>, Append(ms, n)) = AddUnit(Loop(AddUnit, << >>, ms), n)
    BY UnitsLaw
  <2>4. Append(ms, n) \in Seq(Nodes(L))
    OBVIOUS
  <2>. QED
    BY <2>2, <2>3, <2>4
<1>. HIDE DEF T
<1>3. Seq(Nodes(L)) \subseteq T
  BY <1>1, <1>2, JoinLaws!AllSequences
<1>4. /\ Paragraphs(ns) \in Seq(Nodes(L)) /\ TextOf(Paragraphs(ns)) = TextOf(ns)
      /\ Inside(Paragraphs(ns)) = Inside(ns)
  BY ParagraphsKeepText
<1>5. UnitsFit(L, Loop(AddUnit, << >>, Paragraphs(ns)), Paragraphs(ns))
  BY <1>3, <1>4 DEF T
<1>. QED
  BY <1>4, <1>5 DEF UnitsFit, Units, Paragraphs


-----------------------------------------------------------------------------
(* Packing                                                                 *)

\* ToSet of the community modules, for one more element and for two sequences.
LEMMA ToSetLaw ==
  ASSUME NEW E
  PROVE  /\ ToSet(<< >>) = {}
         /\ \A s \in Seq(E) : \A x \in E : ToSet(Append(s, x)) = ToSet(s) \cup {x}
         /\ \A s \in Seq(E) : \A t \in Seq(E) : ToSet(s \o t) = ToSet(s) \cup ToSet(t)
<1>1. ToSet(<< >>) = {}
  BY DEF ToSet
<1>2. ASSUME NEW s \in Seq(E), NEW x \in E PROVE ToSet(Append(s, x)) = ToSet(s) \cup {x}
  <2>1. /\ DOMAIN Append(s, x) = DOMAIN s \cup {Len(s) + 1} /\ Append(s, x)[Len(s) + 1] = x
        /\ \A i \in DOMAIN s : Append(s, x)[i] = s[i]
    OBVIOUS
  <2>. QED
    BY <2>1 DEF ToSet
<1>3. ASSUME NEW s \in Seq(E), NEW t \in Seq(E) PROVE ToSet(s \o t) = ToSet(s) \cup ToSet(t)
  <2>1. \A u : ToSet(u) = Range(u)
    BY DEF ToSet, Range
  <2>2. Range(s \o t) = Range(s) \cup Range(t)
    BY RangeConcatenation
  <2>. QED
    BY <2>1, <2>2
<1>. QED
  BY <1>1, <1>2, <1>3

Packs(L) == [chunks : Seq(Seq(L)), buf : Seq(L)]

\* The chunks and what is pending are the text; the chunks are cut where C
\* allows and are chunks of W; what is pending fits in one.
Packed(L, s, text, C, W) ==
  /\ s \in Packs(L) /\ text \in Seq(L)
  /\ Joined(s.chunks) \o s.buf = text
  /\ Ends(s.chunks) \subseteq C
  /\ ToSet(s.chunks) \subseteq W
  /\ s.buf # << >> => Len(s.buf) <= ChunkMax

LEMMA PacksFields ==
  ASSUME NEW L, NEW s \in Packs(L)
  PROVE  /\ s.chunks \in Seq(Seq(L)) /\ s.buf \in Seq(L)
         /\ s = [chunks |-> s.chunks, buf |-> s.buf]
         /\ \A y : [s EXCEPT !.buf = y] = [chunks |-> s.chunks, buf |-> y]
         /\ \A y : [s EXCEPT !.chunks = y] = [chunks |-> y, buf |-> s.buf]
BY DEF Packs

\* The pending text and the next piece x become a chunk.
LEMMA TakeKeeps ==
  ASSUME NEW L, NEW s, NEW text, NEW C, NEW W, NEW CC, NEW WW, NEW x \in Seq(L),
         Packed(L, s, text, C, W), C \subseteq CC, W \subseteq WW,
         Len(text \o x) \in CC, s.buf \o x \in WW
  PROVE  Packed(L, [chunks |-> Append(s.chunks, s.buf \o x), buf |-> << >>], text \o x, CC, WW)
<1>. DEFINE c == s.chunks
            b == s.buf
            y == b \o x
            r == [chunks |-> Append(c, y), buf |-> << >>]
<1>1. /\ c \in Seq(Seq(L)) /\ b \in Seq(L) /\ text \in Seq(L)
      /\ Joined(c) \o b = text /\ Ends(c) \subseteq C /\ ToSet(c) \subseteq W
  BY PacksFields DEF Packed
<1>2. y \in Seq(L) /\ text \o x \in Seq(L)
  BY <1>1
<1>. HIDE DEF c, b
<1>3. Joined(Append(c, y)) = text \o x
  <2>1. Joined(c) \in Seq(L)
    BY <1>1, JoinedIsText
  <2>. DEFINE j == Joined(c)
  <2>. HIDE DEF j
  <2>2. (j \o b) \o x = j \o (b \o x)
    <3>1. j \in Seq(L) /\ b \in Seq(L)
      BY <1>1, <2>1 DEF j
    <3>. QED
      BY <3>1, Associative, SMTT(30)
  <2>3. Joined(Append(c, y)) = Joined(c) \o y
    BY <1>1, <1>2, JoinedLaw
  <2>. QED
    BY <1>1, <2>2, <2>3 DEF j
<1>. HIDE DEF y
<1>4. Ends(Append(c, y)) \subseteq CC
  <2>1. Ends(Append(c, y)) = Ends(c) \cup {Len(Joined(Append(c, y)))}
    BY <1>1, <1>2, EndsLaw
  <2>. QED
    BY <1>1, <1>3, <2>1
<1>5. ToSet(Append(c, y)) \subseteq WW
  <2>1. ToSet(Append(c, y)) = ToSet(c) \cup {y}
    BY <1>1, <1>2, ToSetLaw
  <2>. QED
    BY <1>1, <2>1 DEF y, b
<1>6. r \in Packs(L) /\ r.chunks = Append(c, y) /\ r.buf = << >>
  <2>1. Append(c, y) \in Seq(Seq(L)) /\ << >> \in Seq(L)
    BY <1>1, <1>2, EmptySeq
  <2>. QED
    BY <2>1 DEF Packs
<1>7. Joined(r.chunks) \o r.buf = text \o x
  <2>. DEFINE z == text \o x
  <2>1. z \in Seq(L)
    BY <1>2
  <2>. HIDE DEF z
  <2>2. z \o << >> = z
    BY <2>1, ConcatEmptySeq
  <2>. QED
    BY <1>3, <1>6, <2>2 DEF z
<1>. HIDE DEF r
<1>8. Packed(L, r, text \o x, CC, WW)
  BY <1>2, <1>4, <1>5, <1>6, <1>7 DEF Packed
<1>. QED
  BY <1>8 DEF r, y, c, b

\* What is pending becomes a chunk of its own.
LEMMA FlushKeeps ==
  ASSUME NEW L, NEW s, NEW text, NEW C, NEW W, Packed(L, s, text, C, W),
         s.buf # << >> => Len(text) \in C /\ s.buf \in W
  PROVE  Packed(L, Flush(s), text, C, W) /\ Flush(s).buf = << >>
<1>1. CASE s.buf = << >>
  BY <1>1 DEF Flush
<1>2. CASE s.buf # << >>
  <2>1. << >> \in Seq(L) /\ text \in Seq(L) /\ s.buf \in Seq(L)
    BY PacksFields, EmptySeq DEF Packed
  <2>2. text \o << >> = text /\ s.buf \o << >> = s.buf
    BY <2>1, ConcatEmptySeq
  <2>. DEFINE e == << >>
              b == s.buf
  <2>3. e \in Seq(L) /\ Len(text \o e) \in C /\ b \o e \in W
    BY <1>2, <2>1, <2>2
  <2>4. Packed(L, [chunks |-> Append(s.chunks, b \o e), buf |-> << >>], text \o e, C, W)
    <3>. HIDE DEF e
    <3>. QED
      BY <2>3, TakeKeeps DEF b
  <2>5. Flush(s) = [chunks |-> Append(s.chunks, b \o e), buf |-> << >>]
    BY <1>2, <2>2 DEF Flush
  <2>. QED
    BY <2>2, <2>4, <2>5
<1>. QED
  BY <1>1, <1>2

\* The next piece joins what is pending.
LEMMA PutKeeps ==
  ASSUME NEW L, NEW s, NEW text, NEW C, NEW W, NEW CC, NEW WW, NEW x \in Seq(L),
         Packed(L, s, text, C, W), C \subseteq CC, W \subseteq WW,
         Len(s.buf \o x) <= ChunkMax
  PROVE  Packed(L, [chunks |-> s.chunks, buf |-> s.buf \o x], text \o x, CC, WW)
<1>. DEFINE c == s.chunks
            b == s.buf
            y == b \o x
            r == [chunks |-> c, buf |-> y]
<1>1. /\ c \in Seq(Seq(L)) /\ b \in Seq(L) /\ text \in Seq(L)
      /\ Joined(c) \o b = text /\ Ends(c) \subseteq C /\ ToSet(c) \subseteq W
  BY PacksFields DEF Packed
<1>2. y \in Seq(L) /\ text \o x \in Seq(L)
  BY <1>1
<1>. HIDE DEF c, b
<1>3. Joined(c) \o y = text \o x
  <2>1. Joined(c) \in Seq(L)
    BY <1>1, JoinedIsText
  <2>. DEFINE j == Joined(c)
  <2>. HIDE DEF j
  <2>2. (j \o b) \o x = j \o (b \o x)
    <3>1. j \in Seq(L) /\ b \in Seq(L)
      BY <1>1, <2>1 DEF j
    <3>. QED
      BY <3>1, Associative, SMTT(30)
  <2>. QED
    BY <1>1, <2>2 DEF j
<1>4. Len(y) <= ChunkMax
  BY DEF b
<1>. HIDE DEF y
<1>5. r \in Packs(L) /\ r.chunks = c /\ r.buf = y
  BY <1>1, <1>2 DEF Packs
<1>. HIDE DEF r
<1>6. Packed(L, r, text \o x, CC, WW)
  BY <1>1, <1>2, <1>3, <1>4, <1>5 DEF Packed
<1>. QED
  BY <1>6 DEF r, y, c, b


\* The turn both packing loops take with a piece that fits in a chunk.
Turn(s, x) ==
  LET full == IF Len(s.buf) + Len(x) > ChunkMax THEN Flush(s) ELSE s
      put  == [full EXCEPT !.buf = @ \o x]
  IN  IF Len(put.buf) >= ChunkMin THEN Flush(put) ELSE put

LEMMA TurnKeeps ==
  ASSUME NEW L, NEW s, NEW text, NEW C, NEW W, NEW CC, NEW WW, NEW x \in Seq(L),
         Packed(L, s, text, C, W), C \subseteq CC, W \subseteq WW,
         Len(x) <= ChunkMax, {c \in Seq(L) : Len(c) <= ChunkMax} \subseteq W,
         s.buf # << >> => Len(text) \in C, Len(text \o x) \in CC
  PROVE  Packed(L, Turn(s, x), text \o x, CC, WW)
<1>. DEFINE full == IF Len(s.buf) + Len(x) > ChunkMax THEN Flush(s) ELSE s
            put  == [full EXCEPT !.buf = @ \o x]
<1>a. /\ s \in Packs(L) /\ s.buf \in Seq(L) /\ (s.buf # << >> => Len(s.buf) <= ChunkMax)
      /\ Len(x) \in Nat /\ Len(s.buf) \in Nat /\ ChunkMax \in Int
  BY PacksFields, WindowAssumption DEF Packed
<1>1. Packed(L, full, text, C, W) /\ Len(full.buf) + Len(x) <= ChunkMax
  <2>1. CASE Len(s.buf) + Len(x) > ChunkMax
    <3>1. s.buf # << >> => s.buf \in W
      BY <1>a
    <3>2. Packed(L, Flush(s), text, C, W) /\ Flush(s).buf = << >>
      BY <3>1, FlushKeeps
    <3>3. Len(<< >>) + Len(x) <= ChunkMax
      BY <1>a
    <3>. QED
      BY <2>1, <3>2, <3>3
  <2>2. CASE ~(Len(s.buf) + Len(x) > ChunkMax)
    BY <1>a, <2>2
  <2>. QED
    BY <2>1, <2>2
<1>2. Turn(s, x) = IF Len(put.buf) >= ChunkMin THEN Flush(put) ELSE put
  BY DEF Turn
<1>. HIDE DEF full
<1>3. full \in Packs(L) /\ full.buf \in Seq(L)
  BY <1>1, PacksFields DEF Packed
<1>4. Len(full.buf \o x) <= ChunkMax /\ full.buf \o x \in Seq(L)
  BY <1>1, <1>3
<1>5. put = [chunks |-> full.chunks, buf |-> full.buf \o x] /\ put.buf = full.buf \o x
  BY <1>3, PacksFields
<1>. HIDE DEF put
<1>6. Packed(L, put, text \o x, CC, WW)
  BY <1>1, <1>4, <1>5, PutKeeps
<1>7. put.buf \in WW
  BY <1>4, <1>5
<1>8. Packed(L, Flush(put), text \o x, CC, WW)
  BY <1>6, <1>7, FlushKeeps
<1>. QED
  BY <1>2, <1>6, <1>8

UnitPackLaws == INSTANCE LoopLaws WITH Op <- PackUnit, Start <- [chunks |-> << >>, buf |-> << >>]

PackedUnits(us) == Loop(PackUnit, [chunks |-> << >>, buf |-> << >>], us)

LEMMA PackedUnitsLaw ==
  /\ PackedUnits(<< >>) = [chunks |-> << >>, buf |-> << >>]
  /\ \A E : \A us \in Seq(E) : \A u \in E : PackedUnits(Append(us, u)) = PackUnit(PackedUnits(us), u)
<1>. DEFINE start == [chunks |-> << >>, buf |-> << >>]
<1>1. Loop(PackUnit, start, << >>) = start
  BY UnitPackLaws!LoopLaw DEF Loop, UnitPackLaws!Loop
<1>2. \A E : \A s \in Seq(E) : \A x \in E :
        Loop(PackUnit, start, Append(s, x)) = PackUnit(Loop(PackUnit, start, s), x)
  BY UnitPackLaws!LoopLaw DEF Loop, UnitPackLaws!Loop
<1>. QED
  BY <1>1, <1>2 DEF PackedUnits

LEMMA NothingPacked ==
  ASSUME NEW L, NEW C, NEW W
  PROVE  Packed(L, [chunks |-> << >>, buf |-> << >>], << >>, C, W)
<1>1. << >> \in Seq(L) /\ << >> \in Seq(Seq(L))
  BY EmptySeq
<1>2. << >> \o << >> = << >>
  BY <1>1, ConcatEmptySeq
<1>. QED
  BY <1>1, <1>2, JoinedLaw, EndsLaw, ToSetLaw DEF Packed, Packs

\* A chunk that is as long as a unit makes it, or a remainder too short.
Long(L, us) ==
  {c \in Seq(L) : Len(c) <= ChunkMax \/ \E u \in ToSet(us) : Len(c) <= Short + Len(u.text)}

LEMMA ShortIsNat == Short \in Nat /\ \A n \in Nat : n < ChunkMin => n <= Short
BY WindowAssumption DEF Short

LEMMA PackUnitFits ==
  ASSUME NEW L, NEW us \in Seq(UnitSet(L)), NEW u \in UnitSet(L), NEW s,
         Packed(L, s, Joined(UnitTexts(us)), Ends(UnitTexts(us)), Long(L, us))
  PROVE  Packed(L, PackUnit(s, u), Joined(UnitTexts(Append(us, u))),
                Ends(UnitTexts(Append(us, u))), Long(L, Append(us, u)))
<1>. DEFINE x == u.text
            a == UnitTexts(us)
            vs == Append(us, u)
            text == Joined(a)
            C == Ends(a)
            W == Long(L, us)
            CC == Ends(UnitTexts(vs))
            WW == Long(L, vs)
<1>1. x \in Seq(L) /\ a \in Seq(Seq(L)) /\ UnitTexts(vs) = Append(a, x) /\ vs \in Seq(UnitSet(L))
  <2>1. x \in Seq(L)
    BY DEF UnitSet
  <2>2. a \in Seq(Seq(L)) /\ UnitTexts(vs) = Append(a, x)
    BY UnitTextsLaw
  <2>. QED
    BY <2>1, <2>2
<1>2. ToSet(vs) = ToSet(us) \cup {u}
  BY ToSetLaw
<1>3. W \subseteq WW
  BY <1>2 DEF Long
<1>4. {c \in Seq(L) : Len(c) <= ChunkMax} \subseteq W
  BY DEF Long
<1>5. {c \in Seq(L) : Len(c) <= Short + Len(x)} \subseteq WW
  BY <1>2 DEF Long
<1>6. /\ s \in Packs(L) /\ s.buf \in Seq(L) /\ s.chunks \in Seq(Seq(L)) /\ Joined(s.chunks) \o s.buf = text
      /\ text \in Seq(L) /\ Len(x) \in Nat /\ Len(s.buf) \in Nat /\ ChunkMax \in Int
      /\ s.buf # << >> => Len(s.buf) <= ChunkMax
  BY <1>1, PacksFields, WindowAssumption DEF Packed
<1>. HIDE DEF W, WW, x, vs, a
<1>7. Joined(UnitTexts(vs)) = text \o x /\ CC = C \cup {Len(text \o x)}
  <2>1. Joined(Append(a, x)) = Joined(a) \o x
    BY <1>1, JoinedLaw
  <2>2. Ends(Append(a, x)) = Ends(a) \cup {Len(Joined(Append(a, x)))}
    BY <1>1, EndsLaw
  <2>. QED
    BY <1>1, <2>1, <2>2
<1>8. s.buf # << >> => Len(text) \in C
  <2>1. a = << >> => s.buf = << >>
    <3>1. a = << >> => text = << >>
      BY JoinedLaw
    <3>2. Joined(s.chunks) \in Seq(L)
      BY <1>6, JoinedIsText
    <3>3. Joined(s.chunks) \o s.buf = << >> => s.buf = << >>
      BY <1>6, <3>2, ConcatEqualIffEmpty
    <3>. QED
      BY <1>6, <3>1, <3>3
  <2>. QED
    BY <1>1, <2>1, EndsBound
<1>9. Packed(L, s, text, C, W)
  BY DEF W, a
<1>. HIDE DEF text, C, CC
<1>c. C \subseteq CC /\ Len(text \o x) \in CC
  BY <1>7
<1>10. CASE Len(x) > ChunkMax /\ s.buf # << >> /\ Len(s.buf) < ChunkMin
  <2>1. PackUnit(s, u) = [chunks |-> Append(s.chunks, s.buf \o x), buf |-> << >>]
    BY <1>10 DEF PackUnit, x
  <2>2. s.buf \o x \in WW
    <3>1. s.buf \o x \in Seq(L) /\ Len(s.buf \o x) = Len(s.buf) + Len(x)
      BY <1>1, <1>6
    <3>2. Len(s.buf) <= Short /\ Short \in Nat
      BY <1>6, <1>10, ShortIsNat
    <3>3. Len(s.buf \o x) <= Short + Len(x)
      BY <1>6, <3>1, <3>2
    <3>. QED
      BY <1>5, <3>1, <3>3
  <2>3. Packed(L, [chunks |-> Append(s.chunks, s.buf \o x), buf |-> << >>], text \o x, CC, WW)
    BY <1>1, <1>3, <1>c, <1>9, <2>2, TakeKeeps
  <2>. QED
    BY <1>7, <2>1, <2>3 DEF CC, WW, vs
<1>11. CASE Len(x) > ChunkMax /\ ~(s.buf # << >> /\ Len(s.buf) < ChunkMin)
  <2>. DEFINE f == Flush(s)
  <2>1. PackUnit(s, u) = [Flush(s) EXCEPT !.chunks = Append(@, x)]
    BY <1>11 DEF PackUnit, x
  <2>2. Packed(L, f, text, C, W) /\ f.buf = << >>
    <3>1. s.buf # << >> => s.buf \in W
      BY <1>4, <1>6
    <3>. QED
      BY <1>8, <1>9, <3>1, FlushKeeps
  <2>3. f \in Packs(L)
    BY <2>2 DEF Packed
  <2>4. x \in WW /\ << >> \o x = x
    <3>1. Len(x) <= Short + Len(x)
      BY <1>6, ShortIsNat
    <3>. QED
      BY <1>1, <1>5, <3>1, ConcatEmptySeq
  <2>. HIDE DEF f
  <2>5. [f EXCEPT !.chunks = Append(f.chunks, x)] = [chunks |-> Append(f.chunks, f.buf \o x), buf |-> << >>]
    <3>. DEFINE y == Append(f.chunks, x)
    <3>1. [f EXCEPT !.chunks = y] = [chunks |-> y, buf |-> f.buf]
      BY <2>3, PacksFields
    <3>. QED
      BY <2>2, <2>4, <3>1
  <2>6. Packed(L, [chunks |-> Append(f.chunks, f.buf \o x), buf |-> << >>], text \o x, CC, WW)
    BY <1>1, <1>3, <1>c, <2>2, <2>4, TakeKeeps
  <2>. QED
    BY <1>7, <2>1, <2>5, <2>6 DEF CC, WW, vs, f
<1>12. CASE ~(Len(x) > ChunkMax)
  <2>1. PackUnit(s, u) = Turn(s, x)
    BY <1>12 DEF PackUnit, Turn, x
  <2>2. Packed(L, Turn(s, x), text \o x, CC, WW)
    <3>1. Len(x) <= ChunkMax
      BY <1>6, <1>12
    <3>. QED
      BY <1>1, <1>3, <1>4, <1>c, <1>8, <1>9, <3>1, TurnKeeps
  <2>. QED
    BY <1>7, <2>1, <2>2 DEF CC, WW, vs
<1>. QED
  BY <1>10, <1>11, <1>12


LEMMA UnitsPacked ==
  ASSUME NEW L
  PROVE  \A us \in Seq(UnitSet(L)) :
           Packed(L, PackedUnits(us), Joined(UnitTexts(us)), Ends(UnitTexts(us)), Long(L, us))
<1>. DEFINE T == {us \in Seq(UnitSet(L)) :
           Packed(L, PackedUnits(us), Joined(UnitTexts(us)), Ends(UnitTexts(us)), Long(L, us))}
<1>1. << >> \in T
  <2>1. << >> \in Seq(UnitSet(L))
    BY EmptySeq
  <2>2. Joined(UnitTexts(<< >>)) = << >>
    BY UnitTextsLaw, JoinedLaw
  <2>3. Packed(L, PackedUnits(<< >>), << >>, Ends(UnitTexts(<< >>)), Long(L, << >>))
    BY NothingPacked, PackedUnitsLaw
  <2>. QED
    BY <2>1, <2>2, <2>3
<1>2. ASSUME NEW us \in Seq(UnitSet(L)), NEW u \in UnitSet(L), us \in T PROVE Append(us, u) \in T
  <2>. DEFINE s == PackedUnits(us)
  <2>1. Packed(L, s, Joined(UnitTexts(us)), Ends(UnitTexts(us)), Long(L, us))
    BY <1>2
  <2>2. PackedUnits(Append(us, u)) = PackUnit(s, u)
    BY PackedUnitsLaw
  <2>. HIDE DEF s
  <2>3. Packed(L, PackUnit(s, u), Joined(UnitTexts(Append(us, u))),
               Ends(UnitTexts(Append(us, u))), Long(L, Append(us, u)))
    BY <2>1, PackUnitFits
  <2>4. Append(us, u) \in Seq(UnitSet(L))
    OBVIOUS
  <2>. QED
    BY <2>2, <2>3, <2>4
<1>. HIDE DEF T
<1>3. Seq(UnitSet(L)) \subseteq T
  BY <1>1, <1>2, JoinLaws!AllSequences
<1>. QED
  BY <1>3 DEF T

\* What may become of units P: see WithinWindow.
Wide(L, P) ==
  {c \in Seq(L) : \/ Len(c) <= ChunkMax + Short
                  \/ \E u \in P : Len(c) <= Short + Len(u.text) + Short}

\* An oversized section is its chunks, cut where its units end.
LEMMA SplitFits ==
  ASSUME NEW L, NEW ns \in Seq(Nodes(L))
  PROVE  /\ SplitOversized(ns) \in Seq(Seq(L))
         /\ Joined(SplitOversized(ns)) = TextOf(ns)
         /\ Ends(SplitOversized(ns)) \cap Inside(ns) = {}
         /\ ToSet(SplitOversized(ns)) \subseteq Wide(L, ToSet(Units(ns)))
<1>. DEFINE us == Units(ns)
            a == UnitTexts(us)
            text == Joined(a)
            C == Ends(a)
            W == Long(L, us)
            WW == Wide(L, ToSet(us))
            s == PackedUnits(us)
            R == SplitOversized(ns)
<1>1. us \in Seq(UnitSet(L)) /\ text = TextOf(ns) /\ C \cap Inside(ns) = {}
  BY SectionUnitsFit DEF UnitsFit
<1>2. a \in Seq(Seq(L))
  BY <1>1, UnitTextsLaw
<1>3. Packed(L, s, text, C, W)
  BY <1>1, UnitsPacked
<1>4. R = IF s.buf # << >> /\ s.chunks # << >> /\ Len(s.buf) < ChunkMin
          THEN [s.chunks EXCEPT ![Len(s.chunks)] = @ \o s.buf]
          ELSE Flush(s).chunks
  BY DEF SplitOversized, PackedUnits
<1>. HIDE DEF us, R, s
<1>5. /\ s \in Packs(L) /\ s.chunks \in Seq(Seq(L)) /\ s.buf \in Seq(L) /\ Len(s.buf) \in Nat
      /\ text \in Seq(L) /\ Joined(s.chunks) \o s.buf = text
      /\ Ends(s.chunks) \subseteq C /\ ToSet(s.chunks) \subseteq W
      /\ s.buf # << >> => Len(s.buf) <= ChunkMax
  BY <1>3, PacksFields DEF Packed
<1>6. W \subseteq WW
  <2>1. ASSUME NEW c \in W PROVE c \in WW
    <3>1. /\ c \in Seq(L) /\ Len(c) \in Nat
          /\ Len(c) <= ChunkMax \/ \E u \in ToSet(us) : Len(c) <= Short + Len(u.text)
      BY DEF Long
    <3>2. CASE Len(c) <= ChunkMax
      BY <3>1, <3>2, ShortIsNat, WindowAssumption DEF Wide
    <3>3. CASE \E u \in ToSet(us) : Len(c) <= Short + Len(u.text)
      <4>1. PICK u \in ToSet(us) : Len(c) <= Short + Len(u.text)
        BY <3>3
      <4>2. Len(u.text) \in Nat
        <5>1. u \in UnitSet(L)
          BY <1>1, <4>1 DEF ToSet
        <5>2. u.text \in Seq(L)
          BY <5>1 DEF UnitSet
        <5>. QED
          BY <5>2
      <4>3. Len(c) <= Short + Len(u.text) + Short
        BY <3>1, <4>1, <4>2, ShortIsNat
      <4>. QED
        BY <3>1, <4>1, <4>3 DEF Wide
    <3>. QED
      BY <3>1, <3>2, <3>3
  <2>. QED
    BY <2>1
<1>7. s.buf # << >> => Len(text) \in C
  <2>1. a = << >> => s.buf = << >>
    <3>1. a = << >> => text = << >>
      BY JoinedLaw
    <3>2. Joined(s.chunks) \in Seq(L)
      BY <1>5, JoinedIsText
    <3>3. Joined(s.chunks) \o s.buf = << >> => s.buf = << >>
      BY <1>5, <3>2, ConcatEqualIffEmpty
    <3>. QED
      BY <1>5, <3>1, <3>3
  <2>. QED
    BY <1>2, <2>1, EndsBound
<1>. HIDE DEF a, text, C, W, WW
<1>8. CASE s.buf # << >> /\ s.chunks # << >> /\ Len(s.buf) < ChunkMin
  <2>. DEFINE c == s.chunks
              l == Last(c)
              f == ButLast(c)
              b == s.buf
              y == l \o b
  <2>1. /\ l \in Seq(L) /\ l = c[Len(c)] /\ f \in Seq(Seq(L)) /\ c = Append(f, l)
        /\ \A z : WithLast(c, z) = Append(f, z)
    BY <1>5, <1>8, FrontAndLast
  <2>2. R = WithLast(c, y)
    BY <1>4, <1>8, <2>1 DEF WithLast
  <2>3. R = Append(f, y)
    BY <2>1, <2>2
  <2>4. y \in Seq(L) /\ b \in Seq(L) /\ Len(y) = Len(l) + Len(b) /\ Len(b) <= Short /\ Len(l) \in Nat /\ Len(b) \in Nat
    BY <1>5, <1>8, <2>1, ShortIsNat
  <2>5. Joined(c) \o b = text /\ Ends(c) \subseteq C /\ ToSet(c) \subseteq W
    BY <1>5
  <2>. HIDE DEF c, l, f, b
  <2>6. Joined(R) = text
    <3>1. Joined(Append(f, y)) = Joined(f) \o y /\ Joined(Append(f, l)) = Joined(f) \o l
      BY <2>1, <2>4, JoinedLaw
    <3>. DEFINE j == Joined(f)
    <3>2. j \in Seq(L) /\ l \in Seq(L) /\ b \in Seq(L)
      BY <2>1, <2>4, JoinedIsText
    <3>. HIDE DEF j
    <3>3. (j \o l) \o b = j \o (l \o b)
      BY <3>2, Associative, SMTT(30)
    <3>. QED
      BY <2>1, <2>3, <2>5, <3>1, <3>3 DEF j
  <2>. HIDE DEF y
  <2>7. Ends(R) \subseteq C
    <3>1. /\ Ends(Append(f, y)) = Ends(f) \cup {Len(Joined(Append(f, y)))}
          /\ Ends(Append(f, l)) = Ends(f) \cup {Len(Joined(Append(f, l)))}
      BY <2>1, <2>4, EndsLaw
    <3>2. Len(text) \in C
      BY <1>7, <1>8
    <3>. QED
      BY <2>1, <2>3, <2>5, <2>6, <3>1, <3>2
  <2>8. ToSet(R) \subseteq WW
    <3>1. ToSet(Append(f, y)) = ToSet(f) \cup {y} /\ ToSet(Append(f, l)) = ToSet(f) \cup {l}
      BY <2>1, <2>4, ToSetLaw
    <3>2. l \in W
      BY <2>1, <2>5, <3>1
    <3>3. y \in WW
      <4>1. CASE Len(l) <= ChunkMax
        <5>1. Len(y) <= ChunkMax + Short
          BY <2>4, <4>1, ShortIsNat, WindowAssumption
        <5>. QED
          BY <2>4, <5>1 DEF WW, Wide
      <4>2. CASE \E u \in ToSet(us) : Len(l) <= Short + Len(u.text)
        <5>1. PICK u \in ToSet(us) : Len(l) <= Short + Len(u.text)
          BY <4>2
        <5>2. Len(u.text) \in Nat
          <6>1. u \in UnitSet(L)
            BY <1>1, <5>1 DEF ToSet
          <6>2. u.text \in Seq(L)
            BY <6>1 DEF UnitSet
          <6>. QED
            BY <6>2
        <5>3. Len(y) <= Short + Len(u.text) + Short
          BY <2>4, <5>1, <5>2, ShortIsNat
        <5>. QED
          BY <2>4, <5>1, <5>3 DEF WW, Wide
      <4>. QED
        BY <3>2, <4>1, <4>2 DEF W, Long
    <3>. QED
      BY <1>6, <2>1, <2>3, <2>5, <3>1, <3>3
  <2>9. R \in Seq(Seq(L))
    BY <2>1, <2>3, <2>4
  <2>. QED
    BY <1>1, <2>6, <2>7, <2>8, <2>9 DEF R, WW, us
<1>9. CASE ~(s.buf # << >> /\ s.chunks # << >> /\ Len(s.buf) < ChunkMin)
  <2>1. R = Flush(s).chunks
    BY <1>4, <1>9
  <2>2. s.buf # << >> => s.buf \in W
    BY <1>5 DEF W, Long
  <2>3. Packed(L, Flush(s), text, C, W) /\ Flush(s).buf = << >>
    BY <1>3, <1>7, <2>2, FlushKeeps
  <2>4. R \in Seq(Seq(L)) /\ Joined(R) \o << >> = text /\ Ends(R) \subseteq C /\ ToSet(R) \subseteq W
    BY <2>1, <2>3, PacksFields DEF Packed
  <2>5. Joined(R) \in Seq(L) /\ Joined(R) \o << >> = Joined(R)
    BY <2>4, JoinedIsText, ConcatEmptySeq
  <2>. QED
    BY <1>1, <1>6, <2>4, <2>5 DEF R, WW, us
<1>. QED
  BY <1>8, <1>9


-----------------------------------------------------------------------------
(* Sections                                                                *)

SectionLaws == INSTANCE LoopLaws WITH Op <- AddNode, Start <- << >>
KeepLaws == INSTANCE LoopLaws WITH Op <- KeepSection, Start <- << >>

Sections(ns) == Loop(AddNode, << >>, ns)
Kept(secs) == Loop(KeepSection, << >>, secs)

LEMMA SectionsLaw ==
  /\ Sections(<< >>) = << >>
  /\ \A E : \A ns \in Seq(E) : \A n \in E : Sections(Append(ns, n)) = AddNode(Sections(ns), n)
<1>1. Loop(AddNode, << >>, << >>) = << >>
  BY SectionLaws!LoopLaw DEF Loop, SectionLaws!Loop
<1>2. \A E : \A s \in Seq(E) : \A x \in E :
        Loop(AddNode, << >>, Append(s, x)) = AddNode(Loop(AddNode, << >>, s), x)
  BY SectionLaws!LoopLaw DEF Loop, SectionLaws!Loop
<1>. QED
  BY <1>1, <1>2 DEF Sections

LEMMA KeptLaw ==
  /\ Kept(<< >>) = << >>
  /\ \A E : \A ss \in Seq(E) : \A x \in E : Kept(Append(ss, x)) = KeepSection(Kept(ss), x)
<1>1. Loop(KeepSection, << >>, << >>) = << >>
  BY KeepLaws!LoopLaw DEF Loop, KeepLaws!Loop
<1>2. \A E : \A s \in Seq(E) : \A x \in E :
        Loop(KeepSection, << >>, Append(s, x)) = KeepSection(Loop(KeepSection, << >>, s), x)
  BY KeepLaws!LoopLaw DEF Loop, KeepLaws!Loop
<1>. QED
  BY <1>1, <1>2 DEF Kept

\* Every section but the first opens with a heading.
LaterSectionsSpeak(secs) == \A i \in DOMAIN secs : i > 1 => ~IsBlank(secs[i])

LEMMA SectionsAreTheNodes ==
  ASSUME NEW L
  PROVE  \A ns \in Seq(Nodes(L)) :
           /\ Sections(ns) \in Seq(Seq(Nodes(L)))
           /\ Joined(Sections(ns)) = ns
           /\ LaterSectionsSpeak(Sections(ns))
<1>. DEFINE T == {ns \in Seq(Nodes(L)) : /\ Sections(ns) \in Seq(Seq(Nodes(L)))
                                         /\ Joined(Sections(ns)) = ns
                                         /\ LaterSectionsSpeak(Sections(ns))}
<1>1. << >> \in T
  <2>1. << >> \in Seq(Nodes(L)) /\ << >> \in Seq(Seq(Nodes(L))) /\ DOMAIN << >> = {}
    BY EmptySeq
  <2>2. LaterSectionsSpeak(<< >>)
    BY <2>1 DEF LaterSectionsSpeak
  <2>. QED
    BY <2>1, <2>2, SectionsLaw, JoinedLaw
<1>2. ASSUME NEW ns \in Seq(Nodes(L)), NEW n \in Nodes(L), ns \in T PROVE Append(ns, n) \in T
  <2>. DEFINE ss == Sections(ns)
              tt == Sections(Append(ns, n))
  <2>1. ss \in Seq(Seq(Nodes(L))) /\ Joined(ss) = ns /\ LaterSectionsSpeak(ss)
    BY <1>2
  <2>2. tt = AddNode(ss, n) /\ Append(ns, n) \in Seq(Nodes(L))
    BY SectionsLaw
  <2>. HIDE DEF ss, tt
  <2>3. CASE n.kind = "heading" \/ ss = << >>
    <3>1. tt = Append(ss, <<n>>)
      BY <2>2, <2>3 DEF AddNode
    <3>2. <<n>> \in Seq(Nodes(L))
      OBVIOUS
    <3>. DEFINE x == <<n>>
    <3>3. ns \o x = Append(ns, n) /\ x[1] = n /\ 1 \in DOMAIN x
      OBVIOUS
    <3>4. x \in Seq(Nodes(L))
      BY <3>2
    <3>. HIDE DEF x
    <3>5. Joined(Append(ss, x)) = Joined(ss) \o x /\ Append(ss, x) \in Seq(Seq(Nodes(L)))
      <4>1. \A s \in Seq(Seq(Nodes(L))) : \A z \in Seq(Nodes(L)) :
              Joined(Append(s, z)) = Joined(s) \o z /\ Append(s, z) \in Seq(Seq(Nodes(L)))
        BY JoinedLaw
      <4>. QED
        BY <2>1, <3>4, <4>1
    <3>6. LaterSectionsSpeak(Append(ss, x))
      <4>1. /\ DOMAIN Append(ss, x) = DOMAIN ss \cup {Len(ss) + 1} /\ Append(ss, x)[Len(ss) + 1] = x
            /\ \A i \in DOMAIN ss : Append(ss, x)[i] = ss[i]
        BY <2>1
      <4>2. ss # << >> => ~IsBlank(x)
        BY <2>3, <3>3 DEF IsBlank
      <4>3. Len(ss) + 1 > 1 => ss # << >>
        BY EmptySeq
      <4>. QED
        BY <2>1, <4>1, <4>2, <4>3 DEF LaterSectionsSpeak
    <3>. QED
      BY <2>1, <2>2, <3>1, <3>3, <3>5, <3>6 DEF tt, x
  <2>4. CASE ~(n.kind = "heading" \/ ss = << >>)
    <3>. DEFINE l == Last(ss)
                f == ButLast(ss)
                y == Append(l, n)
    <3>1. /\ l \in Seq(Nodes(L)) /\ l = ss[Len(ss)] /\ f \in Seq(Seq(Nodes(L))) /\ ss = Append(f, l)
          /\ \A z : WithLast(ss, z) = Append(f, z)
      BY <2>1, <2>4, FrontAndLast
    <3>2. tt = WithLast(ss, y)
      BY <2>2, <2>4, <3>1 DEF AddNode, WithLast
    <3>3. tt = Append(f, y)
      BY <3>1, <3>2
    <3>4. y \in Seq(Nodes(L)) /\ y = l \o <<n>> /\ <<n>> \in Seq(Nodes(L))
      BY <3>1
    <3>5. IsBlank(y) => IsBlank(l)
      <4>1. DOMAIN l \subseteq DOMAIN y /\ \A i \in DOMAIN l : y[i] = l[i]
        BY <3>1
      <4>. HIDE DEF y
      <4>. QED
        BY <4>1 DEF IsBlank
    <3>6. ns \o <<n>> = Append(ns, n)
      OBVIOUS
    <3>. DEFINE x == <<n>>
    <3>. HIDE DEF l, f, y, x
    <3>7. Joined(tt) = Append(ns, n)
      <4>1. Joined(Append(f, y)) = Joined(f) \o y /\ Joined(Append(f, l)) = Joined(f) \o l
        BY <3>1, <3>4, JoinedLaw
      <4>. DEFINE j == Joined(f)
      <4>2. j \in Seq(Nodes(L)) /\ l \in Seq(Nodes(L)) /\ x \in Seq(Nodes(L))
        BY <3>1, <3>4, JoinedIsText DEF x
      <4>. HIDE DEF j
      <4>3. (j \o l) \o x = j \o (l \o x)
        BY <4>2, Associative, SMTT(30)
      <4>4. ns = j \o l /\ y = l \o x /\ ns \o x = Append(ns, n) /\ Joined(tt) = j \o y
        BY <2>1, <3>1, <3>3, <3>4, <3>6, <4>1 DEF j, x
      <4>. QED
        BY <4>3, <4>4
    <3>8. tt \in Seq(Seq(Nodes(L)))
      BY <3>1, <3>3, <3>4
    <3>9. LaterSectionsSpeak(tt)
      <4>1. /\ DOMAIN tt = DOMAIN f \cup {Len(f) + 1} /\ tt[Len(f) + 1] = y
            /\ \A i \in DOMAIN f : tt[i] = f[i]
        BY SMTT(30), <3>1, <3>3, <3>4
      <4>2. /\ DOMAIN ss = DOMAIN f \cup {Len(f) + 1} /\ ss[Len(f) + 1] = l
            /\ \A i \in DOMAIN f : ss[i] = f[i]
        BY <3>1
      <4>. QED
        BY <2>1, <3>5, <4>1, <4>2 DEF LaterSectionsSpeak
    <3>. QED
      BY <2>2, <3>7, <3>8, <3>9 DEF tt
  <2>. QED
    BY <2>3, <2>4
<1>. HIDE DEF T
<1>3. Seq(Nodes(L)) \subseteq T
  BY <1>1, <1>2, JoinLaws!AllSequences
<1>. QED
  BY <1>3 DEF T

\* Only a first section of empty lines is left out.
LEMMA KeptSections ==
  ASSUME NEW L
  PROVE  \A ss \in Seq(Seq(Nodes(L))) :
           /\ Kept(ss) \in Seq(Seq(Nodes(L)))
           /\ LaterSectionsSpeak(ss) =>
                \E b \in Seq(Nodes(L)) : IsBlank(b) /\ Joined(ss) = b \o Joined(Kept(ss))
<1>. DEFINE T == {ss \in Seq(Seq(Nodes(L))) :
           /\ Kept(ss) \in Seq(Seq(Nodes(L)))
           /\ LaterSectionsSpeak(ss) =>
                \E b \in Seq(Nodes(L)) : IsBlank(b) /\ Joined(ss) = b \o Joined(Kept(ss))}
<1>0. << >> \in Seq(Nodes(L)) /\ IsBlank(<< >>) /\ << >> \o << >> = << >>
  <2>1. << >> \in Seq(Nodes(L))
    BY EmptySeq
  <2>. QED
    BY <2>1, ConcatEmptySeq DEF IsBlank
<1>1. << >> \in T
  <2>1. << >> \in Seq(Seq(Nodes(L)))
    BY EmptySeq
  <2>. QED
    BY <1>0, <2>1, KeptLaw, JoinedLaw
<1>2. ASSUME NEW ss \in Seq(Seq(Nodes(L))), NEW x \in Seq(Nodes(L)), ss \in T PROVE Append(ss, x) \in T
  <2>. DEFINE k == Kept(ss)
              t == Append(ss, x)
  <2>1. k \in Seq(Seq(Nodes(L)))
    BY <1>2
  <2>2. Kept(t) = KeepSection(k, x) /\ Joined(t) = Joined(ss) \o x /\ t \in Seq(Seq(Nodes(L)))
    BY KeptLaw, JoinedLaw
  <2>3. Kept(t) = IF IsBlank(x) THEN k ELSE Append(k, x)
    BY <2>2 DEF KeepSection
  <2>4. Kept(t) \in Seq(Seq(Nodes(L)))
    <3>1. Append(k, x) \in Seq(Seq(Nodes(L)))
      BY <2>1
    <3>. QED
      BY <2>1, <2>3, <3>1
  <2>5. ASSUME LaterSectionsSpeak(t)
        PROVE  \E b \in Seq(Nodes(L)) : IsBlank(b) /\ Joined(t) = b \o Joined(Kept(t))
    <3>1. CASE ss = << >>
      <4>1. k = << >> /\ Joined(ss) = << >>
        BY <3>1, KeptLaw, JoinedLaw
      <4>2. << >> \o x = x /\ x \o << >> = x
        BY ConcatEmptySeq
      <4>3. CASE IsBlank(x)
        BY <2>2, <2>3, <4>1, <4>2, <4>3, JoinedLaw
      <4>4. CASE ~IsBlank(x)
        <5>1. Kept(t) = Append(<< >>, x) /\ << >> \in Seq(Seq(Nodes(L)))
          BY <2>3, <4>1, <4>4, EmptySeq
        <5>2. Joined(Append(<< >>, x)) = Joined(<< >>) \o x
          BY <5>1, JoinedLaw
        <5>3. Joined(Kept(t)) = x
          BY <4>2, <5>1, <5>2, JoinedLaw
        <5>. QED
          BY <1>0, <2>2, <4>1, <4>2, <5>3
      <4>. QED
        BY <4>3, <4>4
    <3>2. CASE ss # << >>
      <4>1. /\ DOMAIN t = DOMAIN ss \cup {Len(ss) + 1} /\ t[Len(ss) + 1] = x
            /\ \A i \in DOMAIN ss : t[i] = ss[i]
            /\ Len(ss) + 1 > 1
        BY <3>2, EmptySeq
      <4>2. ~IsBlank(x) /\ LaterSectionsSpeak(ss)
        BY <2>5, <4>1 DEF LaterSectionsSpeak
      <4>3. PICK b \in Seq(Nodes(L)) : IsBlank(b) /\ Joined(ss) = b \o Joined(k)
        BY <1>2, <4>2
      <4>. HIDE DEF k
      <4>4. Joined(Kept(t)) = Joined(k) \o x
        BY <2>1, <2>3, <4>2, JoinedLaw
      <4>. DEFINE j == Joined(k)
      <4>5. j \in Seq(Nodes(L))
        BY <2>1, JoinedIsText
      <4>. HIDE DEF j
      <4>6. (b \o j) \o x = b \o (j \o x)
        <5>1. j \in Seq(Nodes(L)) /\ b \in Seq(Nodes(L)) /\ x \in Seq(Nodes(L))
          BY <4>5
        <5>. QED
          BY <5>1, Associative, SMTT(30)
      <4>7. Joined(t) = b \o Joined(Kept(t))
        BY <2>2, <4>3, <4>4, <4>6 DEF j
      <4>. QED
        BY <4>3, <4>7
    <3>. QED
      BY <3>1, <3>2
  <2>. QED
    BY <2>2, <2>4, <2>5
<1>. HIDE DEF T
<1>3. Seq(Seq(Nodes(L))) \subseteq T
  BY <1>1, <1>2, JoinLaws!AllSequences
<1>. QED
  BY <1>3 DEF T

\* What is kept of an article is its nodes without empty lines it begins with.
LEMMA KeptNodesAreTheNodes ==
  ASSUME NEW L, NEW ns \in Seq(Nodes(L))
  PROVE  /\ SplitIntoSections(ns) \in Seq(Seq(Nodes(L)))
         /\ KeptNodes(ns) \in Seq(Nodes(L))
         /\ \E k \in 0..Len(ns) :
              IsBlank(SubSeq(ns, 1, k)) /\ ns = SubSeq(ns, 1, k) \o KeptNodes(ns)
<1>1. SplitIntoSections(ns) = Kept(Sections(ns))
  BY DEF SplitIntoSections, Kept, Sections
<1>2. /\ Sections(ns) \in Seq(Seq(Nodes(L))) /\ Joined(Sections(ns)) = ns
      /\ LaterSectionsSpeak(Sections(ns))
  BY SectionsAreTheNodes
<1>3. SplitIntoSections(ns) \in Seq(Seq(Nodes(L)))
  BY <1>1, <1>2, KeptSections
<1>4. PICK b \in Seq(Nodes(L)) : IsBlank(b) /\ ns = b \o KeptNodes(ns)
  BY <1>1, <1>2, KeptSections DEF KeptNodes
<1>5. KeptNodes(ns) \in Seq(Nodes(L))
  BY <1>3, JoinedIsText DEF KeptNodes
<1>. DEFINE m == KeptNodes(ns)
<1>. HIDE DEF m
<1>6. m \in Seq(Nodes(L)) /\ ns = b \o m
  BY <1>4, <1>5 DEF m
<1>7. Len(b) \in 0..Len(ns) /\ SubSeq(ns, 1, Len(b)) = b
  <2>1. Len(ns) = Len(b) + Len(m) /\ Len(b) \in Nat /\ Len(m) \in Nat
    BY <1>6
  <2>2. SubSeq(b \o m, 1, Len(b)) = b
    BY <1>6
  <2>. QED
    BY <1>6, <2>1, <2>2
<1>. QED
  BY <1>3, <1>4, <1>5, <1>7


\* Whole chunks are taken in when nothing is pending.
LEMMA ExtendKeeps ==
  ASSUME NEW L, NEW s, NEW text, NEW C, NEW W, NEW CC, NEW WW, NEW R \in Seq(Seq(L)),
         Packed(L, s, text, C, W), s.buf = << >>, C \subseteq CC, W \subseteq WW,
         Shifted(Len(text), Ends(R)) \subseteq CC, ToSet(R) \subseteq WW
  PROVE  Packed(L, [chunks |-> s.chunks \o R, buf |-> << >>], text \o Joined(R), CC, WW)
<1>. DEFINE c == s.chunks
            t == Joined(R)
            z == text \o t
            r == [chunks |-> c \o R, buf |-> << >>]
<1>1. /\ c \in Seq(Seq(L)) /\ text \in Seq(L) /\ Joined(c) \o << >> = text
      /\ Ends(c) \subseteq C /\ ToSet(c) \subseteq W
  BY PacksFields DEF Packed
<1>2. t \in Seq(L) /\ Joined(c) \in Seq(L)
  BY <1>1, JoinedIsText
<1>3. Joined(c) = text
  BY <1>1, <1>2, ConcatEmptySeq
<1>. HIDE DEF c
<1>4. Joined(c \o R) = z /\ c \o R \in Seq(Seq(L))
  <2>1. Joined(c \o R) = Joined(c) \o Joined(R)
    BY <1>1, JoinedOfTwo
  <2>2. c \o R \in Seq(Seq(L))
    BY <1>1
  <2>. QED
    BY <1>3, <2>1, <2>2
<1>5. Ends(c \o R) \subseteq CC
  <2>1. Ends(c \o R) = Ends(c) \cup Shifted(Len(Joined(c)), Ends(R))
    BY <1>1, EndsOfTwo
  <2>. QED
    BY <1>1, <1>3, <2>1
<1>6. ToSet(c \o R) \subseteq WW
  <2>1. ToSet(c \o R) = ToSet(c) \cup ToSet(R)
    BY <1>1, ToSetLaw
  <2>. QED
    BY <1>1, <2>1
<1>7. z \in Seq(L)
  BY <1>1, <1>2
<1>. HIDE DEF z
<1>8. r \in Packs(L) /\ r.chunks = c \o R /\ r.buf = << >>
  <2>1. << >> \in Seq(L)
    BY EmptySeq
  <2>. QED
    BY <1>4, <2>1 DEF Packs
<1>9. z \o << >> = z
  BY <1>7, ConcatEmptySeq
<1>. HIDE DEF r
<1>10. Packed(L, r, z, CC, WW)
  BY <1>4, <1>5, <1>6, <1>7, <1>8, <1>9 DEF Packed
<1>. QED
  BY <1>10 DEF r, z, c

SectionPackLaws == INSTANCE LoopLaws WITH Op <- PackSection, Start <- [chunks |-> << >>, buf |-> << >>]

PackedSections(secs) == Loop(PackSection, [chunks |-> << >>, buf |-> << >>], secs)

LEMMA PackedSectionsLaw ==
  /\ PackedSections(<< >>) = [chunks |-> << >>, buf |-> << >>]
  /\ \A E : \A ss \in Seq(E) : \A x \in E :
       PackedSections(Append(ss, x)) = PackSection(PackedSections(ss), x)
<1>. DEFINE start == [chunks |-> << >>, buf |-> << >>]
<1>1. Loop(PackSection, start, << >>) = start
  BY SectionPackLaws!LoopLaw DEF Loop, SectionPackLaws!Loop
<1>2. \A E : \A s \in Seq(E) : \A x \in E :
        Loop(PackSection, start, Append(s, x)) = PackSection(Loop(PackSection, start, s), x)
  BY SectionPackLaws!LoopLaw DEF Loop, SectionPackLaws!Loop
<1>. QED
  BY <1>1, <1>2 DEF PackedSections

\* Where nodes may be cut, and the pieces their sections are cut in.
Cuts(ns) == (0..Len(TextOf(ns))) \ Inside(ns)
Pieces(secs) == UNION {ToSet(Units(secs[i])) : i \in DOMAIN secs}

LEMMA PiecesLaw ==
  ASSUME NEW E, NEW ss \in Seq(E), NEW x \in E
  PROVE  Pieces(Append(ss, x)) = Pieces(ss) \cup ToSet(Units(x))
<1>. DEFINE t == Append(ss, x)
            u(y) == ToSet(Units(y))
<1>1. /\ DOMAIN t = DOMAIN ss \cup {Len(ss) + 1} /\ t[Len(ss) + 1] = x
      /\ \A i \in DOMAIN ss : t[i] = ss[i]
  OBVIOUS
<1>2. Pieces(t) = UNION {u(t[i]) : i \in DOMAIN t} /\ Pieces(ss) = UNION {u(ss[i]) : i \in DOMAIN ss}
  BY DEF Pieces
<1>. HIDE DEF t, u
<1>3. Pieces(t) = Pieces(ss) \cup u(x)
  BY <1>1, <1>2
<1>. QED
  BY <1>3 DEF t, u

\* Nodes may be cut where the first part may, between the parts, and where
\* the second part may.
LEMMA CutsOfTwo ==
  ASSUME NEW L, NEW ms \in Seq(Nodes(L)), NEW ns \in Seq(Nodes(L))
  PROVE  /\ Len(TextOf(ms)) \in Nat /\ Len(TextOf(ms)) \in Cuts(ms)
         /\ Cuts(ms) \subseteq Cuts(ms \o ns)
         /\ Shifted(Len(TextOf(ms)), Cuts(ns)) \subseteq Cuts(ms \o ns)
<1>. DEFINE a == Len(TextOf(ms))
            b == Len(TextOf(ns))
<1>1. a \in Nat /\ b \in Nat /\ Len(TextOf(ms \o ns)) = a + b
  <2>1. TextOf(ms \o ns) = TextOf(ms) \o TextOf(ns)
    BY TextOfTwo
  <2>2. TextOf(ms) \in Seq(L) /\ TextOf(ns) \in Seq(L)
    BY TextIsText
  <2>. QED
    BY <2>1, <2>2
<1>2. Inside(ms \o ns) = Inside(ms) \cup Shifted(a, Inside(ns))
  BY InsideOfTwo
<1>3. /\ \A p \in Inside(ms) : p \in Nat /\ p >= 1 /\ p < a
      /\ \A p \in Inside(ns) : p \in Nat /\ p >= 1 /\ p < b
  BY InsideBound
<1>. HIDE DEF a, b
<1>4. Cuts(ms) = (0..a) \ Inside(ms) /\ Cuts(ns) = (0..b) \ Inside(ns) /\ Cuts(ms \o ns) = (0..(a + b)) \ Inside(ms \o ns)
  BY <1>1 DEF Cuts, a, b
<1>5. a \in Cuts(ms)
  BY <1>1, <1>3, <1>4
<1>6. Cuts(ms) \subseteq Cuts(ms \o ns)
  BY <1>1, <1>2, <1>3, <1>4 DEF Shifted
<1>7. Shifted(a, Cuts(ns)) \subseteq Cuts(ms \o ns)
  <2>1. ASSUME NEW q \in Cuts(ns) PROVE a + q \in Cuts(ms \o ns)
    <3>1. q \in Nat /\ q <= b /\ q \notin Inside(ns)
      BY <1>1, <1>4
    <3>2. a + q \in 0..(a + b)
      BY <1>1, <3>1
    <3>3. a + q \notin Inside(ms)
      BY <1>1, <1>3, <3>1
    <3>4. a + q \notin Shifted(a, Inside(ns))
      BY <1>1, <1>3, <3>1 DEF Shifted
    <3>. QED
      BY <1>2, <1>4, <3>2, <3>3, <3>4
  <2>. QED
    BY <2>1 DEF Shifted
<1>. QED
  BY <1>1, <1>5, <1>6, <1>7 DEF a

LEMMA PackSectionFits ==
  ASSUME NEW L, NEW ss \in Seq(Seq(Nodes(L))), NEW x \in Seq(Nodes(L)), NEW s,
         Packed(L, s, TextOf(Joined(ss)), Cuts(Joined(ss)), Wide(L, Pieces(ss)))
  PROVE  Packed(L, PackSection(s, x), TextOf(Joined(Append(ss, x))),
                Cuts(Joined(Append(ss, x))), Wide(L, Pieces(Append(ss, x))))
<1>. DEFINE ms == Joined(ss)
            ns == Joined(Append(ss, x))
            t == TextOf(x)
            text == TextOf(ms)
            C == Cuts(ms)
            CC == Cuts(ns)
            W == Wide(L, Pieces(ss))
            WW == Wide(L, Pieces(Append(ss, x)))
<1>1. ms \in Seq(Nodes(L)) /\ ns = ms \o x
  BY JoinedIsText, JoinedLaw
<1>2. /\ t \in Seq(L) /\ text \in Seq(L) /\ TextOf(ns) = text \o t
      /\ Len(t) \in Nat /\ Len(text) \in Nat /\ ChunkMax \in Int
  <2>1. t \in Seq(L) /\ text \in Seq(L)
    BY <1>1, TextIsText
  <2>2. TextOf(ns) = text \o t
    BY <1>1, TextOfTwo
  <2>. QED
    BY <2>1, <2>2, WindowAssumption
<1>3. Len(text) \in C /\ C \subseteq CC /\ Shifted(Len(text), Cuts(x)) \subseteq CC
  <2>. DEFINE m == ms
  <2>. HIDE DEF m
  <2>1. m \in Seq(Nodes(L)) /\ ns = m \o x
    BY <1>1 DEF m
  <2>2. /\ Len(TextOf(m)) \in Cuts(m) /\ Cuts(m) \subseteq Cuts(m \o x)
        /\ Shifted(Len(TextOf(m)), Cuts(x)) \subseteq Cuts(m \o x)
    BY <2>1, CutsOfTwo
  <2>. QED
    BY <2>1, <2>2 DEF m
<1>4. Len(text \o t) \in CC
  <2>1. ns \in Seq(Nodes(L))
    BY <1>1
  <2>. DEFINE n == ns
  <2>. HIDE DEF n
  <2>2. n \in Seq(Nodes(L)) /\ << >> \in Seq(Nodes(L))
    BY <2>1, EmptySeq DEF n
  <2>3. Len(TextOf(n)) \in Cuts(n)
    BY <2>2, CutsOfTwo
  <2>. QED
    BY <1>2, <2>3 DEF n
<1>5. Pieces(Append(ss, x)) = Pieces(ss) \cup ToSet(Units(x))
  BY PiecesLaw
<1>6. W \subseteq WW /\ Wide(L, ToSet(Units(x))) \subseteq WW
  BY <1>5 DEF Wide
<1>7. {c \in Seq(L) : Len(c) <= ChunkMax} \subseteq W
  <2>1. ASSUME NEW c \in Seq(L), Len(c) <= ChunkMax PROVE Len(c) <= ChunkMax + Short
    <3>1. Len(c) \in Nat
      OBVIOUS
    <3>. QED
      BY <2>1, <3>1, ShortIsNat, WindowAssumption
  <2>. QED
    BY <2>1 DEF Wide
<1>8. Packed(L, s, text, C, W)
  OBVIOUS
<1>9. /\ s \in Packs(L) /\ s.buf \in Seq(L) /\ (s.buf # << >> => Len(s.buf) <= ChunkMax)
  BY <1>8, PacksFields DEF Packed
<1>. HIDE DEF ms, ns, t, text, C, CC, W, WW
<1>10. CASE Len(t) > ChunkMax
  <2>. DEFINE f == Flush(s)
              R == SplitOversized(x)
  <2>1. Packed(L, f, text, C, W) /\ f.buf = << >>
    <3>1. s.buf # << >> => s.buf \in W
      BY <1>7, <1>9
    <3>. QED
      BY <1>3, <1>8, <3>1, FlushKeeps
  <2>2. PackSection(s, x) = [f EXCEPT !.chunks = @ \o R]
    BY <1>10 DEF PackSection, t
  <2>3. /\ R \in Seq(Seq(L)) /\ Joined(R) = t /\ Ends(R) \cap Inside(x) = {}
        /\ ToSet(R) \subseteq Wide(L, ToSet(Units(x)))
    BY SplitFits DEF t
  <2>. HIDE DEF f, R
  <2>4. Ends(R) \subseteq Cuts(x)
    <3>1. \A p \in Ends(R) : p \in Nat /\ p <= Len(Joined(R))
      BY <2>3, EndsBound
    <3>2. \A p \in Ends(R) : p \in 0..Len(t)
      BY <1>2, <2>3, <3>1
    <3>. QED
      BY <2>3, <3>2 DEF Cuts, t
  <2>5. Shifted(Len(text), Ends(R)) \subseteq CC
    BY <1>3, <2>4 DEF Shifted
  <2>6. ToSet(R) \subseteq WW
    BY <1>6, <2>3
  <2>7. Packed(L, [chunks |-> f.chunks \o R, buf |-> << >>], text \o Joined(R), CC, WW)
    BY <1>3, <1>6, <2>1, <2>3, <2>5, <2>6, ExtendKeeps
  <2>8. PackSection(s, x) = [chunks |-> f.chunks \o R, buf |-> << >>]
    <3>1. f \in Packs(L)
      BY <2>1 DEF Packed
    <3>. DEFINE y == f.chunks \o R
    <3>2. [f EXCEPT !.chunks = y] = [chunks |-> y, buf |-> f.buf]
      BY <3>1, PacksFields
    <3>. QED
      BY <2>1, <2>2, <3>2
  <2>9. Packed(L, PackSection(s, x), TextOf(ns), CC, WW)
    BY <1>2, <2>3, <2>7, <2>8
  <2>. QED
    BY <2>9 DEF ns, CC, WW
<1>11. CASE ~(Len(t) > ChunkMax)
  <2>1. PackSection(s, x) = Turn(s, t)
    BY <1>11 DEF PackSection, Turn, t
  <2>2. Len(t) <= ChunkMax
    BY <1>2, <1>11
  <2>3. Packed(L, Turn(s, t), text \o t, CC, WW)
    BY <1>2, <1>3, <1>4, <1>6, <1>7, <1>8, <2>2, TurnKeeps
  <2>. QED
    BY <1>2, <2>1, <2>3 DEF ns, CC, WW
<1>. QED
  BY <1>10, <1>11

LEMMA SectionsPacked ==
  ASSUME NEW L
  PROVE  \A ss \in Seq(Seq(Nodes(L))) :
           Packed(L, PackedSections(ss), TextOf(Joined(ss)), Cuts(Joined(ss)), Wide(L, Pieces(ss)))
<1>. DEFINE T == {ss \in Seq(Seq(Nodes(L))) :
           Packed(L, PackedSections(ss), TextOf(Joined(ss)), Cuts(Joined(ss)), Wide(L, Pieces(ss)))}
<1>1. << >> \in T
  <2>1. << >> \in Seq(Seq(Nodes(L)))
    BY EmptySeq
  <2>2. TextOf(Joined(<< >>)) = << >>
    BY TextLaw, JoinedLaw
  <2>3. Packed(L, PackedSections(<< >>), << >>, Cuts(Joined(<< >>)), Wide(L, Pieces(<< >>)))
    BY NothingPacked, PackedSectionsLaw
  <2>. QED
    BY <2>1, <2>2, <2>3
<1>2. ASSUME NEW ss \in Seq(Seq(Nodes(L))), NEW x \in Seq(Nodes(L)), ss \in T PROVE Append(ss, x) \in T
  <2>. DEFINE s == PackedSections(ss)
  <2>1. Packed(L, s, TextOf(Joined(ss)), Cuts(Joined(ss)), Wide(L, Pieces(ss)))
    BY <1>2
  <2>2. PackedSections(Append(ss, x)) = PackSection(s, x)
    BY PackedSectionsLaw
  <2>. HIDE DEF s
  <2>3. Packed(L, PackSection(s, x), TextOf(Joined(Append(ss, x))),
               Cuts(Joined(Append(ss, x))), Wide(L, Pieces(Append(ss, x))))
    BY <2>1, PackSectionFits
  <2>4. Append(ss, x) \in Seq(Seq(Nodes(L)))
    OBVIOUS
  <2>. QED
    BY <2>2, <2>3, <2>4
<1>. HIDE DEF T
<1>3. Seq(Seq(Nodes(L))) \subseteq T
  BY <1>1, <1>2, JoinLaws!AllSequences
<1>. QED
  BY <1>3 DEF T

LEMMA ChunksFit ==
  ASSUME NEW L, NEW ns \in Seq(Nodes(L))
  PROVE  CutsAreClean(ns) /\ WithinWindow(ns)
<1>. DEFINE secs == SplitIntoSections(ns)
            ks == KeptNodes(ns)
            s == PackedSections(secs)
            R == BuildChunks(ns)
            text == TextOf(ks)
            C == Cuts(ks)
            W == Wide(L, Pieces(secs))
<1>1. secs \in Seq(Seq(Nodes(L))) /\ ks \in Seq(Nodes(L)) /\ ks = Joined(secs)
  BY KeptNodesAreTheNodes DEF KeptNodes
<1>2. Packed(L, s, text, C, W)
  BY <1>1, SectionsPacked
<1>3. R = Flush(s).chunks
  BY DEF BuildChunks, PackedSections
<1>4. s.buf # << >> => Len(text) \in C /\ s.buf \in W
  <2>1. << >> \in Seq(Nodes(L))
    BY EmptySeq
  <2>. HIDE DEF secs, ks
  <2>2. Len(text) \in C
    BY <1>1, <2>1, CutsOfTwo
  <2>3. s.buf \in Seq(L) /\ Len(s.buf) \in Nat /\ (s.buf # << >> => Len(s.buf) <= ChunkMax)
    BY <1>2, PacksFields DEF Packed
  <2>4. s.buf # << >> => Len(s.buf) <= ChunkMax + Short
    BY <2>3, ShortIsNat, WindowAssumption
  <2>. QED
    BY <2>2, <2>3, <2>4 DEF Wide
<1>. HIDE DEF secs, ks, s, R, text, C, W
<1>5. Packed(L, Flush(s), text, C, W) /\ Flush(s).buf = << >>
  BY <1>2, <1>4, FlushKeeps
<1>6. R \in Seq(Seq(L)) /\ Joined(R) \o << >> = text /\ Ends(R) \subseteq C /\ ToSet(R) \subseteq W
  BY <1>3, <1>5, PacksFields DEF Packed
<1>7. Joined(R) = text
  BY <1>6, JoinedIsText, ConcatEmptySeq
<1>8. CutsAreClean(ns)
  <2>1. C \cap Inside(ks) = {}
    BY DEF C, Cuts
  <2>2. \E k \in 0..Len(ns) :
          IsBlank(SubSeq(ns, 1, k)) /\ ns = SubSeq(ns, 1, k) \o KeptNodes(ns)
    BY KeptNodesAreTheNodes
  <2>. QED
    BY <1>6, <1>7, <2>1, <2>2 DEF CutsAreClean, R, ks, text
<1>9. WithinWindow(ns)
  <2>1. ASSUME NEW i \in DOMAIN R
        PROVE  \/ Len(R[i]) <= ChunkMax + Short
               \/ \E u \in Pieces(secs) : Len(R[i]) <= Short + Len(u.text) + Short
    <3>1. R[i] \in W
      BY <1>6 DEF ToSet
    <3>. QED
      BY <3>1 DEF W, Wide
  <2>. QED
    BY <2>1 DEF WithinWindow, R, secs, Pieces
<1>. QED
  BY <1>8, <1>9

-----------------------------------------------------------------------------
(* Chunking                                                                *)

\* For nodes whose parts are texts of any letters, and any two thresholds:
\* build_chunks gives out every text once and in order, leaves out only empty
\* lines the article begins with, cuts nothing protected, and exceeds the
\* token window only by a piece that is never cut and its short neighbours.
THEOREM ChunksAreTheText ==
  ASSUME NEW L, NEW ns \in Seq(Nodes(L)) PROVE CutsAreClean(ns) /\ WithinWindow(ns)
BY ChunksFit

LEMMA InputNodes == \E L : NodeElements \subseteq Nodes(L)
<1>. DEFINE L == {"heading", "blank", "para", "template", "list"}
<1>1. \A k \in L : \A n \in Nat : Repeat(k, n) \in Seq(L)
  BY DEF Repeat
<1>2. ASSUME NEW k \in L, NEW n \in Nat PROVE Node(k, <<n>>) \in Nodes(L)
  <2>. DEFINE ps == [i \in DOMAIN <<n>> |-> Repeat(k, <<n>>[i])]
  <2>. DEFINE r == Repeat(k, n)
  <2>1. ps = <<r>>
    OBVIOUS
  <2>2. ps \in Seq(Seq(L)) /\ ps # << >>
    <3>1. r \in Seq(L)
      BY <1>1
    <3>. HIDE DEF r, L
    <3>2. <<r>> \in Seq(Seq(L)) /\ <<r>> # << >>
      BY <3>1
    <3>. QED
      BY <2>1, <3>2
  <2>. HIDE DEF ps
  <2>3. Node(k, <<n>>) = [kind |-> k, parts |-> ps]
    BY DEF Node, ps
  <2>. QED
    BY <2>2, <2>3 DEF Nodes
<1>3. ASSUME NEW k \in L, NEW m \in Nat, NEW n \in Nat PROVE Node(k, <<m, n>>) \in Nodes(L)
  <2>. DEFINE ps == [i \in DOMAIN <<m, n>> |-> Repeat(k, <<m, n>>[i])]
  <2>. DEFINE q == Repeat(k, m)
              r == Repeat(k, n)
  <2>1. ps = <<q, r>>
    OBVIOUS
  <2>2. ps \in Seq(Seq(L)) /\ ps # << >>
    <3>1. q \in Seq(L) /\ r \in Seq(L)
      BY <1>1
    <3>. HIDE DEF q, r, L
    <3>2. <<q, r>> \in Seq(Seq(L)) /\ <<q, r>> # << >>
      BY <3>1
    <3>. QED
      BY <2>1, <3>2
  <2>. HIDE DEF ps
  <2>3. Node(k, <<m, n>>) = [kind |-> k, parts |-> ps]
    BY DEF Node, ps
  <2>. QED
    BY <2>2, <2>3 DEF Nodes
<1>. QED
  BY <1>2, <1>3 DEF NodeElements

\* The same of the nodes TLC tries, at any length.
THEOREM InputChunksAreTheText == Spec => []ChunkingIsLossless
<1>1. InputInv => ChunkingIsLossless
  <2>. SUFFICES ASSUME InputInv, part = "chunking"
                PROVE  CutsAreClean(input) /\ WithinWindow(input)
    BY DEF ChunkingIsLossless
  <2>1. PICK L : NodeElements \subseteq Nodes(L)
    BY InputNodes
  <2>2. input \in Seq(NodeElements)
    BY DEF InputInv, Elements
  <2>3. input \in Seq(Nodes(L))
    BY <2>1, <2>2
  <2>. QED
    BY <2>3, ChunksAreTheText
<1>. QED
  BY <1>1, InputsAreSequences, PTL

-----------------------------------------------------------------------------
(* Routing findings                                                        *)

LEMMA SmallestIndex ==
  ASSUME NEW f, NEW S \in SUBSET DOMAIN f, S # {}, DOMAIN f \in SUBSET (Nat \ {0})
  PROVE  Min(S) \in S /\ Min(S) # NoChunk /\ \A i \in S : Min(S) <= i
BY SmallestOf DEF NoChunk

\* run_assembly_repair, for any findings about any chunks, located or not:
\* each is handed to a chunk, and one that can be placed to that chunk alone.
THEOREM EveryFindingArrives ==
  ASSUME NEW findings, NEW spans, NEW mentions, NEW n \in Nat \ {0},
         DOMAIN spans = 1..n, DOMAIN mentions = 1..n
  PROVE  FindingsArrive(findings, spans, mentions)
<1>. SUFFICES ASSUME NEW k \in DOMAIN findings
              PROVE  LET f == findings[k]
                         seen == {i \in DOMAIN spans : f \in ErrorsFor(i, findings, spans, mentions)}
                     IN  /\ seen # {}
                         /\ (f.line # 0 /\ ChunkForLine(spans, f.line) # NoChunk)
                              \/ (\E i \in DOMAIN mentions : mentions[i] \cap RefNames(f) # {})
                            => Cardinality(seen) = 1
  BY DEF FindingsArrive
<1>. DEFINE f == findings[k]
            seen == {i \in DOMAIN spans : f \in ErrorsFor(i, findings, spans, mentions)}
            byLine == ChunkForLine(spans, f.line)
            byRef == ChunkForRef(mentions, RefNames(f))
            holders == {i \in DOMAIN spans : f.line # 0 /\ spans[i][1] <= f.line /\ f.line <= spans[i][2]}
            having == {i \in DOMAIN mentions : mentions[i] \cap RefNames(f) # {}}
<1>0. 1..n \subseteq Nat \ {0} /\ 1 \in 1..n
  OBVIOUS
<1>1. seen = DOMAIN spans \cap Targets(f, spans, mentions)
  <2>1. f \in ToSet(findings)
    BY DEF ToSet
  <2>. HIDE DEF f
  <2>. QED
    BY <2>1 DEF ErrorsFor
<1>2. byLine = IF holders = {} THEN NoChunk ELSE Min(holders)
  BY DEF ChunkForLine
<1>3. byRef = IF having = {} THEN NoChunk ELSE Min(having)
  BY DEF ChunkForRef
<1>4. byLine # NoChunk => byLine \in DOMAIN spans
  <2>. HIDE DEF holders
  <2>1. holders \in SUBSET DOMAIN spans
    BY DEF holders
  <2>. QED
    BY <1>0, <1>2, <2>1, SmallestIndex
<1>5. byRef # NoChunk => byRef \in DOMAIN spans
  <2>1. having \in SUBSET DOMAIN mentions
    OBVIOUS
  <2>. HIDE DEF having
  <2>. QED
    BY <1>0, <1>3, <2>1, SmallestIndex
<1>6. having # {} => byRef # NoChunk
  <2>1. having \in SUBSET DOMAIN mentions
    OBVIOUS
  <2>. HIDE DEF having
  <2>. QED
    BY <1>0, <1>3, <2>1, SmallestIndex
<1>7. Targets(f, spans, mentions) = CASE byLine # NoChunk -> {byLine}
                                      [] byLine = NoChunk /\ byRef # NoChunk -> {byRef}
                                      [] OTHER -> DOMAIN spans
  BY DEF Targets
<1>8. (\E i \in DOMAIN mentions : mentions[i] \cap RefNames(f) # {}) => having # {}
  OBVIOUS
<1>. HIDE DEF f, seen, byLine, byRef, holders, having
<1>9. CASE byLine # NoChunk
  <2>1. seen = {byLine}
    BY <1>1, <1>4, <1>7, <1>9
  <2>2. Cardinality(seen) = 1
    BY <2>1, FS_Singleton
  <2>. QED
    BY <2>1, <2>2 DEF f, seen
<1>10. CASE byLine = NoChunk /\ byRef # NoChunk
  <2>1. seen = {byRef}
    BY <1>1, <1>5, <1>7, <1>10
  <2>2. Cardinality(seen) = 1
    BY <2>1, FS_Singleton
  <2>. QED
    BY <2>1, <2>2 DEF f, seen
<1>11. CASE byLine = NoChunk /\ byRef = NoChunk
  <2>1. seen = DOMAIN spans
    BY <1>1, <1>7, <1>11
  <2>2. seen # {}
    BY <1>0, <2>1
  <2>. QED
    BY <1>6, <1>8, <1>11, <2>2 DEF f, seen, byLine
<1>. QED
  BY <1>9, <1>10, <1>11

-----------------------------------------------------------------------------
(* Counting tokens                                                         *)

\* As many elements as a set of numbers has, further on.
LEMMA MovedSet ==
  ASSUME NEW B \in SUBSET Nat, IsFiniteSet(B), NEW k \in Nat
  PROVE  IsFiniteSet({k + p : p \in B}) /\ Cardinality({k + p : p \in B}) = Cardinality(B)
<1>. DEFINE M == {k + p : p \in B}
            f == [p \in B |-> k + p]
<1>1. f \in [B -> M]
  OBVIOUS
<1>2. \A p, q \in B : f[p] = f[q] => p = q
  OBVIOUS
<1>3. \A y \in M : \E p \in B : f[p] = y
  OBVIOUS
<1>. HIDE DEF f, M
<1>4. f \in Bijection(B, M)
  BY <1>1, <1>2, <1>3 DEF Bijection, Injection, Surjection, IsInjective
<1>5. ExistsBijection(B, M)
  BY <1>4 DEF ExistsBijection
<1>6. IsFiniteSet(M) /\ Cardinality(M) = Cardinality(B)
  BY <1>5, FS_Bijection
<1>. QED
  BY <1>6 DEF M

\* Places of two texts that follow each other, the first k letters long.
Together(k, A, B) == A \cup {k + p : p \in B}

LEMMA PlacesOfTwo ==
  \A k, n \in Nat : \A A \in SUBSET (1..k) : \A B \in SUBSET (1..n) :
    /\ Cardinality(A) \in Nat /\ Cardinality(B) \in Nat
    /\ Cardinality(Together(k, A, B)) = Cardinality(A) + Cardinality(B)
<1>. SUFFICES ASSUME NEW k \in Nat, NEW n \in Nat, NEW A \in SUBSET (1..k), NEW B \in SUBSET (1..n)
              PROVE  /\ Cardinality(A) \in Nat /\ Cardinality(B) \in Nat
                     /\ Cardinality(Together(k, A, B)) = Cardinality(A) + Cardinality(B)
  OBVIOUS
<1>. DEFINE M == {k + p : p \in B}
<1>1. IsFiniteSet(A) /\ IsFiniteSet(B)
  <2>1. 1 \in Int /\ k \in Int /\ n \in Int
    OBVIOUS
  <2>2. IsFiniteSet(1..k) /\ IsFiniteSet(1..n)
    BY <2>1, FS_Interval
  <2>. QED
    BY <2>2, FS_Subset
<1>2. IsFiniteSet(M) /\ Cardinality(M) = Cardinality(B)
  <2>1. B \in SUBSET Nat
    OBVIOUS
  <2>. QED
    BY <1>1, <2>1, MovedSet
<1>3. A \cap M = {}
  <2>1. ASSUME NEW x \in A, NEW p \in B, x = k + p PROVE FALSE
    <3>1. p \in 1..n /\ x \in 1..k
      OBVIOUS
    <3>. QED
      BY <2>1, <3>1
  <2>. QED
    BY <2>1
<1>4. Cardinality(A \cap M) = 0
  BY <1>3, FS_EmptySet
<1>5. Together(k, A, B) = A \cup M
  BY DEF Together
<1>. HIDE DEF M
<1>6. Cardinality(A \cup M) = Cardinality(A) + Cardinality(M) - Cardinality(A \cap M)
  BY <1>1, <1>2, FS_Union
<1>7. Cardinality(A) \in Nat /\ Cardinality(B) \in Nat
  BY <1>1, FS_CardinalityType
<1>8. Cardinality(A \cup M) = Cardinality(A) + Cardinality(B)
  BY <1>2, <1>4, <1>6, <1>7
<1>. QED
  BY <1>5, <1>7, <1>8

LEMMA ConcatPlaces ==
  ASSUME NEW L, NEW u \in Seq(L), NEW t \in Seq(L)
  PROVE  /\ u \o t \in Seq(L) /\ Len(u) \in Nat /\ Len(t) \in Nat /\ Len(u \o t) = Len(u) + Len(t)
         /\ DOMAIN u = 1..Len(u) /\ DOMAIN t = 1..Len(t) /\ DOMAIN (u \o t) = 1..(Len(u) + Len(t))
         /\ \A p \in 1..Len(u) : (u \o t)[p] = u[p]
         /\ \A p \in 1..Len(t) : (u \o t)[Len(u) + p] = t[p]
OBVIOUS

\* Any set of places of two texts: those in the first and those in the second.
LEMMA SplitPlaces ==
  \A k, n \in Nat : \A P \in SUBSET (1..(k + n)) :
    P = Together(k, {p \in 1..k : p \in P}, {q \in 1..n : k + q \in P})
<1>. SUFFICES ASSUME NEW k \in Nat, NEW n \in Nat, NEW P \in SUBSET (1..(k + n)), NEW x \in P
              PROVE  x \in Together(k, {p \in 1..k : p \in P}, {q \in 1..n : k + q \in P})
  BY DEF Together
<1>1. x \in 1..k \/ (x - k \in 1..n /\ x = k + (x - k))
  OBVIOUS
<1>2. CASE x \in 1..k
  BY <1>2 DEF Together
<1>3. CASE x - k \in 1..n /\ x = k + (x - k)
  <2>. DEFINE y == x - k
  <2>1. y \in 1..n /\ k + y = x
    BY <1>3
  <2>. HIDE DEF y
  <2>2. y \in {q \in 1..n : k + q \in P}
    BY <2>1
  <2>. QED
    BY <2>1, <2>2 DEF Together
<1>. QED
  BY <1>1, <1>2, <1>3

LEMMA CountOfTwo ==
  ASSUME NEW L, NEW u \in Seq(L), NEW t \in Seq(L), NEW S
  PROVE  /\ CountIn(u, S) \in Nat /\ CountIn(t, S) \in Nat
         /\ CountIn(u \o t, S) = CountIn(u, S) + CountIn(t, S)
<1>. DEFINE w == u \o t
            inU == {p \in DOMAIN u : u[p] \in S}
            inT == {p \in DOMAIN t : t[p] \in S}
            inW == {p \in DOMAIN w : w[p] \in S}
            len1 == Len(u)
            len2 == Len(t)
<1>1. /\ len1 \in Nat /\ len2 \in Nat /\ DOMAIN u = 1..len1 /\ DOMAIN t = 1..len2 /\ DOMAIN w = 1..(len1 + len2)
      /\ \A p \in 1..len1 : w[p] = u[p]
      /\ \A p \in 1..len2 : w[len1 + p] = t[p]
  BY ConcatPlaces
<1>2. inW \in SUBSET (1..(len1 + len2)) /\ inU \in SUBSET (1..len1) /\ inT \in SUBSET (1..len2)
  BY <1>1
<1>3. \A p \in 1..len1 : p \in 1..(len1 + len2)
  BY <1>1
<1>4. \A p \in 1..len2 : len1 + p \in 1..(len1 + len2)
  BY <1>1
<1>. HIDE DEF w, len1, len2
<1>5. {p \in 1..len1 : p \in inW} = inU
  BY <1>1, <1>3
<1>6. {q \in 1..len2 : len1 + q \in inW} = inT
  BY <1>1, <1>4
<1>7. CountIn(u, S) = Cardinality(inU) /\ CountIn(t, S) = Cardinality(inT) /\ CountIn(w, S) = Cardinality(inW)
  BY DEF CountIn
<1>. HIDE DEF inU, inT, inW
<1>8. inW = Together(len1, {p \in 1..len1 : p \in inW}, {q \in 1..len2 : len1 + q \in inW})
  BY <1>1, <1>2, SplitPlaces
<1>9. inW = Together(len1, inU, inT)
  BY <1>5, <1>6, <1>8
<1>10. Cardinality(inU) \in Nat /\ Cardinality(inT) \in Nat
       /\ Cardinality(Together(len1, inU, inT)) = Cardinality(inU) + Cardinality(inT)
  BY <1>1, <1>2, PlacesOfTwo
<1>. QED
  BY <1>7, <1>9, <1>10 DEF w

-----------------------------------------------------------------------------
(* Verbatim spans and templates                                            *)

NothingStripped == [out |-> << >>, held |-> << >>]
StripLaws == INSTANCE LoopLaws WITH Op <- TakeToken, Start <- [out |-> << >>, held |-> << >>]

LEMMA StrippingLaw ==
  /\ Stripping(<< >>) = NothingStripped
  /\ \A E : \A t \in Seq(E) : \A x \in E : Stripping(Append(t, x)) = TakeToken(Stripping(t), x)
<1>. DEFINE start == [out |-> << >>, held |-> << >>]
<1>1. Loop(TakeToken, start, << >>) = start
  BY StripLaws!LoopLaw DEF Loop, StripLaws!Loop
<1>2. \A E : \A t \in Seq(E) : \A x \in E :
        Loop(TakeToken, start, Append(t, x)) = TakeToken(Loop(TakeToken, start, t), x)
  BY StripLaws!LoopLaw DEF Loop, StripLaws!Loop
<1>. QED
  BY <1>1, <1>2 DEF Stripping, NothingStripped

Strips(L) == [out : Seq(L), held : Seq(L)]

LEMMA StrippingIsText == ASSUME NEW L PROVE \A t \in Seq(L) : Stripping(t) \in Strips(L)
<1>. DEFINE T == {t \in Seq(L) : Stripping(t) \in Strips(L)}
<1>1. << >> \in T
  <2>1. << >> \in Seq(L) /\ Stripping(<< >>) = NothingStripped
    BY StrippingLaw, EmptySeq
  <2>2. NothingStripped \in Strips(L)
    BY <2>1 DEF NothingStripped, Strips
  <2>. QED
    BY <2>1, <2>2
<1>2. ASSUME NEW t \in Seq(L), NEW x \in L, t \in T PROVE Append(t, x) \in T
  <2>. DEFINE s == Stripping(t)
  <2>1. s \in Strips(L) /\ Append(t, x) \in Seq(L) /\ Stripping(Append(t, x)) = TakeToken(s, x)
    BY <1>2, StrippingLaw
  <2>. HIDE DEF s
  <2>2. s.out \in Seq(L) /\ s.held \in Seq(L)
    BY <2>1 DEF Strips
  <2>3. Append(s.out, x) \in Seq(L) /\ Append(s.held, x) \in Seq(L) /\ <<x>> \in Seq(L) /\ << >> \in Seq(L)
    BY <2>2, EmptySeq
  <2>4. TakeToken(s, x) \in Strips(L)
    BY <2>1, <2>3 DEF TakeToken, Strips
  <2>. QED
    BY <2>1, <2>4
<1>. HIDE DEF T
<1>3. Seq(L) \subseteq T
  BY <1>1, <1>2, JoinLaws!AllSequences
<1>. QED
  BY <1>3 DEF T

LEMMA AppendToConcat ==
  ASSUME NEW L, NEW x \in L PROVE \A a, b \in Seq(L) : Append(a \o b, x) = a \o Append(b, x)
OBVIOUS

\* After a text that closes its verbatim spans another is stripped as if it
\* stood alone.
LEMMA StrippingOfTwo ==
  ASSUME NEW L, NEW u \in Seq(L), Stripping(u).held = << >>
  PROVE  \A t \in Seq(L) :
           Stripping(u \o t) = [out |-> Stripping(u).out \o Stripping(t).out, held |-> Stripping(t).held]
<1>. DEFINE a == Stripping(u)
            T == {t \in Seq(L) : Stripping(u \o t) = [out |-> a.out \o Stripping(t).out,
                                                      held |-> Stripping(t).held]}
<1>1. << >> \in T
  <2>1. a \in Strips(L) /\ a.held = << >> /\ u \o << >> = u
    BY StrippingIsText, ConcatEmptySeq
  <2>. HIDE DEF a
  <2>2. a.out \o << >> = a.out
    BY <2>1, ConcatEmptySeq DEF Strips
  <2>3. a = [out |-> a.out \o << >>, held |-> << >>]
    BY <2>1, <2>2 DEF Strips
  <2>4. Stripping(<< >>).out = << >> /\ Stripping(<< >>).held = << >>
    BY StrippingLaw DEF NothingStripped
  <2>5. << >> \in Seq(L)
    BY EmptySeq
  <2>. QED
    BY <2>1, <2>3, <2>4, <2>5 DEF a
<1>2. ASSUME NEW t \in Seq(L), NEW x \in L, t \in T PROVE Append(t, x) \in T
  <2>. DEFINE s == Stripping(t)
              b == [out |-> a.out \o s.out, held |-> s.held]
  <2>1. Append(t, x) \in Seq(L) /\ u \o t \in Seq(L) /\ u \o Append(t, x) = Append(u \o t, x)
    OBVIOUS
  <2>2. Stripping(u \o t) = b
    BY <1>2
  <2>3. Stripping(Append(u \o t, x)) = TakeToken(b, x) /\ Stripping(Append(t, x)) = TakeToken(s, x)
    BY <2>1, <2>2, StrippingLaw
  <2>4. a \in Strips(L) /\ s \in Strips(L)
    BY StrippingIsText
  <2>. HIDE DEF a, s
  <2>5. a.out \in Seq(L) /\ s.out \in Seq(L)
    BY <2>4 DEF Strips
  <2>6. Append(a.out \o s.out, x) = a.out \o Append(s.out, x)
    BY <2>5, AppendToConcat
  <2>7. TakeToken(b, x) = [out |-> a.out \o TakeToken(s, x).out, held |-> TakeToken(s, x).held]
    BY <2>4, <2>6 DEF TakeToken, Strips
  <2>. QED
    BY <2>1, <2>3, <2>7 DEF a
<1>. HIDE DEF T
<1>3. Seq(L) \subseteq T
  BY <1>1, <1>2, JoinLaws!AllSequences
<1>. QED
  BY <1>3 DEF T

\* The templates of the first text are the templates it has alone, and so are
\* those of the second, if the first closes all it opens.
LEMMA DepthOfTwo ==
  ASSUME NEW L, NEW u \in Seq(L), NEW t \in Seq(L)
  PROVE  /\ \A i \in 1..Len(u) : \A k \in i..Len(u) : Depth(u \o t, i, k) = Depth(u, i, k)
         /\ \A i \in 1..Len(t) : \A k \in i..Len(t) :
              Depth(u \o t, Len(u) + i, Len(u) + k) = Depth(t, i, k)
<1>1. ASSUME NEW i \in 1..Len(u), NEW k \in i..Len(u)
      PROVE  SubSeq(u \o t, i, k) = SubSeq(u, i, k)
  <2>. DEFINE w == u \o t
  <2>1. /\ Len(u) \in Nat /\ Len(t) \in Nat /\ w \in Seq(L) /\ Len(w) = Len(u) + Len(t)
        /\ \A p \in 1..Len(u) : w[p] = u[p]
    BY ConcatPlaces
  <2>2. i \in Int /\ k \in Int /\ i >= 1 /\ k <= Len(w) /\ i <= k
    BY <2>1
  <2>. HIDE DEF w
  <2>3. SubSeq(w, i, k) = [q \in 1..(k - i + 1) |-> w[q + i - 1]]
    BY <2>1, <2>2
  <2>4. SubSeq(u, i, k) = [q \in 1..(k - i + 1) |-> u[q + i - 1]]
    BY <2>1, <2>2
  <2>5. \A q \in 1..(k - i + 1) : q + i - 1 \in 1..Len(u)
    BY <2>1, <2>2
  <2>. QED
    BY <2>1, <2>3, <2>4, <2>5 DEF w
<1>2. ASSUME NEW i \in 1..Len(t), NEW k \in i..Len(t)
      PROVE  SubSeq(u \o t, Len(u) + i, Len(u) + k) = SubSeq(t, i, k)
  <2>. DEFINE w == u \o t
              a == Len(u) + i
              b == Len(u) + k
  <2>1. /\ Len(u) \in Nat /\ Len(t) \in Nat /\ w \in Seq(L) /\ Len(w) = Len(u) + Len(t)
        /\ \A p \in 1..Len(t) : w[Len(u) + p] = t[p]
    BY ConcatPlaces
  <2>2. i \in Int /\ k \in Int /\ i >= 1 /\ k <= Len(t) /\ i <= k
    BY <2>1
  <2>3. a \in Int /\ b \in Int /\ a >= 1 /\ b <= Len(w) /\ a <= b /\ b - a + 1 = k - i + 1
    BY <2>1, <2>2
  <2>4. SubSeq(t, i, k) = [q \in 1..(k - i + 1) |-> t[q + i - 1]]
    BY <2>1, <2>2
  <2>5. \A q \in 1..(k - i + 1) : q + i - 1 \in 1..Len(t) /\ q + a - 1 = Len(u) + (q + i - 1)
    BY <2>1, <2>2
  <2>. HIDE DEF w, a, b
  <2>6. SubSeq(w, a, b) = [q \in 1..(b - a + 1) |-> w[q + a - 1]]
    BY <2>1, <2>3
  <2>7. \A q \in 1..(k - i + 1) : w[q + a - 1] = t[q + i - 1]
    BY <2>1, <2>5
  <2>8. SubSeq(w, a, b) = SubSeq(t, i, k)
    BY <2>3, <2>4, <2>6, <2>7
  <2>. QED
    BY <2>8 DEF w, a, b
<1>. QED
  BY <1>1, <1>2 DEF Depth


\* A template is closed in one place only.
LEMMA RecognisedOnce ==
  ASSUME NEW w, NEW i \in Nat, NEW j \in Nat, NEW k \in Nat, i <= j, i <= k,
         Recognised(w, i, j), Recognised(w, i, k)
  PROVE  j = k
<1>1. /\ Depth(w, i, j) = 0 /\ Depth(w, i, k) = 0
      /\ \A l \in i..(k - 1) : Depth(w, i, l) > 0
      /\ \A l \in i..(j - 1) : Depth(w, i, l) > 0
  BY Zenon DEF Recognised
<1>2. ~(j < k)
  <2>1. j < k => j \in i..(k - 1)
    OBVIOUS
  <2>2. ~(0 > 0)
    OBVIOUS
  <2>. QED
    BY <1>1, <2>1, <2>2, Zenon
<1>3. ~(k < j)
  <2>1. k < j => k \in i..(j - 1)
    OBVIOUS
  <2>2. ~(0 > 0)
    OBVIOUS
  <2>. QED
    BY <1>1, <2>1, <2>2, Zenon
<1>. QED
  BY <1>2, <1>3

\* What the second conjunct of ClosesItself says.
ClosesTemplates(u) ==
  \A i \in DOMAIN u : u[i] = "{{" => \E j \in i..Len(u) : Recognised(u, i, j)

LEMMA RecognisedOfTwo ==
  ASSUME NEW L, NEW u \in Seq(L), NEW t \in Seq(L)
  PROVE  /\ \A i \in 1..Len(u) : \A j \in i..Len(u) : Recognised(u \o t, i, j) <=> Recognised(u, i, j)
         /\ \A i \in 1..Len(t) : \A j \in i..Len(t) :
              Recognised(u \o t, Len(u) + i, Len(u) + j) <=> Recognised(t, i, j)
<1>. DEFINE w == u \o t
<1>1. /\ Len(u) \in Nat /\ Len(t) \in Nat
      /\ \A p \in 1..Len(u) : w[p] = u[p]
      /\ \A p \in 1..Len(t) : w[Len(u) + p] = t[p]
  BY ConcatPlaces
<1>2. /\ \A i \in 1..Len(u) : \A k \in i..Len(u) : Depth(w, i, k) = Depth(u, i, k)
      /\ \A i \in 1..Len(t) : \A k \in i..Len(t) : Depth(w, Len(u) + i, Len(u) + k) = Depth(t, i, k)
  BY DepthOfTwo
<1>. HIDE DEF w
<1>3. ASSUME NEW i \in 1..Len(u), NEW j \in i..Len(u)
      PROVE  Recognised(w, i, j) <=> Recognised(u, i, j)
  <2>1. j \in i..Len(u) /\ w[i] = u[i] /\ \A k \in i..(j - 1) : k \in i..Len(u)
    BY <1>1
  <2>. QED
    BY <1>2, <2>1 DEF Recognised
<1>4. ASSUME NEW i \in 1..Len(t), NEW j \in i..Len(t)
      PROVE  Recognised(w, Len(u) + i, Len(u) + j) <=> Recognised(t, i, j)
  <2>. DEFINE n == Len(u)
  <2>1. j \in i..Len(t) /\ w[n + i] = t[i] /\ \A k \in i..(j - 1) : k \in i..Len(t)
    BY <1>1
  <2>2. \A k \in i..(j - 1) : n + k \in (n + i)..((n + j) - 1)
    BY <1>1
  <2>3. \A k \in (n + i)..((n + j) - 1) : k - n \in i..(j - 1) /\ k = n + (k - n)
    BY <1>1
  <2>4. \A k \in i..Len(t) : Depth(w, n + i, n + k) = Depth(t, i, k)
    BY <1>2
  <2>. HIDE DEF n
  <2>5. (\A k \in (n + i)..((n + j) - 1) : Depth(w, n + i, k) > 0) <=> \A k \in i..(j - 1) : Depth(t, i, k) > 0
    <3>1. ASSUME \A k \in (n + i)..((n + j) - 1) : Depth(w, n + i, k) > 0, NEW k \in i..(j - 1)
          PROVE  Depth(t, i, k) > 0
      <4>1. Depth(w, n + i, n + k) > 0
        BY <2>2, <3>1
      <4>2. Depth(w, n + i, n + k) = Depth(t, i, k)
        BY <2>1, <2>4
      <4>. QED
        BY <4>1, <4>2
    <3>2. ASSUME \A k \in i..(j - 1) : Depth(t, i, k) > 0, NEW k \in (n + i)..((n + j) - 1)
          PROVE  Depth(w, n + i, k) > 0
      <4>. DEFINE m == k - n
      <4>1. m \in i..(j - 1) /\ k = n + m
        BY <2>3
      <4>. HIDE DEF m
      <4>2. Depth(t, i, m) > 0
        BY <3>2, <4>1
      <4>3. Depth(w, n + i, n + m) = Depth(t, i, m)
        BY <2>1, <2>4, <4>1
      <4>. QED
        BY <4>1, <4>2, <4>3
    <3>. QED
      BY <3>1, <3>2
  <2>. QED
    <3>1. w[n + i] = t[i] /\ Depth(w, n + i, n + j) = Depth(t, i, j)
      BY <2>1, <2>4
    <3>2. Recognised(w, n + i, n + j)
            <=> /\ w[n + i] = "{{" /\ Depth(w, n + i, n + j) = 0
                /\ \A k \in (n + i)..((n + j) - 1) : Depth(w, n + i, k) > 0
      BY Zenon DEF Recognised
    <3>3. Recognised(t, i, j)
            <=> t[i] = "{{" /\ Depth(t, i, j) = 0 /\ \A k \in i..(j - 1) : Depth(t, i, k) > 0
      BY Zenon DEF Recognised
    <3>4. Recognised(w, n + i, n + j) <=> Recognised(t, i, j)
      BY <2>5, <3>1, <3>2, <3>3, Zenon
    <3>. QED
      BY <3>4 DEF n
<1>. QED
  BY <1>3, <1>4 DEF w

LEMMA ClosesOfTwo ==
  ASSUME NEW L, NEW u \in Seq(L), NEW t \in Seq(L), ClosesTemplates(u)
  PROVE  /\ \A i \in 1..Len(u) : \A j \in i..(Len(u) + Len(t)) : Recognised(u \o t, i, j) => j \in i..Len(u)
         /\ ClosesTemplates(t) => ClosesTemplates(u \o t)
<1>. DEFINE w == u \o t
            n == Len(u)
            m == Len(t)
<1>1. /\ n \in Nat /\ m \in Nat /\ Len(w) = n + m
      /\ DOMAIN u = 1..n /\ DOMAIN t = 1..m /\ DOMAIN w = 1..(n + m)
      /\ \A p \in 1..n : w[p] = u[p]
      /\ \A p \in 1..m : w[n + p] = t[p]
  BY ConcatPlaces
<1>2. /\ \A i \in 1..n : \A j \in i..n : Recognised(w, i, j) <=> Recognised(u, i, j)
      /\ \A i \in 1..m : \A j \in i..m : Recognised(w, n + i, n + j) <=> Recognised(t, i, j)
  BY RecognisedOfTwo
<1>. HIDE DEF w, m
<1>3. ASSUME NEW i \in 1..n, w[i] = "{{"
      PROVE  \E j \in i..n : Recognised(u, i, j) /\ Recognised(w, i, j)
  <2>1. i \in DOMAIN u /\ u[i] = "{{"
    BY <1>1, <1>3
  <2>2. PICK j \in i..n : Recognised(u, i, j)
    BY <2>1 DEF ClosesTemplates
  <2>. QED
    BY <1>2, <2>2
<1>. HIDE DEF n
<1>4. ASSUME NEW i \in 1..n, NEW j \in i..(n + m), Recognised(w, i, j) PROVE j \in i..n
  <2>1. w[i] = "{{"
    BY <1>4, Zenon DEF Recognised
  <2>2. PICK k \in i..n : Recognised(w, i, k)
    BY <1>3, <2>1
  <2>3. i \in Nat /\ j \in Nat /\ k \in Nat /\ i <= j /\ i <= k
    BY <1>1
  <2>4. j = k
    BY <1>4, <2>2, <2>3, RecognisedOnce
  <2>. QED
    BY <2>4
<1>5. ASSUME ClosesTemplates(t), NEW i \in DOMAIN w, w[i] = "{{"
      PROVE  \E j \in i..Len(w) : Recognised(w, i, j)
  <2>1. CASE i \in 1..n
    <3>1. PICK j \in i..n : Recognised(w, i, j)
      BY <1>3, <1>5, <2>1
    <3>2. j \in i..Len(w)
      BY <1>1, <2>1
    <3>. QED
      BY <3>1, <3>2
  <2>2. CASE i \notin 1..n
    <3>. DEFINE p == i - n
    <3>1. p \in 1..m /\ i = n + p
      <4>1. i \in 1..(n + m)
        BY <1>1
      <4>. QED
        BY <1>1, <2>2, <4>1
    <3>. HIDE DEF p
    <3>2. p \in DOMAIN t /\ t[p] = "{{"
      BY <1>1, <1>5, <3>1
    <3>3. PICK j \in p..Len(t) : Recognised(t, p, j)
      BY <1>5, <3>2 DEF ClosesTemplates
    <3>4. j \in p..m
      BY DEF m
    <3>5. Recognised(w, n + p, n + j)
      BY <1>2, <3>1, <3>3, <3>4
    <3>6. n + j \in i..Len(w)
      BY <1>1, <3>1, <3>4
    <3>. QED
      BY <3>1, <3>5, <3>6
  <2>. QED
    BY <2>1, <2>2
<1>6. ClosesTemplates(t) => ClosesTemplates(w)
  BY <1>5 DEF ClosesTemplates
<1>. QED
  BY <1>4, <1>6 DEF w, n, m

LEMMA InTemplateOfTwo ==
  ASSUME NEW L, NEW u \in Seq(L), NEW t \in Seq(L), ClosesTemplates(u)
  PROVE  /\ \A p \in 1..Len(u) : InTemplate(u \o t, p) <=> InTemplate(u, p)
         /\ \A p \in 1..Len(t) : InTemplate(u \o t, Len(u) + p) <=> InTemplate(t, p)
<1>. DEFINE w == u \o t
            n == Len(u)
            m == Len(t)
<1>1. n \in Nat /\ m \in Nat /\ Len(w) = n + m
  BY ConcatPlaces
<1>2. /\ \A i \in 1..n : \A j \in i..n : Recognised(w, i, j) <=> Recognised(u, i, j)
      /\ \A i \in 1..m : \A j \in i..m : Recognised(w, n + i, n + j) <=> Recognised(t, i, j)
  BY RecognisedOfTwo
<1>3. \A i \in 1..n : \A j \in i..(n + m) : Recognised(w, i, j) => j \in i..n
  BY ClosesOfTwo
<1>4. /\ \A p : InTemplate(w, p) <=> \E i \in 1..p : \E j \in p..(n + m) : Recognised(w, i, j)
      /\ \A p : InTemplate(u, p) <=> \E i \in 1..p : \E j \in p..n : Recognised(u, i, j)
      /\ \A p : InTemplate(t, p) <=> \E i \in 1..p : \E j \in p..m : Recognised(t, i, j)
  BY <1>1 DEF InTemplate
<1>. HIDE DEF w, n, m
<1>5. ASSUME NEW p \in 1..n PROVE InTemplate(w, p) <=> InTemplate(u, p)
  <2>1. ASSUME InTemplate(w, p) PROVE InTemplate(u, p)
    <3>1. PICK i \in 1..p : \E j \in p..(n + m) : Recognised(w, i, j)
      BY <1>4, <2>1
    <3>2. PICK j \in p..(n + m) : Recognised(w, i, j)
      BY <3>1
    <3>3. i \in 1..n /\ j \in i..(n + m)
      BY <1>1
    <3>4. j \in i..n
      BY <1>3, <3>2, <3>3
    <3>5. j \in p..n /\ Recognised(u, i, j)
      BY <1>1, <1>2, <3>2, <3>3, <3>4
    <3>. QED
      BY <1>4, <3>5
  <2>2. ASSUME InTemplate(u, p) PROVE InTemplate(w, p)
    <3>1. PICK i \in 1..p : \E j \in p..n : Recognised(u, i, j)
      BY <1>4, <2>2
    <3>2. PICK j \in p..n : Recognised(u, i, j)
      BY <3>1
    <3>3. i \in 1..n /\ j \in i..n /\ j \in p..(n + m)
      BY <1>1
    <3>. QED
      BY <1>2, <1>4, <3>2, <3>3
  <2>. QED
    BY <2>1, <2>2
<1>6. ASSUME NEW p \in 1..m PROVE InTemplate(w, n + p) <=> InTemplate(t, p)
  <2>1. ASSUME InTemplate(w, n + p) PROVE InTemplate(t, p)
    <3>1. PICK i \in 1..(n + p) : \E j \in (n + p)..(n + m) : Recognised(w, i, j)
      BY <1>4, <2>1
    <3>2. PICK j \in (n + p)..(n + m) : Recognised(w, i, j)
      BY <3>1
    <3>3. i \notin 1..n
      <4>1. i \in 1..n => j \in i..(n + m)
        BY <1>1
      <4>2. j \notin i..n
        BY <1>1
      <4>. QED
        BY <1>3, <3>2, <4>1, <4>2
    <3>. DEFINE a == i - n
                b == j - n
    <3>4. a \in 1..p /\ b \in p..m /\ i = n + a /\ j = n + b /\ a \in 1..m /\ b \in a..m
      BY <1>1, <3>3
    <3>. HIDE DEF a, b
    <3>5. Recognised(t, a, b)
      BY <1>2, <3>2, <3>4
    <3>. QED
      BY <1>4, <3>4, <3>5
  <2>2. ASSUME InTemplate(t, p) PROVE InTemplate(w, n + p)
    <3>1. PICK i \in 1..p : \E j \in p..m : Recognised(t, i, j)
      BY <1>4, <2>2
    <3>2. PICK j \in p..m : Recognised(t, i, j)
      BY <3>1
    <3>3. i \in 1..m /\ j \in i..m /\ n + i \in 1..(n + p) /\ n + j \in (n + p)..(n + m)
      BY <1>1
    <3>4. Recognised(w, n + i, n + j)
      BY <1>2, <3>2, <3>3
    <3>. QED
      BY <1>4, <3>3, <3>4
  <2>. QED
    BY <2>1, <2>2
<1>. QED
  BY <1>5, <1>6 DEF w, n, m

-----------------------------------------------------------------------------
(* Texts that pass the checks                                              *)

\* The delimiters of tables: tokens outside templates.
TablesIn(text, tokens) ==
  Cardinality({p \in {q \in DOMAIN text : ~InTemplate(text, q)} : text[p] \in tokens})

LEMMA TablesOfTwo ==
  ASSUME NEW L, NEW u \in Seq(L), NEW t \in Seq(L), NEW S, ClosesTemplates(u)
  PROVE  TablesIn(u \o t, S) = TablesIn(u, S) + TablesIn(t, S)
<1>. DEFINE w == u \o t
            inU == {p \in {q \in DOMAIN u : ~InTemplate(u, q)} : u[p] \in S}
            inT == {p \in {q \in DOMAIN t : ~InTemplate(t, q)} : t[p] \in S}
            inW == {p \in {q \in DOMAIN w : ~InTemplate(w, q)} : w[p] \in S}
            len1 == Len(u)
            len2 == Len(t)
<1>1. /\ len1 \in Nat /\ len2 \in Nat
      /\ DOMAIN u = 1..len1 /\ DOMAIN t = 1..len2 /\ DOMAIN w = 1..(len1 + len2)
      /\ \A p \in 1..len1 : w[p] = u[p]
      /\ \A p \in 1..len2 : w[len1 + p] = t[p]
  BY ConcatPlaces
<1>2. /\ \A p \in 1..len1 : InTemplate(w, p) <=> InTemplate(u, p)
      /\ \A p \in 1..len2 : InTemplate(w, len1 + p) <=> InTemplate(t, p)
  BY InTemplateOfTwo
<1>3. inW \in SUBSET (1..(len1 + len2)) /\ inU \in SUBSET (1..len1) /\ inT \in SUBSET (1..len2)
  BY <1>1
<1>4. \A p \in 1..len1 : p \in 1..(len1 + len2)
  BY <1>1
<1>5. \A p \in 1..len2 : len1 + p \in 1..(len1 + len2)
  BY <1>1
<1>. HIDE DEF w, len1, len2
<1>6. {p \in 1..len1 : p \in inW} = inU
  BY <1>1, <1>2, <1>4
<1>7. {q \in 1..len2 : len1 + q \in inW} = inT
  BY <1>1, <1>2, <1>5
<1>8. TablesIn(u, S) = Cardinality(inU) /\ TablesIn(t, S) = Cardinality(inT) /\ TablesIn(w, S) = Cardinality(inW)
  BY DEF TablesIn
<1>. HIDE DEF inU, inT, inW
<1>9. inW = Together(len1, {p \in 1..len1 : p \in inW}, {q \in 1..len2 : len1 + q \in inW})
  BY <1>1, <1>3, SplitPlaces
<1>10. inW = Together(len1, inU, inT)
  BY <1>6, <1>7, <1>9
<1>11. Cardinality(Together(len1, inU, inT)) = Cardinality(inU) + Cardinality(inT)
  BY <1>1, <1>3, PlacesOfTwo
<1>. QED
  BY <1>8, <1>10, <1>11 DEF w

\* Everything ValidText and ClosesItself ask for but the headings.
Sound(text) ==
  LET masked == Stripping(text).out
  IN  /\ Stripping(text).held = << >>
      /\ ClosesTemplates(text)
      /\ CountIn(masked, {"{{"}) = CountIn(masked, TemplateEnd)
      /\ CountIn(masked, {"[["}) = CountIn(masked, {"]]"})
      /\ CountIn(masked, {"<!--"}) = CountIn(masked, {"-->"})
      /\ TablesIn(text, {"{|"}) = TablesIn(text, {"|}", "|}}"})
      /\ CountIn(text, {"<ref>"}) = CountIn(text, {"</ref>"})
      /\ CountIn(text, {"meta"}) = 0
      /\ \A p \in DOMAIN text : text[p] \notin BrokenTemplates

LEMMA BalancedIs ==
  ASSUME NEW L, NEW text \in Seq(L), Stripping(text).held = << >>
  PROVE  LET masked == Stripping(text).out
         IN  Unbalanced(text) = {} <=>
               /\ CountIn(masked, {"{{"}) = CountIn(masked, TemplateEnd)
               /\ CountIn(masked, {"[["}) = CountIn(masked, {"]]"})
               /\ CountIn(masked, {"<!--"}) = CountIn(masked, {"-->"})
               /\ TablesIn(text, {"{|"}) = TablesIn(text, {"|}", "|}}"})
               /\ CountIn(text, {"<ref>"}) = CountIn(text, {"</ref>"})
<1>. DEFINE masked == Stripping(text).out
            a1 == CountIn(masked, {"{{"})
            a2 == CountIn(masked, TemplateEnd)
            b1 == CountIn(masked, {"[["})
            b2 == CountIn(masked, {"]]"})
            c1 == CountIn(masked, {"<!--"})
            c2 == CountIn(masked, {"-->"})
            d1 == TablesIn(text, {"{|"})
            d2 == TablesIn(text, {"|}", "|}}"})
            e1 == CountIn(text, {"<ref>"})
            e2 == CountIn(text, {"</ref>"})
            odd(kind) ==
              CASE kind = "template"  -> a1 # a2
                [] kind = "link"      -> b1 # b2
                [] kind = "comment"   -> c1 # c2
                [] kind = "table"     -> d1 # d2
                [] kind = "reference" -> e1 # e2
<1>1. StripVerbatim(text) = masked
  <2>1. Stripping(text) \in Strips(L)
    BY StrippingIsText
  <2>2. masked \in Seq(L)
    BY <2>1 DEF Strips
  <2>. HIDE DEF masked
  <2>3. masked \o << >> = masked
    BY <2>2, ConcatEmptySeq
  <2>. QED
    BY <2>3 DEF StripVerbatim, masked
<1>2. Unbalanced(text) = {kind \in {"template", "link", "comment", "table", "reference"} : odd(kind)}
  BY <1>1, Zenon DEF Unbalanced, TablesIn
<1>. HIDE DEF a1, a2, b1, b2, c1, c2, d1, d2, e1, e2
<1>3. /\ odd("template") <=> a1 # a2
      /\ odd("link") <=> b1 # b2
      /\ odd("comment") <=> c1 # c2
      /\ odd("table") <=> d1 # d2
      /\ odd("reference") <=> e1 # e2
  OBVIOUS
<1>. HIDE DEF odd
<1>4. Unbalanced(text) = {} <=> a1 = a2 /\ b1 = b2 /\ c1 = c2 /\ d1 = d2 /\ e1 = e2
  BY <1>2, <1>3
<1>. QED
  BY <1>4 DEF a1, a2, b1, b2, c1, c2, d1, d2, e1, e2

LEMMA SoundIs ==
  ASSUME NEW L, NEW text \in Seq(L)
  PROVE  Sound(text) /\ ~MisplacedHeading(text) <=> ClosesItself(text) /\ ValidText(text)
<1>1. ClosesItself(text) <=> Stripping(text).held = << >> /\ ClosesTemplates(text)
  BY DEF ClosesItself, ClosesTemplates
<1>2. CountIn(text, {"meta"}) \in Nat
  BY CountOfTwo
<1>3. {issue.kind : issue \in TemplateIssues(text)} = {} <=> \A p \in DOMAIN text : text[p] \notin BrokenTemplates
  BY DEF TemplateIssues
<1>4. ValidText(text) <=> /\ Unbalanced(text) = {}
                          /\ CountIn(text, {"meta"}) = 0
                          /\ ~MisplacedHeading(text)
                          /\ \A p \in DOMAIN text : text[p] \notin BrokenTemplates
  <2>1. ~(CountIn(text, {"meta"}) > 0) <=> CountIn(text, {"meta"}) = 0
    BY <1>2
  <2>. QED
    BY <1>3, <2>1 DEF ValidText, Issues
<1>5. CASE Stripping(text).held = << >>
  BY <1>1, <1>4, <1>5, BalancedIs DEF Sound
<1>6. CASE Stripping(text).held # << >>
  BY <1>1, <1>6 DEF Sound
<1>. QED
  BY <1>5, <1>6

LEMMA SoundOfTwo ==
  ASSUME NEW L, NEW u \in Seq(L), NEW t \in Seq(L), Sound(u), Sound(t)
  PROVE  Sound(u \o t)
<1>. DEFINE w == u \o t
            a == Stripping(u).out
            b == Stripping(t).out
<1>1. /\ Stripping(u).held = << >> /\ Stripping(t).held = << >>
      /\ ClosesTemplates(u) /\ ClosesTemplates(t)
  BY DEF Sound
<1>2. Stripping(w).out = a \o b /\ Stripping(w).held = << >>
  <2>1. Stripping(w) = [out |-> a \o b, held |-> Stripping(t).held]
    BY <1>1, StrippingOfTwo
  <2>. HIDE DEF w, a, b
  <2>. QED
    BY <1>1, <2>1
<1>3. a \in Seq(L) /\ b \in Seq(L)
  <2>1. Stripping(u) \in Strips(L) /\ Stripping(t) \in Strips(L)
    BY StrippingIsText
  <2>. QED
    BY <2>1 DEF Strips
<1>4. ClosesTemplates(w)
  BY <1>1, ClosesOfTwo
<1>5. \A S : CountIn(w, S) = CountIn(u, S) + CountIn(t, S)
  BY CountOfTwo
<1>6. \A S : TablesIn(w, S) = TablesIn(u, S) + TablesIn(t, S)
  BY <1>1, TablesOfTwo
<1>. HIDE DEF a, b
<1>7. \A S : CountIn(a \o b, S) = CountIn(a, S) + CountIn(b, S)
  BY <1>3, CountOfTwo
<1>8. \A p \in DOMAIN w : w[p] \notin BrokenTemplates
  <2>1. /\ Len(u) \in Nat /\ Len(t) \in Nat
        /\ DOMAIN u = 1..Len(u) /\ DOMAIN t = 1..Len(t) /\ DOMAIN w = 1..(Len(u) + Len(t))
        /\ \A p \in 1..Len(u) : w[p] = u[p]
        /\ \A p \in 1..Len(t) : w[Len(u) + p] = t[p]
    BY ConcatPlaces
  <2>2. /\ \A p \in DOMAIN u : u[p] \notin BrokenTemplates
        /\ \A p \in DOMAIN t : t[p] \notin BrokenTemplates
    BY DEF Sound
  <2>. HIDE DEF w
  <2>3. ASSUME NEW p \in 1..(Len(u) + Len(t)) PROVE w[p] \notin BrokenTemplates
    <3>. DEFINE q == p - Len(u)
    <3>1. p \in 1..Len(u) \/ (q \in 1..Len(t) /\ p = Len(u) + q)
      BY <2>1
    <3>. HIDE DEF q
    <3>. QED
      BY <2>1, <2>2, <3>1
  <2>. QED
    BY <2>1, <2>3
<1>. HIDE DEF w
<1>9. CountIn(w, {"meta"}) = 0
  <2>1. CountIn(u, {"meta"}) = 0 /\ CountIn(t, {"meta"}) = 0
    BY DEF Sound
  <2>. QED
    BY <1>5, <2>1
<1>10. /\ CountIn(a \o b, {"{{"}) = CountIn(a \o b, TemplateEnd)
       /\ CountIn(a \o b, {"[["}) = CountIn(a \o b, {"]]"})
       /\ CountIn(a \o b, {"<!--"}) = CountIn(a \o b, {"-->"})
  <2>1. /\ CountIn(a, {"{{"}) = CountIn(a, TemplateEnd) /\ CountIn(b, {"{{"}) = CountIn(b, TemplateEnd)
        /\ CountIn(a, {"[["}) = CountIn(a, {"]]"}) /\ CountIn(b, {"[["}) = CountIn(b, {"]]"})
        /\ CountIn(a, {"<!--"}) = CountIn(a, {"-->"}) /\ CountIn(b, {"<!--"}) = CountIn(b, {"-->"})
    BY DEF Sound, a, b
  <2>. QED
    BY <1>7, <2>1
<1>11. /\ TablesIn(w, {"{|"}) = TablesIn(w, {"|}", "|}}"})
       /\ CountIn(w, {"<ref>"}) = CountIn(w, {"</ref>"})
  <2>1. /\ TablesIn(u, {"{|"}) = TablesIn(u, {"|}", "|}}"}) /\ TablesIn(t, {"{|"}) = TablesIn(t, {"|}", "|}}"})
        /\ CountIn(u, {"<ref>"}) = CountIn(u, {"</ref>"}) /\ CountIn(t, {"<ref>"}) = CountIn(t, {"</ref>"})
    BY DEF Sound
  <2>. QED
    BY <1>5, <1>6, <2>1
<1>12. Sound(w)
  BY <1>2, <1>4, <1>8, <1>9, <1>10, <1>11 DEF Sound
<1>. QED
  BY <1>12 DEF w

LEMMA NewlineIsSound == Sound(<<"n">>)
<1>. DEFINE t == <<"n">>
<1>1. DOMAIN t = {1} /\ t[1] = "n" /\ Len(t) = 1 /\ t = Append(<< >>, "n")
  OBVIOUS
<1>2. << >> \in Seq({"n"}) /\ "n" \in {"n"}
  BY EmptySeq
<1>3. Stripping(t) = TakeToken(NothingStripped, "n")
  BY <1>1, <1>2, StrippingLaw
<1>4. Stripping(t) = [out |-> t, held |-> << >>]
  BY <1>1, <1>3 DEF TakeToken, NothingStripped
<1>. HIDE DEF t
<1>5. ASSUME NEW S, "n" \notin S PROVE CountIn(t, S) = 0 /\ TablesIn(t, S) = 0
  <2>1. {p \in DOMAIN t : t[p] \in S} = {}
    BY <1>1, <1>5
  <2>2. {p \in {q \in DOMAIN t : ~InTemplate(t, q)} : t[p] \in S} = {}
    BY <1>1, <1>5
  <2>. QED
    BY <2>1, <2>2, FS_EmptySet DEF CountIn, TablesIn
<1>6. /\ CountIn(t, {"{{"}) = 0 /\ CountIn(t, TemplateEnd) = 0
      /\ CountIn(t, {"[["}) = 0 /\ CountIn(t, {"]]"}) = 0
      /\ CountIn(t, {"<!--"}) = 0 /\ CountIn(t, {"-->"}) = 0
      /\ TablesIn(t, {"{|"}) = 0 /\ TablesIn(t, {"|}", "|}}"}) = 0
      /\ CountIn(t, {"<ref>"}) = 0 /\ CountIn(t, {"</ref>"}) = 0 /\ CountIn(t, {"meta"}) = 0
  BY <1>5 DEF TemplateEnd
<1>7. ClosesTemplates(t)
  BY <1>1 DEF ClosesTemplates
<1>8. \A p \in DOMAIN t : t[p] \notin BrokenTemplates
  BY <1>1 DEF BrokenTemplates
<1>. QED
  <2>1. Stripping(t).out = t /\ Stripping(t).held = << >>
    BY <1>4
  <2>2. Sound(t)
    BY <1>6, <1>7, <1>8, <2>1 DEF Sound
  <2>. QED
    BY <2>2 DEF t

\* A heading of the second text begins a line as it did alone, if a line ends
\* between the two.
LEMMA HeadingsOfTwo ==
  ASSUME NEW L, NEW u \in Seq(L), NEW t \in Seq(L), u # << >>, t # << >>,
         ~MisplacedHeading(u), ~MisplacedHeading(t), EndsLine(u) \/ StartsLine(t)
  PROVE  ~MisplacedHeading(u \o t)
<1>. DEFINE w == u \o t
            n == Len(u)
            m == Len(t)
<1>1. /\ n \in Nat /\ m \in Nat /\ Len(w) = n + m
      /\ DOMAIN u = 1..n /\ DOMAIN t = 1..m /\ DOMAIN w = 1..(n + m)
      /\ \A p \in 1..n : w[p] = u[p]
      /\ \A p \in 1..m : w[n + p] = t[p]
  BY ConcatPlaces
<1>2. n # 0 /\ m # 0
  BY EmptySeq
<1>3. u[n] = "n" \/ t[1] = "n"
  BY <1>2 DEF EndsLine, StartsLine, Last
<1>4. /\ \A p \in 1..n : u[p] = "head" /\ (p = n \/ u[p + 1] = "n") /\ p > 1 => u[p - 1] = "n"
      /\ \A p \in 1..m : t[p] = "head" /\ (p = m \/ t[p + 1] = "n") /\ p > 1 => t[p - 1] = "n"
  BY <1>1 DEF MisplacedHeading
<1>. HIDE DEF w, n, m
<1>5. ASSUME NEW p \in 1..(n + m), w[p] = "head", p = n + m \/ w[p + 1] = "n", p > 1
      PROVE  w[p - 1] = "n"
  <2>1. CASE p \in 1..n
    <3>1. p - 1 \in 1..n /\ w[p - 1] = u[p - 1] /\ w[p] = u[p]
      BY <1>1, <1>5, <2>1
    <3>2. p = n \/ u[p + 1] = "n"
      <4>1. p # n => p + 1 \in 1..n
        BY <1>1, <2>1
      <4>. QED
        BY <1>1, <1>2, <1>5, <4>1
    <3>. QED
      BY <1>4, <1>5, <2>1, <3>1, <3>2
  <2>2. CASE p \notin 1..n
    <3>. DEFINE q == p - n
    <3>1. q \in 1..m /\ p = n + q
      BY <1>1, <2>2
    <3>. HIDE DEF q
    <3>2. t[q] = "head"
      BY <1>1, <1>5, <3>1
    <3>3. q = m \/ t[q + 1] = "n"
      <4>1. q # m => q + 1 \in 1..m /\ p + 1 = n + (q + 1) /\ p # n + m
        BY <1>1, <3>1
      <4>. QED
        BY <1>1, <1>5, <4>1
    <3>4. CASE q = 1
      <4>1. t[1] # "n"
        BY <3>2, <3>4
      <4>2. u[n] = "n"
        BY <1>3, <4>1
      <4>3. p - 1 = n /\ n \in 1..n
        BY <1>1, <1>2, <3>1, <3>4
      <4>. QED
        BY <1>1, <4>2, <4>3
    <3>5. CASE q # 1
      <4>1. q > 1 /\ q - 1 \in 1..m /\ p - 1 = n + (q - 1)
        BY <1>1, <3>1, <3>5
      <4>2. t[q - 1] = "n"
        BY <1>4, <3>1, <3>2, <3>3, <4>1
      <4>. QED
        BY <1>1, <4>1, <4>2
    <3>. QED
      BY <3>4, <3>5
  <2>. QED
    BY <2>1, <2>2
<1>6. ~MisplacedHeading(w)
  BY <1>1, <1>5 DEF MisplacedHeading
<1>. QED
  BY <1>6 DEF w

-----------------------------------------------------------------------------
(* Joining                                                                 *)

NothingJoined == [text |-> << >>, last |-> << >>, line |-> 1, spans |-> << >>]
PieceLaws == INSTANCE LoopLaws
  WITH Op <- AddPiece, Start <- [text |-> << >>, last |-> << >>, line |-> 1, spans |-> << >>]

LEMMA AssembledLaw ==
  /\ AssembleWithSpans(<< >>) = NothingJoined
  /\ \A E : \A ts \in Seq(E) : \A t \in E :
       AssembleWithSpans(Append(ts, t)) = AddPiece(AssembleWithSpans(ts), t)
<1>. DEFINE start == [text |-> << >>, last |-> << >>, line |-> 1, spans |-> << >>]
<1>1. Loop(AddPiece, start, << >>) = start
  BY PieceLaws!LoopLaw DEF Loop, PieceLaws!Loop
<1>2. \A E : \A s \in Seq(E) : \A x \in E :
        Loop(AddPiece, start, Append(s, x)) = AddPiece(Loop(AddPiece, start, s), x)
  BY PieceLaws!LoopLaw DEF Loop, PieceLaws!Loop
<1>. QED
  BY <1>1, <1>2 DEF AssembleWithSpans, NothingJoined

\* The newline _assemble_with_spans puts between two pieces.
Glue(last, text) ==
  IF last # << >> /\ ~EndsLine(last) /\ text # << >> /\ ~StartsLine(text) THEN <<"n">> ELSE << >>

LEMMA AddedPiece ==
  ASSUME NEW s, NEW text
  PROVE  /\ AddPiece(s, text).text = s.text \o Glue(s.last, text) \o text
         /\ AddPiece(s, text).last = text
BY DEF AddPiece, Glue

\* What the texts that are joined are assumed to be, and the whole is shown to be.
Passes(text) == text # << >> /\ Sound(text) /\ ~MisplacedHeading(text)

LEMMA GlueOfTwo ==
  ASSUME NEW L, "n" \in L, NEW u \in Seq(L), NEW t \in Seq(L), Passes(u), Passes(t),
         NEW last, last # << >>, EndsLine(last) <=> EndsLine(u)
  PROVE  /\ Passes(u \o Glue(last, t) \o t)
         /\ u \o Glue(last, t) \o t \in Seq(L)
         /\ EndsLine(u \o Glue(last, t) \o t) <=> EndsLine(t)
<1>. DEFINE g == <<"n">>
            v == u \o g
<1>1. g \in Seq(L) /\ g # << >> /\ StartsLine(g) /\ ~MisplacedHeading(g) /\ Sound(g)
  <2>1. g \in Seq(L) /\ g # << >> /\ Len(g) = 1 /\ g[1] = "n"
    OBVIOUS
  <2>2. ~MisplacedHeading(g) /\ StartsLine(g)
    BY <2>1 DEF MisplacedHeading, StartsLine
  <2>. QED
    BY <2>1, <2>2, NewlineIsSound
<1>2. /\ u # << >> /\ Sound(u) /\ ~MisplacedHeading(u)
      /\ t # << >> /\ Sound(t) /\ ~MisplacedHeading(t)
  BY DEF Passes
<1>3. ASSUME NEW a \in Seq(L), a # << >>
      PROVE  a \o t \in Seq(L) /\ a \o t # << >> /\ (EndsLine(a \o t) <=> EndsLine(t))
  <2>1. /\ a \o t \in Seq(L) /\ Len(a) \in Nat /\ Len(t) \in Nat /\ Len(a \o t) = Len(a) + Len(t)
        /\ \A p \in 1..Len(t) : (a \o t)[Len(a) + p] = t[p]
    BY ConcatPlaces
  <2>2. Len(t) # 0 /\ Len(a) # 0
    BY <1>2, <1>3, EmptySeq
  <2>. DEFINE w == a \o t
  <2>3. w # << >> /\ w[Len(w)] = t[Len(t)]
    BY <2>1, <2>2
  <2>. HIDE DEF w
  <2>4. EndsLine(w) <=> EndsLine(t)
    BY <1>2, <2>3 DEF EndsLine, Last
  <2>. QED
    BY <2>1, <2>3, <2>4 DEF w
<1>4. CASE Glue(last, t) = << >>
  <2>1. u \o << >> = u
    BY ConcatEmptySeq
  <2>2. EndsLine(u) \/ StartsLine(t)
    BY <1>2, <1>4 DEF Glue
  <2>3. ~MisplacedHeading(u \o t) /\ Sound(u \o t)
    BY <1>2, <2>2, HeadingsOfTwo, SoundOfTwo
  <2>. QED
    BY <1>2, <1>3, <1>4, <2>1, <2>3 DEF Passes
<1>5. CASE Glue(last, t) = g
  <2>1. v \in Seq(L) /\ v # << >> /\ EndsLine(v)
    <3>1. /\ v \in Seq(L) /\ Len(u) \in Nat /\ Len(v) = Len(u) + 1 /\ v[Len(u) + 1] = "n"
      BY <1>1, ConcatPlaces
    <3>2. v # << >>
      BY <3>1
    <3>. QED
      BY <3>1, <3>2 DEF EndsLine, Last
  <2>2. Sound(v) /\ ~MisplacedHeading(v)
    BY <1>1, <1>2, SoundOfTwo, HeadingsOfTwo
  <2>. HIDE DEF v
  <2>3. ~MisplacedHeading(v \o t) /\ Sound(v \o t)
    BY <1>2, <2>1, <2>2, HeadingsOfTwo, SoundOfTwo
  <2>4. v \o t \in Seq(L) /\ v \o t # << >> /\ (EndsLine(v \o t) <=> EndsLine(t))
    BY <1>3, <2>1
  <2>. QED
    BY <1>5, <2>3, <2>4 DEF Passes, v
<1>6. Glue(last, t) = << >> \/ Glue(last, t) = g
  BY DEF Glue
<1>. QED
  BY <1>4, <1>5, <1>6

\* assemble_chunks, for texts of any tokens and any length: those that pass
\* validate_wikitext and close what they open pass it together.
THEOREM JoinsStayValid ==
  ASSUME NEW L, NEW texts \in Seq(Seq(L))
  PROVE  JoinedStaysValid(texts)
<1>. DEFINE K == L \cup {"n"}
            G == {t \in Seq(K) : Passes(t)}
            Joins(ts) ==
              LET s == AssembleWithSpans(ts)
              IN  /\ ts = << >> => s = NothingJoined
                  /\ ts # << >> => /\ s.text \in Seq(K) /\ Passes(s.text)
                                   /\ s.last # << >> /\ (EndsLine(s.last) <=> EndsLine(s.text))
            T == {ts \in Seq(G) : Joins(ts)}
<1>1. << >> \in T
  <2>1. << >> \in Seq(G)
    BY EmptySeq
  <2>2. AssembleWithSpans(<< >>) = NothingJoined
    BY AssembledLaw
  <2>. QED
    BY <2>1, <2>2
<1>2. ASSUME NEW ts \in Seq(G), NEW t \in G, ts \in T PROVE Append(ts, t) \in T
  <2>. DEFINE s == AssembleWithSpans(ts)
              e == AddPiece(s, t)
  <2>1. AssembleWithSpans(Append(ts, t)) = e
    BY AssembledLaw
  <2>2. Append(ts, t) \in Seq(G) /\ Append(ts, t) # << >>
    <3>. HIDE DEF G
    <3>. QED
      BY AppendProperties, Zenon
  <2>3. t \in Seq(K) /\ Passes(t) /\ t # << >> /\ "n" \in K
    BY DEF Passes
  <2>4. Joins(ts)
    BY <1>2
  <2>5. e.text = s.text \o Glue(s.last, t) \o t /\ e.last = t
    BY AddedPiece
  <2>6. e.text \in Seq(K) /\ Passes(e.text) /\ (EndsLine(t) <=> EndsLine(e.text))
    <3>1. CASE ts = << >>
      <4>1. s.text = << >> /\ s.last = << >>
        BY <2>4, <3>1 DEF NothingJoined
      <4>. HIDE DEF e, s, K
      <4>2. Glue(s.last, t) = << >>
        BY <4>1 DEF Glue
      <4>3. e.text = << >> \o << >> \o t
        BY <2>5, <4>1, <4>2
      <4>4. << >> \o << >> \o t = t
        BY <2>3, EmptySeq, ConcatEmptySeq
      <4>. QED
        BY <2>3, <4>3, <4>4
    <3>2. CASE ts # << >>
      <4>1. s.text \in Seq(K) /\ Passes(s.text) /\ s.last # << >> /\ (EndsLine(s.last) <=> EndsLine(s.text))
        BY <2>4, <3>2
      <4>. HIDE DEF e, s, K
      <4>2. /\ Passes(s.text \o Glue(s.last, t) \o t)
            /\ s.text \o Glue(s.last, t) \o t \in Seq(K)
            /\ EndsLine(s.text \o Glue(s.last, t) \o t) <=> EndsLine(t)
        BY <2>3, <4>1, GlueOfTwo
      <4>. QED
        BY <2>5, <4>2
    <3>. QED
      BY <3>1, <3>2
  <2>. HIDE DEF e, G
  <2>7. Joins(Append(ts, t))
    BY <2>1, <2>2, <2>3, <2>5, <2>6
  <2>. QED
    BY <2>2, <2>7
<1>. HIDE DEF T
<1>3. Seq(G) \subseteq T
  BY <1>1, <1>2, JoinLaws!AllSequences
<1>. SUFFICES ASSUME \A i \in DOMAIN texts : texts[i] # << >> /\ ValidText(texts[i]) /\ ClosesItself(texts[i])
              PROVE  ValidText(AssembleWithSpans(texts).text)
  BY DEF JoinedStaysValid
<1>4. ASSUME NEW i \in DOMAIN texts PROVE texts[i] \in G
  <2>1. texts[i] \in Seq(L) /\ Seq(L) \subseteq Seq(K)
    OBVIOUS
  <2>2. texts[i] \in Seq(K)
    BY <2>1
  <2>3. Sound(texts[i]) /\ ~MisplacedHeading(texts[i])
    BY <2>1, SoundIs
  <2>. QED
    BY <2>2, <2>3 DEF Passes
<1>5. texts \in Seq(G)
  <2>. HIDE DEF G
  <2>1. Len(texts) \in Nat /\ DOMAIN texts = 1..Len(texts) /\ texts = [i \in 1..Len(texts) |-> texts[i]]
    OBVIOUS
  <2>2. texts \in [1..Len(texts) -> G]
    BY <1>4, <2>1
  <2>. QED
    BY <2>1, <2>2, FunctionIsSequence
<1>6. Joins(texts)
  <2>. HIDE DEF Joins
  <2>. QED
    BY <1>3, <1>5 DEF T
<1>. DEFINE w == AssembleWithSpans(texts).text
<1>7. CASE texts = << >>
  <2>1. w = << >>
    BY <1>6, <1>7 DEF NothingJoined
  <2>. HIDE DEF w
  <2>2. w \in Seq(K) /\ Stripping(w) = NothingStripped /\ DOMAIN w = {}
    BY <2>1, EmptySeq, StrippingLaw
  <2>3. Sound(w) /\ ~MisplacedHeading(w)
    <3>1. \A S : CountIn(w, S) = 0 /\ TablesIn(w, S) = 0
      <4>1. \A S : {p \in DOMAIN w : w[p] \in S} = {}
                 /\ {p \in {q \in DOMAIN w : ~InTemplate(w, q)} : w[p] \in S} = {}
        BY <2>2
      <4>. QED
        BY <4>1, FS_EmptySet DEF CountIn, TablesIn
    <3>2. Stripping(w).out = w /\ Stripping(w).held = << >>
      BY <2>1, <2>2 DEF NothingStripped
    <3>3. ClosesTemplates(w) /\ ~MisplacedHeading(w)
      BY <2>2 DEF ClosesTemplates, MisplacedHeading
    <3>. QED
      BY <2>2, <3>1, <3>2, <3>3 DEF Sound
  <2>. QED
    BY <2>2, <2>3, SoundIs DEF w
<1>8. CASE texts # << >>
  <2>1. w \in Seq(K) /\ Passes(w)
    BY <1>6, <1>8
  <2>. HIDE DEF w
  <2>. QED
    BY <2>1, SoundIs DEF w, Passes
<1>. QED
  BY <1>7, <1>8

-----------------------------------------------------------------------------
(* Lines                                                                   *)

\* The newlines among the first k letters.
Newlines(w, k) == Cardinality({p \in 1..k : w[p] = "n"})

LEMMA NewlinesAreFinite ==
  ASSUME NEW w, NEW k \in Nat
  PROVE  IsFiniteSet({p \in 1..k : w[p] = "n"}) /\ Newlines(w, k) \in Nat
<1>. DEFINE S == {p \in 1..k : w[p] = "n"}
<1>1. IsFiniteSet(1..k)
  <2>1. 1 \in Int /\ k \in Int
    OBVIOUS
  <2>. QED
    BY <2>1, FS_Interval
<1>2. S \in SUBSET (1..k)
  OBVIOUS
<1>3. Newlines(w, k) = Cardinality(S)
  BY DEF Newlines
<1>. HIDE DEF S
<1>4. IsFiniteSet(S) /\ Cardinality(S) \in Nat
  BY <1>1, <1>2, FS_Subset, FS_CardinalityType
<1>. QED
  BY <1>3, <1>4 DEF S

LEMMA NewlinesNext ==
  ASSUME NEW w, NEW k \in Nat
  PROVE  Newlines(w, k + 1) = Newlines(w, k) + (IF w[k + 1] = "n" THEN 1 ELSE 0)
<1>. DEFINE S == {p \in 1..k : w[p] = "n"}
            T == {p \in 1..(k + 1) : w[p] = "n"}
<1>1. IsFiniteSet(S) /\ Newlines(w, k) = Cardinality(S) /\ Newlines(w, k + 1) = Cardinality(T)
      /\ Newlines(w, k) \in Nat
  BY NewlinesAreFinite DEF Newlines
<1>2. \A p : p \in 1..(k + 1) <=> p \in 1..k \/ p = k + 1
  OBVIOUS
<1>3. k + 1 \notin S
  OBVIOUS
<1>4. CASE w[k + 1] = "n"
  <2>1. T = S \cup {k + 1}
    BY <1>2, <1>4
  <2>. HIDE DEF S, T
  <2>2. Cardinality(T) = Cardinality(S) + 1
    BY <1>1, <1>3, <2>1, FS_AddElement
  <2>. QED
    BY <1>1, <1>4, <2>2
<1>5. CASE w[k + 1] # "n"
  <2>1. T = S
    BY <1>2, <1>5
  <2>. HIDE DEF S, T
  <2>. QED
    BY <1>1, <1>5, <2>1
<1>. QED
  BY <1>4, <1>5

\* There are more of them further on, if there is one in between.
LEMMA NewlinesGrow ==
  ASSUME NEW w, NEW k \in Nat, NEW m \in Nat, k <= m
  PROVE  /\ Newlines(w, k) <= Newlines(w, m)
         /\ \A x \in (k + 1)..m : w[x] = "n" => Newlines(w, k) < Newlines(w, m)
<1>. DEFINE S == {p \in 1..k : w[p] = "n"}
            T == {p \in 1..m : w[p] = "n"}
<1>1. /\ IsFiniteSet(S) /\ Newlines(w, k) = Cardinality(S) /\ Newlines(w, k) \in Nat
      /\ IsFiniteSet(T) /\ Newlines(w, m) = Cardinality(T) /\ Newlines(w, m) \in Nat
  BY NewlinesAreFinite DEF Newlines
<1>2. S \in SUBSET T
  OBVIOUS
<1>3. \A x \in (k + 1)..m : w[x] = "n" => x \in T /\ x \notin S
  OBVIOUS
<1>. HIDE DEF S, T
<1>4. Cardinality(S) <= Cardinality(T) /\ (Cardinality(T) = Cardinality(S) => T = S)
  BY <1>1, <1>2, FS_Subset
<1>. QED
  BY <1>1, <1>3, <1>4

LEMMA NewlinesAlike ==
  ASSUME NEW w, NEW v, NEW k \in Nat, \A p \in 1..k : w[p] = v[p]
  PROVE  Newlines(w, k) = Newlines(v, k)
BY DEF Newlines

\* Every line between those of two letters has a letter between them.
LEMMA LinesBetween ==
  ASSUME NEW w, NEW a \in Nat, NEW b \in Nat, a <= b,
         NEW v \in Nat, Newlines(w, a) <= v, v <= Newlines(w, b)
  PROVE  \E x \in a..b : Newlines(w, x) = v
<1>. DEFINE S == {x \in a..b : v <= Newlines(w, x)}
<1>1. S \in SUBSET Nat /\ b \in S
  OBVIOUS
<1>. DEFINE x == Min(S)
<1>2. x \in S /\ \A y \in S : x <= y
  <2>. HIDE DEF S
  <2>. QED
    BY <1>1, SmallestOf
<1>. HIDE DEF x
<1>3. x \in a..b /\ v <= Newlines(w, x) /\ x \in Nat
  BY <1>2
<1>4. CASE x = a
  <2>1. Newlines(w, a) \in Nat /\ v <= Newlines(w, a) /\ a \in a..b
    BY <1>3, <1>4, NewlinesAreFinite
  <2>2. Newlines(w, a) = v
    BY <2>1
  <2>. QED
    BY <2>1, <2>2
<1>5. CASE x # a
  <2>. DEFINE y == x - 1
  <2>1. y \in Nat /\ y \in a..b /\ x = y + 1
    BY <1>3, <1>5
  <2>2. y \notin S
    BY <1>2, <2>1
  <2>. HIDE DEF y
  <2>3. Newlines(w, y) \in Nat /\ Newlines(w, x) \in Nat
    BY <1>3, <2>1, NewlinesAreFinite
  <2>4. Newlines(w, y) < v
    BY <2>1, <2>2, <2>3
  <2>5. Newlines(w, x) = Newlines(w, y) + (IF w[x] = "n" THEN 1 ELSE 0)
    BY <2>1, NewlinesNext
  <2>6. Newlines(w, x) = v
    BY <1>3, <2>3, <2>4, <2>5
  <2>. QED
    BY <1>3, <2>6
<1>. QED
  BY <1>4, <1>5

LEMMA LineAtIs ==
  ASSUME NEW L, NEW w \in Seq(L), NEW p \in 1..(Len(w) + 1)
  PROVE  LineAt(w, p) = 1 + Newlines(w, p - 1)
<1>. DEFINE v == SubSeq(w, 1, p - 1)
            k == p - 1
<1>1. Len(w) \in Nat /\ k \in 0..Len(w)
  OBVIOUS
<1>2. v = [q \in 1..k |-> w[q]]
  <2>. HIDE DEF k
  <2>1. SubSeq(w, 1, k) = [q \in 1..(k - 1 + 1) |-> w[q + 1 - 1]]
    BY <1>1
  <2>2. k - 1 + 1 = k /\ \A q \in 1..k : q + 1 - 1 = q
    BY <1>1
  <2>3. SubSeq(w, 1, k) = [q \in 1..k |-> w[q]]
    BY <2>1, <2>2
  <2>. QED
    BY <2>3 DEF k
<1>3. {q \in DOMAIN v : v[q] = "n"} = {q \in 1..k : w[q] = "n"}
  <2>. HIDE DEF v, k
  <2>. QED
    BY <1>2
<1>4. CountOf(v, "n") = Newlines(w, k)
  BY <1>3 DEF CountOf, Newlines
<1>. QED
  BY <1>4 DEF LineAt

LEMMA NewlinesOfAll ==
  ASSUME NEW L, NEW w \in Seq(L) PROVE Newlines(w, Len(w)) = CountOf(w, "n")
<1>1. DOMAIN w = 1..Len(w)
  OBVIOUS
<1>. QED
  BY <1>1 DEF Newlines, CountOf

LEMMA NewlinesOfTwo ==
  ASSUME NEW L, NEW u \in Seq(L), NEW t \in Seq(L)
  PROVE  /\ CountOf(u \o t, "n") = CountOf(u, "n") + CountOf(t, "n")
         /\ CountOf(u, "n") \in Nat /\ CountOf(t, "n") \in Nat
<1>1. \A v : CountOf(v, "n") = CountIn(v, {"n"})
  <2>1. \A v : {p \in DOMAIN v : v[p] = "n"} = {p \in DOMAIN v : v[p] \in {"n"}}
    OBVIOUS
  <2>. QED
    BY <2>1 DEF CountOf, CountIn
<1>2. /\ CountIn(u \o t, {"n"}) = CountIn(u, {"n"}) + CountIn(t, {"n"})
      /\ CountIn(u, {"n"}) \in Nat /\ CountIn(t, {"n"}) \in Nat
  BY CountOfTwo
<1>. QED
  BY <1>1, <1>2

-----------------------------------------------------------------------------
(* Where the pieces are                                                    *)

GlueLen(ts, i) == IF GlueBefore(ts, i) THEN 1 ELSE 0

\* The pieces of a longer list are where they were, and the next one follows.
LEMMA GlueStays ==
  ASSUME NEW L, NEW ts \in Seq(Seq(L)), NEW t \in Seq(L), NEW i \in 1..Len(ts)
  PROVE  GlueBefore(Append(ts, t), i) <=> GlueBefore(ts, i)
<1>. DEFINE us == Append(ts, t)
<1>1. \A j \in 1..Len(ts) : us[j] = ts[j]
  OBVIOUS
<1>2. i > 1 => i - 1 \in 1..Len(ts)
  OBVIOUS
<1>. HIDE DEF us
<1>3. GlueBefore(us, i) <=> GlueBefore(ts, i)
  BY <1>1, <1>2 DEF GlueBefore
<1>. QED
  BY <1>3 DEF us

LEMMA FirstOf ==
  ASSUME NEW L, NEW ts \in Seq(Seq(L)), NEW t \in Seq(L), NEW k \in 0..Len(ts)
  PROVE  SubSeq(Append(ts, t), 1, k) = SubSeq(ts, 1, k) /\ SubSeq(ts, 1, k) \in Seq(Seq(L))
<1>. DEFINE us == Append(ts, t)
<1>1. /\ Len(ts) \in Nat /\ us \in Seq(Seq(L)) /\ Len(us) = Len(ts) + 1
      /\ \A j \in 1..Len(ts) : us[j] = ts[j]
  OBVIOUS
<1>2. SubSeq(ts, 1, k) = [q \in 1..(k - 1 + 1) |-> ts[q + 1 - 1]]
  BY <1>1
<1>3. \A q \in 1..(k - 1 + 1) : q + 1 - 1 = q /\ q \in 1..Len(ts)
  BY <1>1
<1>. HIDE DEF us
<1>4. SubSeq(us, 1, k) = [q \in 1..(k - 1 + 1) |-> us[q + 1 - 1]]
  BY <1>1
<1>5. SubSeq(us, 1, k) = SubSeq(ts, 1, k)
  BY <1>1, <1>2, <1>3, <1>4
<1>6. SubSeq(ts, 1, k) \in Seq(Seq(L))
  <2>1. k - 1 + 1 \in Nat
    BY <1>1
  <2>2. [q \in 1..(k - 1 + 1) |-> ts[q + 1 - 1]] \in [1..(k - 1 + 1) -> Seq(L)]
    BY <1>3
  <2>. QED
    BY <1>2, <2>1, <2>2, FunctionIsSequence
<1>. QED
  BY <1>5, <1>6 DEF us

LEMMA GluesLaw ==
  /\ \A ts : \A i \in Nat : Glues(ts, i) \in Nat /\ Glues(ts, i + 1) = Glues(ts, i) + GlueLen(ts, i + 1)
  /\ \A ts : Glues(ts, 0) = 0
  /\ \A ts, us : \A i \in Nat :
       (\A j \in 1..i : GlueBefore(us, j) <=> GlueBefore(ts, j)) => Glues(us, i) = Glues(ts, i)
<1>1. ASSUME NEW ts, NEW i \in Nat
      PROVE  Glues(ts, i) \in Nat /\ Glues(ts, i + 1) = Glues(ts, i) + GlueLen(ts, i + 1)
  <2>. DEFINE S == {j \in 1..i : GlueBefore(ts, j)}
              T == {j \in 1..(i + 1) : GlueBefore(ts, j)}
  <2>1. IsFiniteSet(1..i)
    <3>1. 1 \in Int /\ i \in Int
      OBVIOUS
    <3>. QED
      BY <3>1, FS_Interval
  <2>2. S \in SUBSET (1..i) /\ i + 1 \notin S
    OBVIOUS
  <2>3. \A j : j \in 1..(i + 1) <=> j \in 1..i \/ j = i + 1
    OBVIOUS
  <2>4. GlueBefore(ts, i + 1) => T = S \cup {i + 1}
    BY <2>3
  <2>5. ~GlueBefore(ts, i + 1) => T = S
    BY <2>3
  <2>6. Glues(ts, i) = Cardinality(S) /\ Glues(ts, i + 1) = Cardinality(T)
    BY DEF Glues
  <2>. HIDE DEF S, T
  <2>7. IsFiniteSet(S) /\ Cardinality(S) \in Nat
    BY <2>1, <2>2, FS_Subset, FS_CardinalityType
  <2>8. Cardinality(S \cup {i + 1}) = Cardinality(S) + 1
    BY <2>2, <2>7, FS_AddElement
  <2>9. Cardinality(T) = Cardinality(S) + GlueLen(ts, i + 1)
    BY <2>4, <2>5, <2>7, <2>8 DEF GlueLen
  <2>. QED
    BY <2>6, <2>7, <2>9
<1>2. ASSUME NEW ts PROVE Glues(ts, 0) = 0
  <2>1. {j \in 1..0 : GlueBefore(ts, j)} = {}
    OBVIOUS
  <2>. QED
    BY <2>1, FS_EmptySet DEF Glues
<1>3. ASSUME NEW ts, NEW us, NEW i \in Nat, \A j \in 1..i : GlueBefore(us, j) <=> GlueBefore(ts, j)
      PROVE  Glues(us, i) = Glues(ts, i)
  BY <1>3 DEF Glues
<1>. QED
  BY <1>1, <1>2, <1>3

LEMMA BeforeStays ==
  ASSUME NEW L, NEW ts \in Seq(Seq(L)), NEW t \in Seq(L), NEW i \in 1..Len(ts)
  PROVE  Before(Append(ts, t), i) = Before(ts, i) /\ Before(ts, i) \in Nat
<1>. DEFINE us == Append(ts, t)
<1>1. i - 1 \in 0..Len(ts) /\ i \in Nat /\ \A j \in 1..i : j \in 1..Len(ts)
  OBVIOUS
<1>2. SubSeq(us, 1, i - 1) = SubSeq(ts, 1, i - 1) /\ SubSeq(ts, 1, i - 1) \in Seq(Seq(L))
  BY <1>1, FirstOf
<1>3. \A j \in 1..i : GlueBefore(us, j) <=> GlueBefore(ts, j)
  BY <1>1, GlueStays
<1>. HIDE DEF us
<1>4. Glues(us, i) = Glues(ts, i) /\ Glues(ts, i) \in Nat
  BY <1>1, <1>3, GluesLaw
<1>5. Joined(SubSeq(ts, 1, i - 1)) \in Seq(L)
  BY <1>2, JoinedIsText
<1>6. Len(Joined(SubSeq(ts, 1, i - 1))) \in Nat
  BY <1>5
<1>7. Before(us, i) = Before(ts, i) /\ Before(ts, i) \in Nat
  <2>1. Before(us, i) = Len(Joined(SubSeq(us, 1, i - 1))) + Glues(us, i)
    BY Zenon DEF Before
  <2>2. Before(ts, i) = Len(Joined(SubSeq(ts, 1, i - 1))) + Glues(ts, i)
    BY Zenon DEF Before
  <2>3. Before(us, i) = Before(ts, i)
    BY <1>2, <1>4, <2>1, <2>2, Zenon
  <2>. DEFINE a == Len(Joined(SubSeq(ts, 1, i - 1)))
              b == Glues(ts, i)
  <2>4. Before(ts, i) = a + b /\ a \in Nat /\ b \in Nat
    BY <1>4, <1>6, <2>2, Zenon
  <2>. HIDE DEF a, b
  <2>. QED
    BY <2>3, <2>4
<1>. QED
  BY <1>7 DEF us

\* The letters of the pieces so far and what is put between them.
EndOf(ts) == IF ts = << >> THEN 0 ELSE Before(ts, Len(ts)) + Len(ts[Len(ts)])

LEMMA BeforeNext ==
  ASSUME NEW L, NEW ts \in Seq(Seq(L)), NEW t \in Seq(L)
  PROVE  LET us == Append(ts, t)
         IN  /\ EndOf(ts) \in Nat
             /\ Before(us, Len(us)) = EndOf(ts) + GlueLen(us, Len(us))
<1>. DEFINE us == Append(ts, t)
            n == Len(ts)
<1>1. /\ n \in Nat /\ us \in Seq(Seq(L)) /\ Len(us) = n + 1 /\ SubSeq(us, 1, n) = ts
      /\ \A j \in 1..n : us[j] = ts[j]
  OBVIOUS
<1>2. Before(us, n + 1) = Len(Joined(ts)) + Glues(us, n + 1)
  <2>1. (n + 1) - 1 = n
    BY <1>1
  <2>. HIDE DEF us, n
  <2>. QED
    BY <1>1, <2>1 DEF Before
<1>3. Glues(us, n + 1) = Glues(us, n) + GlueLen(us, n + 1) /\ Glues(us, n) \in Nat
  BY <1>1, GluesLaw
<1>4. \A j \in 1..n : GlueBefore(us, j) <=> GlueBefore(ts, j)
  BY GlueStays
<1>5. Glues(us, n) = Glues(ts, n)
  <2>. HIDE DEF us, n
  <2>. QED
    BY <1>1, <1>4, GluesLaw
<1>6. Joined(ts) \in Seq(L) /\ Len(Joined(ts)) \in Nat
  <2>1. Joined(ts) \in Seq(L)
    BY JoinedIsText
  <2>. HIDE DEF us, n
  <2>. QED
    BY <2>1
<1>7. EndOf(ts) = Len(Joined(ts)) + Glues(ts, n)
  <2>1. CASE ts = << >>
    <3>1. n = 0 /\ Joined(ts) = << >>
      BY <2>1, JoinedLaw
    <3>2. Glues(ts, n) = 0
      BY <3>1, GluesLaw
    <3>. QED
      BY <2>1, <3>1, <3>2 DEF EndOf
  <2>2. CASE ts # << >>
    <3>. DEFINE f == ButLast(ts)
                x == Last(ts)
    <3>1. f \in Seq(Seq(L)) /\ x \in Seq(L) /\ ts = Append(f, x) /\ x = ts[n] /\ Len(f) = n - 1 /\ n \in 1..n
      BY <2>2, FrontAndLast
    <3>. HIDE DEF f, x
    <3>2. SubSeq(ts, 1, n - 1) = f
      <4>1. SubSeq(Append(f, x), 1, Len(f)) = f
        BY <3>1
      <4>. QED
        BY <3>1, <4>1
    <3>3. Joined(ts) = Joined(f) \o x /\ Joined(f) \in Seq(L)
      BY <3>1, JoinedLaw, JoinedIsText
    <3>4. Len(Joined(ts)) = Len(Joined(f)) + Len(x) /\ Len(Joined(f)) \in Nat /\ Len(x) \in Nat
      BY <3>1, <3>3
    <3>5. Before(ts, n) = Len(Joined(f)) + Glues(ts, n)
      <4>. HIDE DEF n
      <4>. QED
        BY <3>2 DEF Before
    <3>6. Glues(ts, n) \in Nat
      BY <1>1, GluesLaw
    <3>7. EndOf(ts) = Before(ts, n) + Len(x)
      BY <2>2, <3>1 DEF EndOf
    <3>. HIDE DEF n
    <3>. QED
      BY <3>4, <3>5, <3>6, <3>7
  <2>. QED
    BY <2>1, <2>2
<1>. HIDE DEF us, n
<1>8. EndOf(ts) \in Nat /\ Before(us, Len(us)) = EndOf(ts) + GlueLen(us, Len(us))
  <2>1. GlueLen(us, n + 1) \in Nat
    BY DEF GlueLen
  <2>. QED
    BY <1>1, <1>2, <1>3, <1>5, <1>6, <1>7, <2>1
<1>. QED
  BY <1>8 DEF us

\* Piece t stands in w after o letters, and span has the lines of its letters.
Placed(w, o, t, span) ==
  /\ o \in Nat /\ o + Len(t) <= Len(w)
  /\ \A p \in 1..Len(t) : w[o + p] = t[p]
  /\ span = <<1 + Newlines(w, o),
              IF t = << >> THEN Newlines(w, o) ELSE 1 + Newlines(w, o + Len(t) - 1)>>

LEMMA PlacedStays ==
  ASSUME NEW K, NEW w \in Seq(K), NEW v \in Seq(K), NEW t \in Seq(K), NEW o, NEW span,
         Placed(w, o, t, span)
  PROVE  Placed(w \o v, o, t, span)
<1>. DEFINE x == w \o v
<1>1. /\ Len(w) \in Nat /\ Len(v) \in Nat /\ Len(x) = Len(w) + Len(v)
      /\ \A p \in 1..Len(w) : x[p] = w[p]
  BY ConcatPlaces
<1>2. o \in Nat /\ o + Len(t) <= Len(w) /\ Len(t) \in Nat
  BY DEF Placed
<1>. HIDE DEF x
<1>3. \A p \in 1..Len(t) : x[o + p] = t[p]
  <2>1. \A p \in 1..Len(t) : o + p \in 1..Len(w)
    BY <1>1, <1>2
  <2>. QED
    BY <1>1, <2>1 DEF Placed
<1>4. ASSUME NEW k \in 0..Len(w) PROVE Newlines(x, k) = Newlines(w, k)
  <2>1. k \in Nat /\ \A p \in 1..k : p \in 1..Len(w)
    BY <1>1
  <2>2. \A p \in 1..k : x[p] = w[p]
    BY <1>1, <2>1
  <2>. QED
    BY <2>1, <2>2, NewlinesAlike
<1>5. Newlines(x, o) = Newlines(w, o)
  BY <1>1, <1>2, <1>4
<1>6. t # << >> => Newlines(x, o + Len(t) - 1) = Newlines(w, o + Len(t) - 1)
  <2>1. t # << >> => Len(t) # 0
    BY EmptySeq
  <2>2. t # << >> => o + Len(t) - 1 \in 0..Len(w)
    BY <1>1, <1>2, <2>1
  <2>. QED
    BY <1>4, <2>2
<1>7. o + Len(t) <= Len(x)
  BY <1>1, <1>2
<1>8. Placed(x, o, t, span)
  BY <1>2, <1>3, <1>5, <1>6, <1>7 DEF Placed
<1>. QED
  BY <1>8 DEF x

\* The span _assemble_with_spans gives a piece that comes at that line, and
\* the one it gives a piece that follows w.
PieceSpan(line, g, t) ==
  LET start == line + Len(g)
      next  == start + CountOf(t, "n")
  IN  <<start, IF t = << >> THEN start - 1 ELSE IF EndsLine(t) THEN next - 1 ELSE next>>

SpanAfter(w, g, t) == PieceSpan(1 + CountOf(w, "n"), g, t)

LEMMA GlueNewlines == \A g : g = << >> \/ g = <<"n">> => CountOf(g, "n") = Len(g)
<1>. SUFFICES ASSUME NEW g, g = << >> \/ g = <<"n">> PROVE CountOf(g, "n") = Len(g)
  OBVIOUS
<1>1. CASE g = << >>
  <2>1. {p \in DOMAIN g : g[p] = "n"} = {} /\ Len(g) = 0
    BY <1>1
  <2>. QED
    BY <2>1, FS_EmptySet DEF CountOf
<1>2. CASE g = <<"n">>
  <2>1. {p \in DOMAIN g : g[p] = "n"} = {1} /\ Len(g) = 1
    BY <1>2
  <2>. QED
    BY <2>1, FS_Singleton DEF CountOf
<1>. QED
  BY <1>1, <1>2

LEMMA PlacedNext ==
  ASSUME NEW K, NEW w \in Seq(K), NEW g \in Seq(K), NEW t \in Seq(K),
         g = << >> \/ g = <<"n">>
  PROVE  Placed(w \o g \o t, Len(w) + Len(g), t, SpanAfter(w, g, t))
<1>. DEFINE v == w \o g
            x == v \o t
            o == Len(w) + Len(g)
            m == Len(t)
<1>1. v \in Seq(K) /\ Len(w) \in Nat /\ Len(g) \in Nat /\ Len(v) = o /\ o \in Nat
  BY ConcatPlaces
<1>2. CountOf(g, "n") = Len(g)
  BY GlueNewlines
<1>3. CountOf(v, "n") = CountOf(w, "n") + Len(g) /\ CountOf(w, "n") \in Nat
  BY <1>2, NewlinesOfTwo
<1>. HIDE DEF v
<1>4. /\ x \in Seq(K) /\ m \in Nat /\ Len(x) = o + m
      /\ \A p \in 1..o : x[p] = v[p]
      /\ \A p \in 1..m : x[o + p] = t[p]
  <2>1. /\ x \in Seq(K) /\ m \in Nat /\ Len(x) = Len(v) + m
        /\ \A p \in 1..Len(v) : x[p] = v[p]
        /\ \A p \in 1..m : x[Len(v) + p] = t[p]
    <3>1. v \in Seq(K)
      BY <1>1
    <3>. QED
      BY <3>1, ConcatPlaces
  <2>. HIDE DEF x, m, o
  <2>. QED
    BY <1>1, <2>1
<1>5. CountOf(x, "n") = CountOf(v, "n") + CountOf(t, "n") /\ CountOf(t, "n") \in Nat
  BY <1>1, NewlinesOfTwo
<1>. HIDE DEF x, o, m
<1>6. Newlines(x, o) = CountOf(v, "n")
  <2>1. Newlines(v, o) = CountOf(v, "n")
    BY <1>1, NewlinesOfAll
  <2>. QED
    BY <1>1, <1>4, <2>1, NewlinesAlike
<1>7. Newlines(x, o + m) = Newlines(x, o) + CountOf(t, "n")
  BY <1>4, <1>5, <1>6, NewlinesOfAll
<1>8. SpanAfter(w, g, t) = <<1 + Newlines(x, o),
                             IF t = << >> THEN Newlines(x, o) ELSE 1 + Newlines(x, o + m - 1)>>
  <2>. DEFINE start == 1 + CountOf(w, "n") + Len(g)
              next == start + CountOf(t, "n")
  <2>1. start = 1 + Newlines(x, o) /\ start \in Int /\ next \in Int
    BY <1>1, <1>3, <1>5, <1>6
  <2>2. next = 1 + Newlines(x, o + m)
    BY <1>1, <1>3, <1>5, <1>6, <1>7
  <2>3. ASSUME t # << >>
        PROVE  Newlines(x, o + m - 1) = IF EndsLine(t) THEN Newlines(x, o + m) - 1 ELSE Newlines(x, o + m)
    <3>. DEFINE k == o + m - 1
    <3>1. m # 0
      BY <2>3, EmptySeq DEF m
    <3>2. k \in Nat /\ k + 1 = o + m /\ m \in 1..m
      BY <1>1, <1>4, <3>1
    <3>. HIDE DEF k
    <3>3. Newlines(x, k + 1) = Newlines(x, k) + (IF x[k + 1] = "n" THEN 1 ELSE 0)
      BY <3>2, NewlinesNext
    <3>4. x[k + 1] = t[m] /\ (EndsLine(t) <=> t[m] = "n")
      BY <1>4, <2>3, <3>2 DEF EndsLine, Last, m
    <3>5. Newlines(x, k) \in Nat
      BY <3>2, NewlinesAreFinite
    <3>6. Newlines(x, k) = IF EndsLine(t) THEN Newlines(x, o + m) - 1 ELSE Newlines(x, o + m)
      BY <3>2, <3>3, <3>4, <3>5
    <3>. QED
      BY <3>6 DEF k
  <2>4. Newlines(x, o) \in Nat /\ Newlines(x, o + m) \in Nat
    <3>1. o + m \in Nat
      BY <1>1, <1>4
    <3>. QED
      BY <1>1, <3>1, NewlinesAreFinite
  <2>5. SpanAfter(w, g, t) = <<start, IF t = << >> THEN start - 1 ELSE IF EndsLine(t) THEN next - 1 ELSE next>>
    BY DEF SpanAfter, PieceSpan
  <2>. HIDE DEF start, next
  <2>6. CASE t = << >>
    <3>1. SpanAfter(w, g, t) = <<start, start - 1>>
      BY <2>5, <2>6 DEF EndsLine
    <3>2. start - 1 = Newlines(x, o)
      BY <2>1, <2>4
    <3>. QED
      BY <2>1, <2>6, <3>1, <3>2
  <2>7. CASE t # << >> /\ EndsLine(t)
    <3>1. SpanAfter(w, g, t) = <<start, next - 1>>
      BY <2>5, <2>7
    <3>2. 1 + Newlines(x, o + m - 1) = next - 1
      BY <2>2, <2>3, <2>4, <2>7
    <3>. QED
      BY <2>1, <2>7, <3>1, <3>2
  <2>8. CASE t # << >> /\ ~EndsLine(t)
    <3>1. SpanAfter(w, g, t) = <<start, next>>
      BY <2>5, <2>8
    <3>2. 1 + Newlines(x, o + m - 1) = next
      BY <2>2, <2>3, <2>4, <2>8
    <3>. QED
      BY <2>1, <2>8, <3>1, <3>2
  <2>. QED
    BY <2>6, <2>7, <2>8
<1>9. o + m <= Len(x)
  BY <1>1, <1>4
<1>10. Placed(x, o, t, SpanAfter(w, g, t))
  BY <1>1, <1>4, <1>8, <1>9 DEF Placed, m
<1>. QED
  BY <1>10 DEF x, o, v

LEMMA AddedSpan ==
  ASSUME NEW s, NEW text
  PROVE  /\ AddPiece(s, text).line = s.line + Len(Glue(s.last, text)) + CountOf(text, "n")
         /\ AddPiece(s, text).spans = Append(s.spans, PieceSpan(s.line, Glue(s.last, text), text))
<1>. DEFINE from == s.line + Len(Glue(s.last, text))
            next == from + CountOf(text, "n")
            to == CASE text = << >> -> from - 1 [] EndsLine(text) -> next - 1 [] OTHER -> next
            g == Glue(s.last, text)
            x == AddPiece(s, text)
<1>1. x.line = next /\ x.spans = Append(s.spans, <<from, to>>)
  BY DEF AddPiece, Glue
<1>2. to = IF text = << >> THEN from - 1 ELSE IF EndsLine(text) THEN next - 1 ELSE next
  <2>. HIDE DEF from, next
  <2>1. CASE text = << >>
    BY <2>1 DEF EndsLine
  <2>2. CASE text # << >> /\ EndsLine(text)
    BY <2>2
  <2>3. CASE text # << >> /\ ~EndsLine(text)
    BY <2>3
  <2>. QED
    BY <2>1, <2>2, <2>3
<1>3. <<from, to>> = PieceSpan(s.line, g, text)
  <2>. HIDE DEF to, g
  <2>1. from = s.line + Len(g)
    BY DEF g
  <2>. QED
    BY <1>2, <2>1 DEF PieceSpan
<1>4. next = s.line + Len(g) + CountOf(text, "n")
  OBVIOUS
<1>. HIDE DEF to, from, next, x
<1>. QED
  BY <1>1, <1>3, <1>4 DEF x

\* One piece more: what _assemble_with_spans has after it.
Longer(K, s, t) ==
  LET g == Glue(s.last, t)
      e == AddPiece(s, t)
  IN  /\ g \in Seq(K) /\ Len(g) \in Nat /\ (g = << >> \/ g = <<"n">>)
      /\ e.text = s.text \o g \o t /\ e.text \in Seq(K)
      /\ Len(e.text) = Len(s.text) + Len(g) + Len(t)
      /\ e.text = s.text \o (g \o t) /\ g \o t \in Seq(K)
      /\ e.line = 1 + CountOf(e.text, "n") /\ e.last = t
      /\ SpanAfter(s.text, g, t) \in Int \X Int
      /\ e.spans = Append(s.spans, SpanAfter(s.text, g, t))

LEMMA NextPiece ==
  ASSUME NEW K, "n" \in K, NEW s, s.text \in Seq(K), s.line = 1 + CountOf(s.text, "n"),
         s.spans \in Seq(Int \X Int), NEW t \in Seq(K)
  PROVE  Longer(K, s, t)
<1>. DEFINE g == Glue(s.last, t)
            e == AddPiece(s, t)
            w == s.text
            c == s.spans
<1>1. g = << >> \/ g = <<"n">>
  BY DEF Glue
<1>2. e.text = w \o g \o t /\ e.last = t
  BY AddedPiece
<1>3. /\ e.line = s.line + Len(g) + CountOf(t, "n")
      /\ e.spans = Append(c, PieceSpan(s.line, g, t))
  BY AddedSpan
<1>4. w \in Seq(K) /\ s.line = 1 + CountOf(w, "n") /\ c \in Seq(Int \X Int)
  OBVIOUS
<1>. HIDE DEF w, c, g, e
<1>5. g \in Seq(K) /\ Len(g) \in Nat
  <2>1. << >> \in Seq(K) /\ <<"n">> \in Seq(K)
    BY EmptySeq
  <2>2. g \in Seq(K)
    BY <1>1, <2>1
  <2>. QED
    BY <2>2
<1>6. /\ w \o g \in Seq(K) /\ Len(w \o g) = Len(w) + Len(g) /\ Len(w) \in Nat
      /\ CountOf(w \o g, "n") = CountOf(w, "n") + CountOf(g, "n") /\ CountOf(w, "n") \in Nat
  BY <1>4, <1>5, ConcatPlaces, NewlinesOfTwo
<1>. DEFINE v == w \o g
<1>7. /\ v \o t \in Seq(K) /\ Len(v \o t) = Len(v) + Len(t) /\ Len(t) \in Nat
      /\ CountOf(v \o t, "n") = CountOf(v, "n") + CountOf(t, "n") /\ CountOf(t, "n") \in Nat
  <2>1. v \in Seq(K)
    BY <1>6
  <2>. HIDE DEF v
  <2>. QED
    BY <2>1, ConcatPlaces, NewlinesOfTwo
<1>8. v \o t = w \o (g \o t) /\ g \o t \in Seq(K)
  <2>1. w \in Seq(K) /\ g \in Seq(K) /\ t \in Seq(K)
    BY <1>4, <1>5
  <2>. QED
    BY <2>1, Associative, SMTT(30)
<1>9. CountOf(g, "n") = Len(g)
  BY <1>1, GlueNewlines
<1>10. e.line = 1 + CountOf(e.text, "n") /\ Len(e.text) = Len(w) + Len(g) + Len(t)
  <2>1. e.text = v \o t
    BY <1>2
  <2>. QED
    BY <1>3, <1>4, <1>5, <1>6, <1>7, <1>9, <2>1
<1>11. SpanAfter(w, g, t) \in Int \X Int
  BY <1>5, <1>6, <1>7 DEF SpanAfter, PieceSpan
<1>12. e.spans = Append(c, SpanAfter(w, g, t))
  BY <1>3, <1>4 DEF SpanAfter
<1>13. e.text \in Seq(K) /\ e.text = w \o (g \o t)
  BY <1>2, <1>7, <1>8
<1>. QED
  BY <1>1, <1>2, <1>5, <1>8, <1>10, <1>11, <1>12, <1>13 DEF Longer, w, c, g, e

\* What is known of the whole once all pieces are put together: where each is,
\* and that a newline stands before it if one was put there.
PiecesPlaced(ts, whole) ==
  \A i \in 1..Len(ts) :
     /\ Placed(whole.text, Before(ts, i), ts[i], whole.spans[i])
     /\ GlueBefore(ts, i) => Before(ts, i) >= 1 /\ whole.text[Before(ts, i)] = "n"

\* No letter is lost to the newlines put in between.
LettersPlaced(ts, whole) ==
  \A x \in 1..Len(whole.text) : whole.text[x] # "n" =>
     \E i \in 1..Len(ts) : \E p \in 1..Len(ts[i]) : x = Before(ts, i) + p

Whole(L, ts, whole) ==
  /\ whole.text \in Seq(L \cup {"n"}) /\ Len(whole.text) = EndOf(ts)
  /\ whole.line = 1 + CountOf(whole.text, "n")
  /\ whole.last = IF ts = << >> THEN << >> ELSE ts[Len(ts)]
  /\ whole.spans \in Seq(Int \X Int) /\ Len(whole.spans) = Len(ts)
  /\ PiecesPlaced(ts, whole) /\ LettersPlaced(ts, whole)

LEMMA NothingIsWhole == \A L : Whole(L, << >>, NothingJoined)
<1>. SUFFICES ASSUME NEW L PROVE Whole(L, << >>, NothingJoined)
  OBVIOUS
<1>. DEFINE s == NothingJoined
<1>1. s.text = << >> /\ s.last = << >> /\ s.line = 1 /\ s.spans = << >>
  BY DEF NothingJoined
<1>. HIDE DEF s
<1>2. << >> \in Seq(L \cup {"n"}) /\ << >> \in Seq(Int \X Int) /\ Len(<< >>) = 0
  BY EmptySeq
<1>3. CountOf(<< >>, "n") = 0
  BY GlueNewlines, <1>2
<1>4. EndOf(<< >>) = 0
  BY DEF EndOf
<1>5. PiecesPlaced(<< >>, s) /\ LettersPlaced(<< >>, s)
  BY <1>1, <1>2 DEF PiecesPlaced, LettersPlaced
<1>6. Whole(L, << >>, s)
  <2>1. s.text \in Seq(L \cup {"n"}) /\ s.spans \in Seq(Int \X Int)
    BY <1>1, <1>2
  <2>2. Len(s.text) = EndOf(<< >>) /\ Len(s.spans) = Len(<< >>)
    BY <1>1, <1>2, <1>4
  <2>3. s.line = 1 + CountOf(s.text, "n")
    BY <1>1, <1>3
  <2>4. s.last = IF << >> = << >> THEN << >> ELSE << >>[Len(<< >>)]
    BY <1>1
  <2>. QED
    BY <1>5, <2>1, <2>2, <2>3, <2>4, Zenon DEF Whole
<1>. QED
  BY <1>6 DEF s

\* Where the next piece of a longer list stands, and the newline before it.
LEMMA NextStands ==
  ASSUME NEW L, NEW ts \in Seq(Seq(L)), NEW t \in Seq(L), NEW last,
         last = IF ts = << >> THEN << >> ELSE ts[Len(ts)]
  PROVE  LET us == Append(ts, t)
             n  == Len(ts) + 1
             g  == Glue(last, t)
         IN  /\ GlueBefore(us, n) <=> g = <<"n">>
             /\ EndOf(ts) \in Nat /\ Before(us, n) = EndOf(ts) + Len(g)
             /\ EndOf(us) = Before(us, n) + Len(t)
<1>. DEFINE us == Append(ts, t)
            n == Len(ts)
            g == Glue(last, t)
<1>1. /\ n \in Nat /\ us \in Seq(Seq(L)) /\ Len(us) = n + 1 /\ us[n + 1] = t /\ us # << >>
      /\ \A j \in 1..n : us[j] = ts[j]
  <2>1. us # << >>
    BY AppendProperties
  <2>. QED
    BY <2>1
<1>2. GlueBefore(us, n + 1) <=> g = <<"n">>
  <2>1. CASE ts = << >>
    <3>1. n = 0 /\ last = << >>
      BY <2>1
    <3>. HIDE DEF us, n
    <3>. QED
      BY <3>1 DEF GlueBefore, Glue
  <2>2. CASE ts # << >>
    <3>1. n # 0 /\ last = us[n] /\ n + 1 > 1 /\ (n + 1) - 1 = n
      <4>1. n # 0
        BY <2>2, EmptySeq
      <4>2. last = ts[n]
        BY <2>2
      <4>3. n \in 1..n
        BY <1>1, <4>1
      <4>. HIDE DEF us, n
      <4>. QED
        BY <1>1, <4>1, <4>2, <4>3
    <3>. HIDE DEF us, n
    <3>2. GlueBefore(us, n + 1) <=> us[n + 1] # << >> /\ us[n] # << >> /\ ~EndsLine(us[n]) /\ ~StartsLine(us[n + 1])
      BY <3>1, Zenon DEF GlueBefore
    <3>. QED
      BY <1>1, <3>1, <3>2 DEF Glue
  <2>. QED
    BY <2>1, <2>2
<1>3. GlueLen(us, n + 1) = Len(g)
  <2>1. Len(<< >>) = 0 /\ Len(<<"n">>) = 1 /\ << >> # <<"n">> /\ (g = << >> \/ g = <<"n">>)
    BY DEF Glue
  <2>. HIDE DEF us, n, g
  <2>. QED
    BY <1>2, <2>1 DEF GlueLen
<1>4. EndOf(ts) \in Nat /\ Before(us, Len(us)) = EndOf(ts) + GlueLen(us, Len(us))
  BY BeforeNext
<1>. HIDE DEF us, n, g
<1>5. EndOf(us) = Before(us, n + 1) + Len(t)
  BY <1>1 DEF EndOf
<1>. QED
  BY <1>1, <1>2, <1>3, <1>4, <1>5 DEF us, n, g

LEMMA NextIsWhole ==
  ASSUME NEW L, NEW ts \in Seq(Seq(L)), NEW t \in Seq(L), NEW s, Whole(L, ts, s)
  PROVE  Whole(L, Append(ts, t), AddPiece(s, t))
<1>. DEFINE us == Append(ts, t)
            n == Len(ts)
            K == L \cup {"n"}
            e == AddPiece(s, t)
            g == Glue(s.last, t)
            o == Before(us, n + 1)
            w == s.text
            span == SpanAfter(w, g, t)
<1>1. /\ n \in Nat /\ us \in Seq(Seq(L)) /\ Len(us) = n + 1 /\ us[n + 1] = t /\ us # << >>
      /\ \A j \in 1..n : us[j] = ts[j]
  <2>1. us # << >>
    BY AppendProperties
  <2>. QED
    BY <2>1
<1>2. /\ w \in Seq(K) /\ Len(w) = EndOf(ts)
      /\ s.line = 1 + CountOf(w, "n")
      /\ s.last = IF ts = << >> THEN << >> ELSE ts[Len(ts)]
      /\ s.spans \in Seq(Int \X Int) /\ Len(s.spans) = n
      /\ PiecesPlaced(ts, s) /\ LettersPlaced(ts, s)
  BY DEF Whole
<1>3. "n" \in K /\ t \in Seq(K) /\ \A i \in 1..n : ts[i] \in Seq(K)
  <2>1. Seq(L) \subseteq Seq(K)
    OBVIOUS
  <2>. QED
    BY <2>1
<1>4. /\ g \in Seq(K) /\ Len(g) \in Nat /\ (g = << >> \/ g = <<"n">>)
      /\ e.text = w \o g \o t /\ e.text \in Seq(K)
      /\ Len(e.text) = Len(w) + Len(g) + Len(t)
      /\ e.text = w \o (g \o t) /\ g \o t \in Seq(K)
      /\ e.line = 1 + CountOf(e.text, "n") /\ e.last = t
      /\ span \in Int \X Int
      /\ e.spans = Append(s.spans, span)
  <2>1. s.text \in Seq(K) /\ s.line = 1 + CountOf(s.text, "n") /\ s.spans \in Seq(Int \X Int)
    BY <1>2
  <2>. HIDE DEF K
  <2>2. Longer(K, s, t)
    BY <1>3, <2>1, NextPiece
  <2>. QED
    BY <2>2 DEF Longer
<1>5. /\ GlueBefore(us, n + 1) <=> g = <<"n">>
      /\ EndOf(ts) \in Nat /\ o = EndOf(ts) + Len(g)
      /\ EndOf(us) = o + Len(t)
  BY <1>2, NextStands
<1>. HIDE DEF us, n, K, e, g, o, w, span
<1>6. Placed(e.text, o, t, span)
  <2>1. Placed(w \o g \o t, Len(w) + Len(g), t, span)
    BY <1>2, <1>3, <1>4, PlacedNext DEF span
  <2>2. Len(w) + Len(g) = o
    BY <1>2, <1>5
  <2>. QED
    BY <1>4, <2>1, <2>2
<1>7. e.spans \in Seq(Int \X Int) /\ Len(e.spans) = n + 1
      /\ e.spans[n + 1] = span /\ \A i \in 1..n : e.spans[i] = s.spans[i]
  <2>. DEFINE c == s.spans
  <2>1. c \in Seq(Int \X Int) /\ Len(c) = n /\ e.spans = Append(c, span)
    BY <1>2, <1>4
  <2>. HIDE DEF c
  <2>2. /\ Append(c, span) \in Seq(Int \X Int) /\ Len(Append(c, span)) = n + 1
        /\ Append(c, span)[n + 1] = span /\ \A i \in 1..n : Append(c, span)[i] = c[i]
    BY <1>4, <2>1, AppendProperties
  <2>. QED
    BY <2>1, <2>2 DEF c
<1>8. ASSUME NEW i \in 1..n
      PROVE  /\ Placed(e.text, Before(us, i), us[i], e.spans[i])
             /\ GlueBefore(us, i) => Before(us, i) >= 1 /\ e.text[Before(us, i)] = "n"
  <2>. DEFINE b == Before(ts, i)
              p == ts[i]
              r == s.spans[i]
  <2>1. Before(us, i) = b /\ us[i] = p /\ e.spans[i] = r /\ (GlueBefore(us, i) <=> GlueBefore(ts, i))
    BY <1>1, <1>7, BeforeStays, GlueStays DEF us, n
  <2>2. Placed(w, b, p, r) /\ (GlueBefore(ts, i) => b >= 1 /\ w[b] = "n") /\ p \in Seq(K)
    BY <1>2, <1>3 DEF PiecesPlaced, n, w
  <2>. HIDE DEF b, p, r
  <2>3. Placed(w \o (g \o t), b, p, r)
    BY <1>2, <1>4, <2>2, PlacedStays
  <2>4. b \in Nat /\ b <= Len(w) /\ Len(w) \in Nat
    <3>1. b \in Nat /\ b + Len(p) <= Len(w) /\ Len(p) \in Nat /\ Len(w) \in Nat
      BY <1>2, <2>2 DEF Placed
    <3>. QED
      BY <3>1
  <2>5. b >= 1 => e.text[b] = w[b]
    <3>1. \A q \in 1..Len(w) : (w \o (g \o t))[q] = w[q]
      BY <1>2, <1>4, ConcatPlaces
    <3>. QED
      BY <1>4, <2>4, <3>1
  <2>. QED
    BY <1>4, <2>1, <2>2, <2>3, <2>5
<1>9. GlueBefore(us, n + 1) => o >= 1 /\ e.text[o] = "n"
  <2>1. SUFFICES ASSUME g = <<"n">> PROVE o >= 1 /\ e.text[o] = "n"
    BY <1>5
  <2>2. Len(g) = 1 /\ g[1] = "n"
    BY <2>1
  <2>3. /\ w \o g \in Seq(K) /\ Len(w) \in Nat /\ Len(w \o g) = Len(w) + Len(g)
        /\ \A p \in 1..Len(g) : (w \o g)[Len(w) + p] = g[p]
    <3>1. w \in Seq(K) /\ g \in Seq(K)
      BY <1>2, <1>4
    <3>. QED
      BY <3>1, ConcatPlaces
  <2>. DEFINE v == w \o g
  <2>4. v[Len(w) + 1] = "n"
    BY <2>2, <2>3
  <2>5. o = Len(w) + 1 /\ o \in 1..Len(v)
    BY <1>2, <1>5, <2>2, <2>3
  <2>6. \A p \in 1..Len(v) : (v \o t)[p] = v[p]
    <3>1. v \in Seq(K)
      BY <2>3
    <3>. HIDE DEF v
    <3>. QED
      BY <1>3, <3>1, ConcatPlaces
  <2>7. e.text = v \o t
    BY <1>4
  <2>. HIDE DEF v
  <2>. QED
    BY <2>3, <2>4, <2>5, <2>6, <2>7
<1>10. PiecesPlaced(us, e)
  <2>1. \A i \in 1..(n + 1) : i \in 1..n \/ i = n + 1
    BY <1>1
  <2>2. /\ Placed(e.text, Before(us, n + 1), us[n + 1], e.spans[n + 1])
        /\ GlueBefore(us, n + 1) => Before(us, n + 1) >= 1 /\ e.text[Before(us, n + 1)] = "n"
    BY <1>1, <1>6, <1>7, <1>9 DEF o
  <2>. QED
    BY <1>1, <1>8, <2>1, <2>2 DEF PiecesPlaced
<1>11. Len(e.text) = EndOf(us)
  <2>1. Len(w) \in Nat /\ Len(t) \in Nat
    BY <1>2, <1>3
  <2>. QED
    BY <1>2, <1>4, <1>5, <2>1
<1>12. e.last = IF us = << >> THEN << >> ELSE us[Len(us)]
  BY <1>1, <1>4
<1>13. LettersPlaced(us, e)
  <2>. SUFFICES ASSUME NEW x \in 1..Len(e.text), e.text[x] # "n"
                PROVE  \E i \in 1..(n + 1) : \E p \in 1..Len(us[i]) : x = Before(us, i) + p
    BY <1>1 DEF LettersPlaced
  <2>1. /\ Len(w) \in Nat /\ Len(t) \in Nat /\ Len(e.text) = o + Len(t) /\ o = Len(w) + Len(g)
        /\ x \in Nat /\ x >= 1 /\ x <= Len(e.text)
    <3>1. Len(w) \in Nat /\ Len(t) \in Nat
      BY <1>2, <1>3
    <3>. QED
      BY <1>2, <1>4, <1>5, <3>1
  <2>2. CASE x <= Len(w)
    <3>1. x \in 1..Len(w)
      BY <2>1, <2>2
    <3>2. \A q \in 1..Len(w) : (w \o (g \o t))[q] = w[q]
      BY <1>2, <1>4, ConcatPlaces
    <3>3. w[x] # "n"
      BY <1>4, <3>1, <3>2
    <3>4. PICK i \in 1..n : \E p \in 1..Len(ts[i]) : x = Before(ts, i) + p
      BY <1>2, <3>1, <3>3 DEF LettersPlaced, n, w
    <3>5. Before(us, i) = Before(ts, i) /\ us[i] = ts[i] /\ i \in 1..(n + 1)
      BY <1>1, BeforeStays DEF us, n
    <3>. QED
      BY <3>4, <3>5
  <2>3. CASE x > Len(w) /\ x <= o
    <3>1. g = <<"n">> /\ Len(g) = 1 /\ x = o
      <4>1. Len(<< >>) = 0 /\ Len(<<"n">>) = 1
        OBVIOUS
      <4>2. g # << >>
        BY <2>1, <2>3, <4>1
      <4>3. g = <<"n">>
        BY <1>4, <4>2
      <4>. QED
        BY <2>1, <2>3, <4>1, <4>3
    <3>. QED
      BY <1>5, <1>9, <3>1
  <2>4. CASE x > o
    <3>. DEFINE p == x - o
    <3>1. p \in 1..Len(t) /\ x = o + p
      BY <1>4, <2>1, <2>4
    <3>2. n + 1 \in 1..(n + 1)
      BY <1>1
    <3>. HIDE DEF p
    <3>3. x = Before(us, n + 1) + p /\ p \in 1..Len(us[n + 1])
      BY <1>1, <3>1 DEF o
    <3>. QED
      BY <3>2, <3>3
  <2>5. x <= Len(w) \/ (x > Len(w) /\ x <= o) \/ x > o
    <3>1. o \in Nat
      BY <1>4, <2>1
    <3>. QED
      BY <2>1, <3>1
  <2>. QED
    BY <2>2, <2>3, <2>4, <2>5, Zenon
<1>14. Whole(L, us, e)
  <2>1. e.text \in Seq(L \cup {"n"})
    BY <1>4 DEF K
  <2>2. Len(e.spans) = Len(us)
    BY <1>1, <1>7
  <2>. QED
    BY <1>4, <1>7, <1>10, <1>11, <1>12, <1>13, <2>1, <2>2, Zenon DEF Whole
<1>. QED
  BY <1>14 DEF us, e

\* assemble_chunks, for any texts: every piece is in the whole, in its place.
LEMMA AssembledIsWhole ==
  ASSUME NEW L, NEW texts \in Seq(Seq(L))
  PROVE  Whole(L, texts, AssembleWithSpans(texts))
<1>. DEFINE T == {ts \in Seq(Seq(L)) : Whole(L, ts, AssembleWithSpans(ts))}
<1>1. << >> \in T
  <2>1. << >> \in Seq(Seq(L))
    BY EmptySeq
  <2>. QED
    BY <2>1, AssembledLaw, NothingIsWhole
<1>2. ASSUME NEW ts \in Seq(Seq(L)), NEW t \in Seq(L), ts \in T PROVE Append(ts, t) \in T
  <2>1. Append(ts, t) \in Seq(Seq(L))
    BY AppendProperties
  <2>2. AssembleWithSpans(Append(ts, t)) = AddPiece(AssembleWithSpans(ts), t)
    BY AssembledLaw
  <2>. DEFINE s == AssembleWithSpans(ts)
  <2>3. Whole(L, ts, s)
    BY <1>2
  <2>. HIDE DEF s
  <2>4. Whole(L, Append(ts, t), AddPiece(s, t))
    BY <2>3, NextIsWhole
  <2>. QED
    BY <2>1, <2>2, <2>4 DEF s
<1>. HIDE DEF T
<1>3. Seq(Seq(L)) \subseteq T
  BY <1>1, <1>2, JoinLaws!AllSequences
<1>. QED
  BY <1>3 DEF T

\* The lines of a piece's letters are the lines of its span.
OnItsLines(w, o, t, span) ==
  /\ \A p \in DOMAIN t : /\ o + p \in 1..Len(w) /\ w[o + p] = t[p]
                         /\ LineAt(w, o + p) = 1 + Newlines(w, (o + p) - 1)
  /\ {LineAt(w, o + p) : p \in DOMAIN t} = span[1]..span[2]

LEMMA PlacedLines ==
  ASSUME NEW L, NEW w \in Seq(L), NEW t \in Seq(L), NEW o, NEW span, Placed(w, o, t, span)
  PROVE  OnItsLines(w, o, t, span)
<1>. DEFINE m == Len(t)
            A == {LineAt(w, o + p) : p \in DOMAIN t}
<1>1. /\ Len(w) \in Nat /\ m \in Nat /\ DOMAIN t = 1..m
      /\ o \in Nat /\ o + m <= Len(w)
      /\ \A p \in 1..m : w[o + p] = t[p]
  BY DEF Placed
<1>2. /\ span[1] = 1 + Newlines(w, o)
      /\ span[2] = IF t = << >> THEN Newlines(w, o) ELSE 1 + Newlines(w, o + m - 1)
  BY DEF Placed
<1>3. ASSUME NEW p \in 1..m
      PROVE  /\ o + p \in 1..Len(w) /\ w[o + p] = t[p]
             /\ LineAt(w, o + p) = 1 + Newlines(w, (o + p) - 1)
  <2>. HIDE DEF m
  <2>1. o + p \in 1..Len(w) /\ o + p \in 1..(Len(w) + 1)
    BY <1>1
  <2>. QED
    BY <1>1, <2>1, LineAtIs
<1>4. A = span[1]..span[2]
  <2>1. CASE t = << >>
    <3>1. m = 0
      BY <2>1
    <3>2. A = {}
      BY <1>1, <3>1
    <3>3. Newlines(w, o) \in Nat
      BY <1>1, NewlinesAreFinite
    <3>. QED
      BY <1>2, <2>1, <3>2, <3>3
  <2>2. CASE t # << >>
    <3>. DEFINE b == o + m - 1
    <3>1. m # 0
      BY <2>2, EmptySeq
    <3>2. b \in Nat /\ o <= b
      BY <1>1, <3>1
    <3>3. A \subseteq span[1]..span[2]
      <4>1. ASSUME NEW p \in 1..m PROVE LineAt(w, o + p) \in span[1]..span[2]
        <5>. DEFINE x == (o + p) - 1
        <5>. HIDE DEF m
        <5>1. x \in Nat /\ o <= x /\ x <= b
          BY <1>1
        <5>. HIDE DEF x, b
        <5>2. Newlines(w, o) <= Newlines(w, x) /\ Newlines(w, x) <= Newlines(w, b)
          BY <1>1, <3>2, <5>1, NewlinesGrow
        <5>3. Newlines(w, o) \in Nat /\ Newlines(w, x) \in Nat /\ Newlines(w, b) \in Nat
          BY <1>1, <3>2, <5>1, NewlinesAreFinite
        <5>4. LineAt(w, o + p) = 1 + Newlines(w, x)
          BY <1>3 DEF x
        <5>5. span[1] = 1 + Newlines(w, o) /\ span[2] = 1 + Newlines(w, b)
          BY <1>2, <2>2 DEF b
        <5>. QED
          BY <5>2, <5>3, <5>4, <5>5
      <4>. QED
        BY <1>1, <4>1
    <3>4. ASSUME NEW l \in span[1]..span[2] PROVE l \in A
      <4>. DEFINE v == l - 1
      <4>. HIDE DEF b
      <4>1. Newlines(w, o) \in Nat /\ Newlines(w, b) \in Nat
        BY <1>1, <3>2, NewlinesAreFinite
      <4>2. span[1] = 1 + Newlines(w, o) /\ span[2] = 1 + Newlines(w, b)
        BY <1>2, <2>2 DEF b
      <4>3. v \in Nat /\ Newlines(w, o) <= v /\ v <= Newlines(w, b) /\ l = 1 + v
        BY <4>1, <4>2
      <4>. HIDE DEF v
      <4>4. PICK x \in o..b : Newlines(w, x) = v
        BY <1>1, <3>2, <4>3, LinesBetween
      <4>. DEFINE p == (x + 1) - o
      <4>5. p \in 1..m /\ (o + p) - 1 = x
        BY <1>1, <3>2, <4>4 DEF b
      <4>. HIDE DEF p, m
      <4>6. LineAt(w, o + p) = l
        BY <1>3, <4>3, <4>4, <4>5
      <4>. QED
        BY <1>1, <4>5, <4>6
    <3>. QED
      BY <3>3, <3>4
  <2>. QED
    BY <2>1, <2>2
<1>. QED
  BY <1>1, <1>3, <1>4 DEF OnItsLines

\* A piece follows the one before it, after the newline put there, if any.
LEMMA BeforeFollows ==
  ASSUME NEW L, NEW ts \in Seq(Seq(L)), NEW i \in 1..Len(ts), i > 1
  PROVE  /\ Before(ts, i) = Before(ts, i - 1) + Len(ts[i - 1]) + GlueLen(ts, i)
         /\ Before(ts, i - 1) \in Nat /\ Len(ts[i - 1]) \in Nat
<1>. DEFINE j == i - 1
            k == i - 2
            f == SubSeq(ts, 1, k)
            x == ts[j]
<1>1. Len(ts) \in Nat /\ i \in Nat /\ j \in 1..Len(ts) /\ k \in Nat /\ i = j + 1 /\ j = k + 1 /\ j - 1 = k
  OBVIOUS
<1>2. f \in Seq(Seq(L)) /\ x \in Seq(L) /\ Len(x) \in Nat
  <2>1. f = [q \in 1..(k - 1 + 1) |-> ts[q + 1 - 1]]
    BY <1>1
  <2>2. \A q \in 1..(k - 1 + 1) : q + 1 - 1 = q /\ q \in 1..Len(ts)
    BY <1>1
  <2>3. k - 1 + 1 \in Nat
    BY <1>1
  <2>4. [q \in 1..(k - 1 + 1) |-> ts[q + 1 - 1]] \in [1..(k - 1 + 1) -> Seq(L)]
    BY <2>2
  <2>5. x \in Seq(L)
    BY <1>1
  <2>. HIDE DEF x
  <2>. QED
    BY <2>1, <2>3, <2>4, <2>5, FunctionIsSequence
<1>3. SubSeq(ts, 1, j) = Append(f, x)
  <2>. HIDE DEF j, k
  <2>. QED
    BY <1>1
<1>. HIDE DEF f, x, k
<1>4. Joined(SubSeq(ts, 1, j)) = Joined(f) \o x /\ Joined(f) \in Seq(L)
  BY <1>2, <1>3, JoinedLaw, JoinedIsText
<1>5. Len(Joined(SubSeq(ts, 1, j))) = Len(Joined(f)) + Len(x) /\ Len(Joined(f)) \in Nat
  BY <1>2, <1>4
<1>. HIDE DEF j
<1>6. Glues(ts, i) = Glues(ts, j) + GlueLen(ts, i) /\ Glues(ts, j) \in Nat
  BY <1>1, GluesLaw
<1>7. Before(ts, j) = Len(Joined(f)) + Glues(ts, j)
  BY <1>1, Zenon DEF Before, f
<1>8. Before(ts, i) = Len(Joined(SubSeq(ts, 1, j))) + Glues(ts, i)
  BY Zenon DEF Before, j
<1>9. GlueLen(ts, i) \in Nat
  BY DEF GlueLen
<1>. DEFINE a == Len(Joined(f))
            d == Len(x)
            h == Glues(ts, j)
            y == GlueLen(ts, i)
<1>10. Before(ts, i) = (a + d) + (h + y) /\ Before(ts, j) = a + h
  BY <1>5, <1>6, <1>7, <1>8, Zenon
<1>11. a \in Nat /\ d \in Nat /\ h \in Nat /\ y \in Nat
  BY <1>2, <1>5, <1>6, <1>9, Zenon
<1>. HIDE DEF a, d, h, y
<1>12. Before(ts, i) = Before(ts, j) + d + y /\ Before(ts, j) \in Nat
  BY <1>10, <1>11
<1>. QED
  BY <1>2, <1>12, Zenon DEF d, y, x, j

\* Two letters with a newline from the one on and before the other are on
\* different lines.
LEMMA NewlineParts ==
  ASSUME NEW w, NEW x \in Nat \ {0}, NEW y \in Nat, x <= y, NEW z \in x..(y - 1), w[z] = "n"
  PROVE  1 + Newlines(w, x - 1) # 1 + Newlines(w, y - 1)
<1>. DEFINE k == x - 1
            m == y - 1
<1>1. k \in Nat /\ m \in Nat /\ k <= m /\ z \in (k + 1)..m
  OBVIOUS
<1>. HIDE DEF k, m
<1>2. Newlines(w, k) < Newlines(w, m)
  BY <1>1, NewlinesGrow
<1>3. Newlines(w, k) \in Nat /\ Newlines(w, m) \in Nat
  BY <1>1, NewlinesAreFinite
<1>4. 1 + Newlines(w, k) # 1 + Newlines(w, m)
  BY <1>2, <1>3
<1>. QED
  BY <1>4 DEF k, m

\* Two pieces that follow each other and say something have a newline from the
\* last letter of the one to the first of the other.
LEMMA NeighboursPart ==
  ASSUME NEW L, NEW ts \in Seq(Seq(L)), NEW whole, PiecesPlaced(ts, whole),
         NEW i \in 1..Len(ts), i > 1, ts[i] # << >>, ts[i - 1] # << >>
  PROVE  LET o == Before(ts, i - 1) + Len(ts[i - 1])
         IN  /\ o <= Before(ts, i) /\ Before(ts, i) \in Nat
             /\ \E z \in o..(Before(ts, i) + 1) : whole.text[z] = "n"
<1>. DEFINE j == i - 1
            m == Len(ts[j])
            a == Before(ts, j)
            b == Before(ts, i)
            w == whole.text
            k == Len(ts[i])
<1>1. Len(ts) \in Nat /\ j \in 1..Len(ts) /\ k \in Nat
  OBVIOUS
<1>2. b = a + m + GlueLen(ts, i) /\ a \in Nat /\ m \in Nat
  BY BeforeFollows
<1>3. /\ \A p \in 1..m : w[a + p] = ts[j][p]
      /\ \A p \in 1..k : w[b + p] = ts[i][p]
      /\ GlueBefore(ts, i) => w[b] = "n"
  BY <1>1 DEF PiecesPlaced, Placed
<1>4. m # 0 /\ k # 0
  BY <1>1, EmptySeq
<1>. HIDE DEF m, a, b, w, k
<1>5. GlueLen(ts, i) \in {0, 1} /\ (GlueLen(ts, i) = 1 <=> GlueBefore(ts, i))
  BY DEF GlueLen
<1>6. a + m <= b /\ b \in Nat /\ a + m \in Nat
  BY <1>2, <1>5
<1>7. \E z \in (a + m)..(b + 1) : w[z] = "n"
  <2>1. CASE GlueBefore(ts, i)
    <3>1. w[b] = "n" /\ b \in (a + m)..(b + 1)
      BY <1>3, <1>6, <2>1
    <3>. QED
      BY <3>1
  <2>2. CASE EndsLine(ts[j])
    <3>1. ts[j][m] = "n"
      BY <2>2 DEF EndsLine, Last, m
    <3>2. m \in 1..m /\ a + m \in (a + m)..(b + 1)
      BY <1>2, <1>4, <1>6
    <3>3. w[a + m] = "n"
      BY <1>3, <3>1, <3>2
    <3>. QED
      BY <3>2, <3>3
  <2>3. CASE StartsLine(ts[i])
    <3>1. ts[i][1] = "n"
      BY <2>3 DEF StartsLine
    <3>2. 1 \in 1..k /\ b + 1 \in (a + m)..(b + 1)
      BY <1>1, <1>4, <1>6 DEF k
    <3>3. w[b + 1] = "n"
      BY <1>3, <3>1, <3>2
    <3>. QED
      BY <3>2, <3>3
  <2>4. GlueBefore(ts, i) \/ EndsLine(ts[j]) \/ StartsLine(ts[i])
    BY DEF GlueBefore
  <2>. QED
    BY <2>1, <2>2, <2>3, <2>4
<1>. QED
  BY <1>6, <1>7 DEF m, a, b, w

\* _assemble_with_spans and _chunk_for_line, for any texts, empty ones too: a
\* line that has letters of one chunk only is found at that chunk, and chunks
\* that follow each other and say something share no line.
THEOREM PiecesKeepTheirLines ==
  ASSUME NEW L, NEW texts \in Seq(Seq(L))
  PROVE  JoinsByLine(texts)
<1>. DEFINE whole == AssembleWithSpans(texts)
            w == whole.text
            c == whole.spans
            K == L \cup {"n"}
            b(i) == Before(texts, i)
            line(i, p) == LineAt(w, b(i) + p)
            lines(i) == {line(i, p) : p \in DOMAIN texts[i]}
            n == Len(texts)
<1>1. /\ w \in Seq(K) /\ c \in Seq(Int \X Int) /\ Len(c) = n /\ PiecesPlaced(texts, whole)
  <2>1. Whole(L, texts, whole)
    BY AssembledIsWhole
  <2>. HIDE DEF whole
  <2>. QED
    BY <2>1 DEF Whole
<1>2. /\ n \in Nat /\ DOMAIN texts = 1..n /\ DOMAIN c = 1..n
      /\ \A i \in 1..n : texts[i] \in Seq(K) /\ texts[i] \in Seq(L) /\ Len(texts[i]) \in Nat
                         /\ DOMAIN texts[i] = 1..Len(texts[i])
  <2>1. Seq(L) \subseteq Seq(K)
    OBVIOUS
  <2>2. DOMAIN c = 1..n
    <3>. HIDE DEF c, n
    <3>. QED
      BY <1>1
  <2>. HIDE DEF c
  <2>. QED
    BY <2>1, <2>2
<1>3. ASSUME NEW i \in 1..n
      PROVE  /\ Placed(w, b(i), texts[i], c[i])
             /\ GlueBefore(texts, i) => b(i) >= 1 /\ w[b(i)] = "n"
  BY <1>1 DEF PiecesPlaced
<1>. HIDE DEF whole, w, c, K
<1>4. ASSUME NEW i \in 1..n
      PROVE  /\ \A p \in DOMAIN texts[i] : /\ b(i) + p \in 1..Len(w) /\ w[b(i) + p] = texts[i][p]
                                           /\ line(i, p) = 1 + Newlines(w, (b(i) + p) - 1)
             /\ lines(i) = c[i][1]..c[i][2]
  <2>. DEFINE o == b(i)
              t == texts[i]
              r == c[i]
  <2>1. Placed(w, o, t, r) /\ t \in Seq(K) /\ w \in Seq(K)
    BY <1>1, <1>2, <1>3
  <2>. HIDE DEF o, t, r
  <2>2. OnItsLines(w, o, t, r)
    BY <2>1, PlacedLines
  <2>. QED
    BY <2>2 DEF OnItsLines, o, t, r
<1>5. ASSUME NEW i \in DOMAIN texts, NEW l \in lines(i),
             \A j \in DOMAIN texts \ {i} : l \notin lines(j)
      PROVE  ChunkForLine(c, l) = i
  <2>. DEFINE H == {j \in DOMAIN c : l # 0 /\ c[j][1] <= l /\ l <= c[j][2]}
  <2>1. i \in 1..n
    BY <1>2
  <2>2. \A j \in 1..n : c[j][1] \in Int /\ c[j][2] \in Int
    BY SMTT(30), <1>1, <1>2
  <2>3. l \in Int /\ l # 0
    <3>1. PICK p \in DOMAIN texts[i] : l = line(i, p)
      OBVIOUS
    <3>. DEFINE k == (b(i) + p) - 1
    <3>2. l = 1 + Newlines(w, k) /\ b(i) + p \in 1..Len(w)
      BY <1>4, <2>1, <3>1
    <3>3. k \in Nat
      BY SMTT(30), <1>1, <3>2
    <3>. HIDE DEF k
    <3>4. Newlines(w, k) \in Nat
      BY <3>3, NewlinesAreFinite
    <3>. QED
      BY <3>2, <3>4
  <2>. HIDE DEF lines
  <2>4. \A j \in 1..n : l \in lines(j) <=> c[j][1] <= l /\ l <= c[j][2]
    BY <1>4, <2>2, <2>3
  <2>5. \A j \in 1..n : l \in lines(j) <=> j = i
    BY <1>2, <1>5, <2>1
  <2>6. H = {i}
    BY <1>2, <2>1, <2>3, <2>4, <2>5
  <2>7. Min({i}) = i
    <3>1. {i} \in SUBSET Nat /\ i \in {i}
      BY <1>2, <2>1
    <3>. QED
      BY <3>1, SmallestOf
  <2>8. ChunkForLine(c, l) = IF H = {} THEN NoChunk ELSE Min(H)
    BY DEF ChunkForLine
  <2>. QED
    BY <2>6, <2>7, <2>8
<1>6. ASSUME NEW i \in DOMAIN texts, i > 1, texts[i] # << >>, texts[i - 1] # << >>,
             NEW p \in DOMAIN texts[i - 1], NEW q \in DOMAIN texts[i],
             texts[i - 1][p] # "n", texts[i][q] # "n"
      PROVE  line(i - 1, p) # line(i, q)
  <2>. DEFINE j == i - 1
              m == Len(texts[j])
              x == b(j) + p
              y == b(i) + q
  <2>1. i \in 1..n /\ j \in 1..n
    BY <1>2, <1>6
  <2>2. b(i) = b(j) + m + GlueLen(texts, i) /\ b(j) \in Nat /\ m \in Nat
    BY <1>6, <2>1, BeforeFollows
  <2>3. p \in 1..m /\ q \in 1..Len(texts[i]) /\ Len(texts[i]) \in Nat
    BY <1>2, <2>1
  <2>4. /\ x \in 1..Len(w) /\ y \in 1..Len(w)
        /\ line(j, p) = 1 + Newlines(w, x - 1) /\ line(i, q) = 1 + Newlines(w, y - 1)
    BY <1>4, <2>1
  <2>5. \E z \in x..(y - 1) : w[z] = "n"
    <3>1. b(j) + m <= b(i) /\ b(i) \in Nat /\ \E z \in (b(j) + m)..(b(i) + 1) : w[z] = "n"
      <4>1. PiecesPlaced(texts, whole)
        BY <1>1
      <4>. HIDE DEF b, m
      <4>. QED
        BY <1>6, <2>1, <4>1, NeighboursPart DEF b, m, w
    <3>2. PICK z \in (b(j) + m)..(b(i) + 1) : w[z] = "n"
      BY <3>1
    <3>3. w[y] # "n"
      BY <1>4, <1>6, <2>1
    <3>. HIDE DEF b, m
    <3>. DEFINE a == b(i)
                d == b(j)
    <3>4. /\ a \in Nat /\ d \in Nat /\ m \in Nat /\ p \in 1..m /\ q \in Nat /\ q >= 1
          /\ z \in (d + m)..(a + 1) /\ x = d + p /\ y = a + q /\ z # y
      <4>1. a \in Nat /\ d \in Nat /\ m \in Nat
        BY <2>2, <3>1
      <4>2. q \in Nat /\ q >= 1 /\ p \in 1..m
        BY <2>3
      <4>3. z # y
        <5>. HIDE DEF y
        <5>. QED
          BY <3>2, <3>3
      <4>. QED
        BY <4>1, <4>2, <4>3
    <3>. HIDE DEF a, d, x, y
    <3>5. z \in Int /\ d + m <= z /\ z <= a + 1 /\ p <= m /\ p \in Nat /\ y \in Int /\ x \in Int
      BY <3>4
    <3>6. x <= z /\ z <= y - 1
      BY <3>4, <3>5
    <3>7. z \in x..(y - 1)
      BY <3>5, <3>6
    <3>. QED
      BY <3>2, <3>7
  <2>. HIDE DEF x, y, b, m
  <2>6. x \in Nat \ {0} /\ y \in Nat /\ x <= y
    <3>1. Len(w) \in Nat
      BY <1>1
    <3>. QED
      BY <2>4, <2>5, <3>1
  <2>7. PICK z \in x..(y - 1) : w[z] = "n"
    BY <2>5
  <2>8. 1 + Newlines(w, x - 1) # 1 + Newlines(w, y - 1)
    BY <2>6, <2>7, NewlineParts
  <2>. QED
    BY <2>4, <2>8
<1>. HIDE DEF b
<1>7. /\ \A i \in DOMAIN texts :
           \A l \in lines(i) :
             (\A j \in DOMAIN texts \ {i} : l \notin lines(j)) => ChunkForLine(c, l) = i
      /\ \A i \in DOMAIN texts : i > 1 /\ texts[i] # << >> /\ texts[i - 1] # << >> =>
           ~\E p \in DOMAIN texts[i - 1], q \in DOMAIN texts[i] :
               texts[i - 1][p] # "n" /\ texts[i][q] # "n" /\ line(i - 1, p) = line(i, q)
  BY <1>5, <1>6
<1>. QED
  BY <1>7 DEF JoinsByLine, b, c, w, whole

LEMMA ShortTexts ==
  ASSUME NEW L
  PROVE  /\ \A a \in L : <<a>> \in Seq(L)
         /\ \A a, b \in L : <<a, b>> \in Seq(L)
         /\ \A a, b, c \in L : <<a, b, c>> \in Seq(L)
         /\ \A a, b, c, d \in L : <<a, b, c, d>> \in Seq(L)
OBVIOUS

\* What the runs join and check are texts of these letters.
CheckedLetters ==
  {"a", "n", "head", "{{", "}}", "|}}", "{|", "|}", "<ref>", "</ref>", "[[", "]]",
   "verb", "/verb", "<!--", "-->"}

LEMMA JoinedInputs == ChunkTexts \subseteq Seq({"a", "n"})
<1>. DEFINE L == {"a", "n"}
<1>1. <<"a", "n", "a">> \in Seq(L)
  <2>1. "a" \in L /\ "n" \in L
    OBVIOUS
  <2>. HIDE DEF L
  <2>. QED
    BY <2>1, ShortTexts
<1>2. SeqOf(L, 2) \subseteq Seq(L)
  <2>1. 0..2 \subseteq Nat
    OBVIOUS
  <2>. HIDE DEF L
  <2>2. \A m \in 0..2 : \A t \in [1..m -> L] : t \in Seq(L)
    BY <2>1, FunctionIsSequence
  <2>. QED
    BY <2>2, Zenon DEF SeqOf
<1>3. ChunkTexts = SeqOf(L, 2) \cup {<<"a", "n", "a">>}
  BY Zenon DEF ChunkTexts
<1>. HIDE DEF L
<1>4. ChunkTexts \subseteq Seq(L)
  BY <1>1, <1>2, <1>3, Zenon
<1>. QED
  BY <1>4 DEF L

LEMMA CheckedInputs == CheckedTexts \subseteq Seq(CheckedLetters)
<1>. DEFINE L == CheckedLetters
<1>1. /\ {"a", "n", "head", "{{", "}}", "|}}", "{|", "|}"} \subseteq L
      /\ {"<ref>", "</ref>", "[[", "]]", "verb", "/verb", "<!--", "-->"} \subseteq L
  BY DEF CheckedLetters
<1>. HIDE DEF L
<1>2. /\ <<"a">> \in Seq(L) /\ <<"head">> \in Seq(L) /\ <<"{{">> \in Seq(L) /\ <<"/verb">> \in Seq(L)
  BY <1>1, ShortTexts
<1>3. /\ <<"head", "n">> \in Seq(L) /\ <<"{{", "|}}">> \in Seq(L) /\ <<"|}}", "{{">> \in Seq(L)
      /\ <<"<ref>", "</ref>">> \in Seq(L) /\ <<"a", "head">> \in Seq(L)
      /\ <<"<!--", "-->">> \in Seq(L) /\ <<"}}", "{{">> \in Seq(L)
  BY <1>1, ShortTexts
<1>4. /\ <<"a", "n", "head">> \in Seq(L) /\ <<"{|", "n", "|}">> \in Seq(L) /\ <<"{{", "{|", "}}">> \in Seq(L)
      /\ <<"verb", "}}", "/verb">> \in Seq(L) /\ <<"{{", "verb", "}}">> \in Seq(L)
  BY <1>1, ShortTexts
<1>5. <<"[[", "a", "]]", "n">> \in Seq(L) /\ <<"}}", "{|", "{{", "|}">> \in Seq(L)
  BY <1>1, ShortTexts
<1>6. CheckedTexts \subseteq Seq(L)
  BY <1>2, <1>3, <1>4, <1>5, Zenon DEF CheckedTexts
<1>. QED
  BY <1>6 DEF L

\* Whatever the runs join is found at its lines, and stays valid.
THEOREM InputJoinsAreFaithful == Spec => []JoiningIsFaithful
<1>1. InputInv => JoiningIsFaithful
  <2>1. ASSUME InputInv, part = "joining" PROVE JoinsByLine(input)
    <3>1. input \in Seq(ChunkTexts)
      BY <2>1 DEF InputInv, Elements
    <3>2. input \in Seq(Seq({"a", "n"}))
      BY <3>1, JoinedInputs
    <3>. QED
      BY <3>2, PiecesKeepTheirLines
  <2>2. ASSUME InputInv, part = "checking" PROVE JoinedStaysValid(input)
    <3>1. input \in Seq(CheckedTexts)
      BY <2>2 DEF InputInv, Elements
    <3>2. input \in Seq(Seq(CheckedLetters))
      BY <3>1, CheckedInputs
    <3>. QED
      BY <3>2, JoinsStayValid
  <2>. QED
    BY <2>1, <2>2 DEF JoiningIsFaithful
<1>. QED
  BY <1>1, InputsAreSequences, PTL

-----------------------------------------------------------------------------
(* The words a review quotes                                               *)

\* A chunk that comes before an empty one ends its line: nothing is put between
\* an empty chunk and its neighbours.
EmptiesFollowLines(ts) ==
  \A i \in DOMAIN ts : i > 1 /\ ts[i] = << >> /\ ts[i - 1] # << >> => EndsLine(ts[i - 1])

LEMMA PiecesInOrder ==
  ASSUME NEW L, NEW ts \in Seq(Seq(L)), NEW j \in 1..Len(ts), NEW i \in 1..Len(ts), j < i
  PROVE  Before(ts, j) + Len(ts[j]) <= Before(ts, i)
<1>. DEFINE n == Len(ts)
            b(k) == Before(ts, k)
            m == Len(ts[j])
            S == {k \in (j + 1)..n : ~(b(j) + m <= b(k))}
<1>1. n \in Nat /\ m \in Nat /\ i \in (j + 1)..n
  <2>1. ts[j] \in Seq(L)
    OBVIOUS
  <2>. QED
    BY <2>1
<1>2. ASSUME NEW k \in 1..n, k > 1
      PROVE  b(k - 1) + Len(ts[k - 1]) <= b(k) /\ b(k) \in Nat /\ b(k - 1) \in Nat /\ b(k - 1) <= b(k)
  <2>1. b(k) = b(k - 1) + Len(ts[k - 1]) + GlueLen(ts, k) /\ b(k - 1) \in Nat /\ Len(ts[k - 1]) \in Nat
    BY <1>2, BeforeFollows
  <2>2. GlueLen(ts, k) \in Nat
    BY DEF GlueLen
  <2>. DEFINE a == b(k - 1)
              d == Len(ts[k - 1])
              g == GlueLen(ts, k)
  <2>3. a \in Nat /\ d \in Nat /\ g \in Nat /\ b(k) = a + d + g
    BY <2>1, <2>2
  <2>. HIDE DEF a, d, g, b
  <2>4. a + d <= b(k) /\ b(k) \in Nat /\ a <= b(k)
    BY <2>3
  <2>. QED
    BY <2>3, <2>4 DEF a, d
<1>3. SUFFICES ASSUME S # {} PROVE FALSE
  BY <1>1
<1>. DEFINE k == Min(S)
<1>4. k \in S /\ \A x \in S : k <= x
  <2>1. S \in SUBSET Nat
    BY <1>1
  <2>. HIDE DEF S
  <2>. QED
    BY <1>3, <2>1, SmallestOf
<1>. HIDE DEF k
<1>5. k \in 1..n /\ k > 1 /\ k \in (j + 1)..n /\ ~(b(j) + m <= b(k)) /\ k \in Nat
  BY <1>1, <1>4
<1>6. k - 1 # j
  BY <1>2, <1>5
<1>7. k - 1 \in (j + 1)..n /\ k - 1 \notin S
  BY <1>1, <1>4, <1>5, <1>6
<1>8. b(j) + m <= b(k - 1)
  BY <1>7
<1>9. b(k - 1) \in Nat /\ b(k) \in Nat /\ b(k - 1) <= b(k) /\ b(j) \in Nat
  <2>1. b(j) \in Nat
    <3>1. j + 1 \in 1..n /\ j + 1 > 1 /\ (j + 1) - 1 = j
      BY <1>1
    <3>. HIDE DEF b, n
    <3>. QED
      BY <1>2, <3>1
  <2>. QED
    BY <1>2, <1>5, <2>1
<1>. DEFINE x == b(j) + m
            y == b(k - 1)
            z == b(k)
<1>10. x \in Int /\ y \in Int /\ z \in Int /\ x <= y /\ y <= z /\ ~(x <= z)
  <2>. HIDE DEF b, m
  <2>. QED
    BY <1>1, <1>5, <1>8, <1>9
<1>. HIDE DEF x, y, z
<1>. QED
  BY <1>10

\* From a letter to a later chunk's letter that is no newline there is one.
LEMMA ChunksApart ==
  ASSUME NEW L, NEW ts \in Seq(Seq(L)), NEW whole, PiecesPlaced(ts, whole), EmptiesFollowLines(ts),
         NEW j \in 1..Len(ts), NEW i \in 1..Len(ts), j < i,
         NEW q \in 1..Len(ts[j]), NEW p \in 1..Len(ts[i]), ts[i][p] # "n"
  PROVE  \E z \in (Before(ts, j) + q)..((Before(ts, i) + p) - 1) : whole.text[z] = "n"
<1>. DEFINE k == j + 1
            m == Len(ts[j])
            e == Before(ts, j) + m
            a == Before(ts, i)
            w == whole.text
<1>1. /\ Len(ts) \in Nat /\ m \in Nat /\ k \in 1..Len(ts) /\ k <= i /\ k > 1 /\ k - 1 = j
      /\ Len(ts[i]) \in Nat /\ Len(ts[k]) \in Nat /\ ts[j] # << >> /\ k \in DOMAIN ts
  <2>1. ts[j] \in Seq(L) /\ ts[i] \in Seq(L) /\ k \in 1..Len(ts)
    OBVIOUS
  <2>2. ts[k] \in Seq(L)
    BY <2>1
  <2>3. ts[j] # << >>
    BY <2>1, EmptySeq
  <2>. QED
    BY SMTT(30), <2>1, <2>2, <2>3
<1>2. e <= a
  BY PiecesInOrder
<1>3. /\ Before(ts, j) \in Nat /\ a \in Nat
      /\ \A r \in 1..m : w[Before(ts, j) + r] = ts[j][r]
      /\ \A r \in 1..Len(ts[i]) : w[a + r] = ts[i][r]
  BY DEF PiecesPlaced, Placed
<1>. HIDE DEF k, a, w
<1>4. \E z \in e..((a + p) - 1) : w[z] = "n"
  <2>1. CASE ts[k] = << >>
    <3>1. EndsLine(ts[j])
      BY <1>1, <2>1 DEF EmptiesFollowLines
    <3>2. ts[j][m] = "n" /\ m \in 1..m
      BY <1>1, <3>1 DEF EndsLine, Last
    <3>3. w[e] = "n"
      BY <1>3, <3>2
    <3>. HIDE DEF m
    <3>4. e \in Nat /\ p \in Nat /\ p >= 1
      <4>. DEFINE d == Before(ts, j)
      <4>1. d \in Nat /\ m \in Nat
        BY <1>1, <1>3
      <4>. HIDE DEF d
      <4>. QED
        BY SMTT(30), <1>1, <4>1 DEF d
    <3>. HIDE DEF e
    <3>5. e \in e..((a + p) - 1)
      BY <1>2, <1>3, <3>4
    <3>. QED
      BY <3>3, <3>5
  <2>2. CASE ts[k] # << >>
    <3>. DEFINE c == Before(ts, k)
    <3>1. c \in Nat /\ \E z \in e..(c + 1) : w[z] = "n"
      BY <1>1, <2>2, NeighboursPart DEF w
    <3>. HIDE DEF c
    <3>2. PICK z \in e..(c + 1) : w[z] = "n"
      BY <3>1
    <3>3. c + 1 <= a + p
      <4>1. CASE k = i
        <5>1. c = a
          BY <4>1 DEF c, a
        <5>. QED
          BY <1>3, <5>1
      <4>2. CASE k # i
        <5>1. c + Len(ts[k]) <= a
          BY <1>1, <4>2, PiecesInOrder DEF c, a
        <5>2. Len(ts[k]) # 0
          BY <1>1, <2>2, EmptySeq
        <5>. DEFINE h == Len(ts[k])
        <5>3. h \in Nat /\ h # 0 /\ c + h <= a
          BY <1>1, <5>1, <5>2
        <5>. HIDE DEF h
        <5>. QED
          BY <1>3, <3>1, <5>3
      <4>. QED
        BY <4>1, <4>2
    <3>4. w[a + p] # "n"
      BY <1>3
    <3>5. z # a + p
      BY <3>2, <3>4
    <3>. HIDE DEF m
    <3>6. e \in Int /\ z \in Int /\ e <= z /\ z <= c + 1 /\ p \in Nat
      BY <1>1, <1>3, <3>1, <3>2
    <3>. HIDE DEF e
    <3>7. z \in e..((a + p) - 1)
      BY <1>3, <3>1, <3>3, <3>5, <3>6
    <3>. QED
      BY <3>2, <3>7
  <2>. QED
    BY <2>1, <2>2
<1>5. PICK z \in e..((a + p) - 1) : w[z] = "n"
  BY <1>4
<1>6. z \in (Before(ts, j) + q)..((a + p) - 1)
  <2>. DEFINE d == Before(ts, j)
  <2>1. d \in Nat /\ q \in Nat /\ q <= m /\ m \in Nat
    BY <1>1, <1>3
  <2>. HIDE DEF d, m
  <2>2. z \in (d + m)..((a + p) - 1) /\ p \in Nat
    BY <1>1, <1>5 DEF d
  <2>3. z \in (d + q)..((a + p) - 1)
    BY <1>3, <2>1, <2>2
  <2>. QED
    BY <2>3 DEF d
<1>. QED
  BY <1>5, <1>6 DEF w, a

\* The line of a letter that is no newline is found at the letter's chunk.
LEMMA LetterIsFound ==
  ASSUME NEW L, NEW ts \in Seq(Seq(L)), NEW whole, Whole(L, ts, whole), EmptiesFollowLines(ts),
         NEW i \in 1..Len(ts), NEW p \in 1..Len(ts[i]), ts[i][p] # "n"
  PROVE  ChunkForLine(whole.spans, LineAt(whole.text, Before(ts, i) + p)) = i
<1>. DEFINE K == L \cup {"n"}
            w == whole.text
            c == whole.spans
            b(k) == Before(ts, k)
            n == Len(ts)
            x == b(i) + p
            l == LineAt(w, x)
            H == {k \in DOMAIN c : l # 0 /\ c[k][1] <= l /\ l <= c[k][2]}
<1>1. w \in Seq(K) /\ c \in Seq(Int \X Int) /\ Len(c) = n /\ PiecesPlaced(ts, whole)
  BY DEF Whole
<1>2. n \in Nat /\ DOMAIN c = 1..n /\ \A k \in 1..n : ts[k] \in Seq(K) /\ DOMAIN ts[k] = 1..Len(ts[k])
  <2>1. Seq(L) \subseteq Seq(K)
    OBVIOUS
  <2>2. DOMAIN c = 1..n
    <3>. HIDE DEF c, n
    <3>. QED
      BY <1>1
  <2>. HIDE DEF c
  <2>. QED
    BY <2>1, <2>2
<1>3. ASSUME NEW k \in 1..n
      PROVE  /\ \A q \in 1..Len(ts[k]) : /\ b(k) + q \in 1..Len(w) /\ w[b(k) + q] = ts[k][q]
                                         /\ LineAt(w, b(k) + q) = 1 + Newlines(w, (b(k) + q) - 1)
             /\ {LineAt(w, b(k) + q) : q \in 1..Len(ts[k])} = c[k][1]..c[k][2]
             /\ c[k][1] \in Int /\ c[k][2] \in Int
  <2>. DEFINE o == b(k)
              t == ts[k]
              r == c[k]
  <2>1. Placed(w, o, t, r) /\ t \in Seq(K) /\ w \in Seq(K) /\ DOMAIN t = 1..Len(t)
    BY <1>1, <1>2 DEF PiecesPlaced
  <2>2. r \in Int \X Int
    BY <1>1, <1>2
  <2>. HIDE DEF o, t, r, w, K, c
  <2>3. OnItsLines(w, o, t, r)
    BY <2>1, PlacedLines
  <2>. QED
    BY <2>1, <2>2, <2>3 DEF OnItsLines, o, t, r, c
<1>. HIDE DEF w, c, K
<1>4. /\ l = 1 + Newlines(w, x - 1) /\ x \in 1..Len(w) /\ Len(w) \in Nat
      /\ w[x] # "n" /\ l \in c[i][1]..c[i][2] /\ l \in Nat /\ l # 0
  <2>1. l = 1 + Newlines(w, x - 1) /\ x \in 1..Len(w) /\ w[x] = ts[i][p]
        /\ l \in c[i][1]..c[i][2]
    BY <1>3
  <2>2. Len(w) \in Nat
    BY <1>1
  <2>. HIDE DEF x
  <2>3. x - 1 \in Nat
    BY <2>1, <2>2
  <2>4. Newlines(w, x - 1) \in Nat
    BY <2>3, NewlinesAreFinite
  <2>. QED
    BY <2>1, <2>2, <2>4
<1>. HIDE DEF l
<1>5. i \in H
  BY <1>2, <1>3, <1>4
<1>6. ASSUME NEW j \in H, j < i PROVE FALSE
  <2>1. j \in 1..n /\ l \in c[j][1]..c[j][2]
    BY <1>2, <1>3, <1>4, <1>6
  <2>2. PICK q \in 1..Len(ts[j]) : LineAt(w, b(j) + q) = l
    <3>1. {LineAt(w, b(j) + q) : q \in 1..Len(ts[j])} = c[j][1]..c[j][2]
      BY <1>3, <2>1
    <3>2. l \in {LineAt(w, b(j) + q) : q \in 1..Len(ts[j])}
      BY <2>1, <3>1, Zenon
    <3>. QED
      BY <3>2
  <2>. DEFINE y == b(j) + q
  <2>3. y \in 1..Len(w) /\ l = 1 + Newlines(w, y - 1)
    BY <1>3, <2>1, <2>2
  <2>4. PICK z \in y..(x - 1) : w[z] = "n"
    <3>1. PiecesPlaced(ts, whole)
      BY <1>1
    <3>. QED
      BY <1>6, <2>1, <3>1, ChunksApart DEF w
  <2>. HIDE DEF x, y
  <2>5. y \in Nat \ {0} /\ x \in Nat /\ y <= x
    BY <1>4, <2>3, <2>4
  <2>6. 1 + Newlines(w, y - 1) # 1 + Newlines(w, x - 1)
    BY <2>4, <2>5, NewlineParts
  <2>. QED
    BY <1>4, <2>3, <2>6
<1>7. H \in SUBSET Nat
  BY <1>2
<1>8. ChunkForLine(c, l) = IF H = {} THEN NoChunk ELSE Min(H)
  BY DEF ChunkForLine
<1>. HIDE DEF H
<1>9. Min(H) = i
  <2>1. Min(H) \in H /\ \A k \in H : Min(H) <= k
    BY <1>5, <1>7, SmallestOf
  <2>. DEFINE k == Min(H)
  <2>2. k \in Nat /\ i \in Nat /\ k <= i /\ ~(k < i)
    BY <1>5, <1>6, <1>7, <2>1
  <2>. HIDE DEF k
  <2>3. k = i
    BY <2>2
  <2>. QED
    BY <2>3 DEF k
<1>10. ChunkForLine(c, l) = i
  BY <1>5, <1>8, <1>9
<1>. QED
  BY <1>10 DEF c, l, w, x

LEMMA OccurrencesAre ==
  ASSUME NEW L, NEW w \in Seq(L), NEW M, NEW s \in Seq(M), s # << >>
  PROVE  Occurrences(w, s) =
           {x \in 1..Len(w) : x + Len(s) - 1 <= Len(w) /\ \A q \in 1..Len(s) : w[(x + q) - 1] = s[q]}
<1>. DEFINE n == Len(s)
<1>1. /\ DOMAIN w = 1..Len(w) /\ Len(w) \in Nat /\ n \in Nat /\ n # 0
      /\ s = [q \in 1..n |-> s[q]] /\ DOMAIN s = 1..n
  BY EmptySeq
<1>2. ASSUME NEW x \in 1..Len(w), x + n - 1 <= Len(w)
      PROVE  SubSeq(w, x, x + n - 1) = s <=> \A q \in 1..n : w[(x + q) - 1] = s[q]
  <2>. DEFINE v == SubSeq(w, x, x + n - 1)
  <2>. HIDE DEF n
  <2>1. v = [q \in 1..((x + n - 1) - x + 1) |-> w[q + x - 1]]
    BY <1>1, <1>2
  <2>2. (x + n - 1) - x + 1 = n /\ \A q \in 1..n : q + x - 1 = (x + q) - 1
    BY <1>1
  <2>3. v = [q \in 1..n |-> w[(x + q) - 1]]
    BY <2>1, <2>2
  <2>. HIDE DEF v
  <2>4. v = s <=> \A q \in 1..n : w[(x + q) - 1] = s[q]
    BY <1>1, <2>3
  <2>. QED
    BY <2>4 DEF v
<1>3. Occurrences(w, s) = {x \in 1..Len(w) : x + n - 1 <= Len(w) /\ SubSeq(w, x, x + n - 1) = s}
  BY <1>1 DEF Occurrences
<1>. HIDE DEF n
<1>4. Occurrences(w, s) =
        {x \in 1..Len(w) : x + n - 1 <= Len(w) /\ \A q \in 1..n : w[(x + q) - 1] = s[q]}
  BY <1>2, <1>3
<1>. QED
  BY <1>4 DEF n

LEMMA LargestOf ==
  ASSUME NEW n \in Nat, NEW S \in SUBSET (1..n), S # {}
  PROVE  Max(S) \in S /\ \A k \in S : k <= Max(S)
<1>. DEFINE T == {n - k : k \in S}
<1>1. T \in SUBSET Nat /\ T # {}
  <2>1. \A k \in S : n - k \in Nat
    OBVIOUS
  <2>2. T \in SUBSET Nat
    BY <2>1
  <2>. QED
    BY <2>2
<1>. DEFINE m == Min(T)
<1>2. m \in T /\ \A k \in T : m <= k
  <2>. HIDE DEF T
  <2>. QED
    BY <1>1, SmallestOf
<1>. HIDE DEF m
<1>3. PICK x \in S : m = n - x
  BY <1>2
<1>4. \A k \in S : k <= x
  <2>. SUFFICES ASSUME NEW k \in S PROVE k <= x
    OBVIOUS
  <2>1. m <= n - k
    BY <1>2
  <2>. QED
    BY <1>3, <2>1
<1>. QED
  BY <1>4 DEF Max

\* What str.strip leaves begins with a letter that is no newline.
LEMMA StrippedBegins ==
  ASSUME NEW M, NEW t \in Seq(M)
  PROVE  Stripped(t) \in Seq(M) /\ (Stripped(t) # << >> => Stripped(t)[1] # "n")
<1>. DEFINE kept == {p \in DOMAIN t : t[p] # "n"}
            n == Len(t)
            a == Min(kept)
            e == Max(kept)
<1>1. n \in Nat /\ DOMAIN t = 1..n /\ kept \in SUBSET (1..n) /\ kept \in SUBSET Nat
  OBVIOUS
<1>2. CASE kept = {}
  <2>1. Stripped(t) = << >>
    BY <1>2 DEF Stripped
  <2>. QED
    BY <2>1, EmptySeq
<1>3. CASE kept # {}
  <2>1. a \in kept /\ e \in kept /\ a <= e
    <3>. HIDE DEF kept, n
    <3>. QED
      BY <1>1, <1>3, SmallestOf, LargestOf
  <2>2. t[a] # "n" /\ a \in 1..n /\ e \in 1..n
    BY <1>1, <2>1
  <2>3. Stripped(t) = SubSeq(t, a, e)
    BY <1>3 DEF Stripped
  <2>. HIDE DEF a, e, kept
  <2>4. SubSeq(t, a, e) \in Seq(M) /\ SubSeq(t, a, e)[1] = t[a]
    <3>. HIDE DEF n
    <3>1. SubSeq(t, a, e) = [q \in 1..(e - a + 1) |-> t[q + a - 1]]
      BY <1>1, <2>1, <2>2
    <3>2. e - a + 1 \in Nat /\ 1 \in 1..(e - a + 1) /\ 1 + a - 1 = a
      BY <1>1, <2>1, <2>2
    <3>3. [q \in 1..(e - a + 1) |-> t[q + a - 1]] \in [1..(e - a + 1) -> M]
      <4>1. \A q \in 1..(e - a + 1) : q + a - 1 \in 1..n
        BY <1>1, <2>1, <2>2
      <4>2. \A q \in 1..n : t[q] \in M
        BY DEF n
      <4>. QED
        BY <4>1, <4>2
    <3>4. SubSeq(t, a, e) \in Seq(M)
      BY <3>1, <3>2, <3>3, FunctionIsSequence
    <3>5. SubSeq(t, a, e)[1] = t[1 + a - 1]
      BY <3>1, <3>2
    <3>. QED
      BY <3>2, <3>4, <3>5
  <2>. QED
    BY <2>2, <2>3, <2>4
<1>. QED
  BY <1>2, <1>3

\* What a review may report: no line, and words that begin with a letter.
Reported(M) ==
  {f \in [kind : ReviewKinds, severity : {"error", "warning"}, line : {0}, snippet : Seq(M)] :
     f.snippet # << >> => f.snippet[1] # "n"}

EntryLaws == INSTANCE LoopLaws WITH Op <- TakeEntry, Start <- << >>

LEMMA ParsedFindings ==
  ASSUME NEW M, NEW R, \A e \in R : e.snippet \in Seq(M), NEW entries \in Seq(R)
  PROVE  ParseReviewFindings(entries) \in Seq(Reported(M))
<1>1. ParseReviewFindings(<< >>) = << >>
  <2>1. Loop(TakeEntry, << >>, << >>) = << >>
    BY EntryLaws!LoopLaw DEF Loop, EntryLaws!Loop
  <2>. QED
    BY <2>1 DEF ParseReviewFindings
<1>2. \A E : \A s \in Seq(E) : \A x \in E :
        ParseReviewFindings(Append(s, x)) = TakeEntry(ParseReviewFindings(s), x)
  <2>1. \A E : \A s \in Seq(E) : \A x \in E :
          Loop(TakeEntry, << >>, Append(s, x)) = TakeEntry(Loop(TakeEntry, << >>, s), x)
    BY EntryLaws!LoopLaw DEF Loop, EntryLaws!Loop
  <2>. QED
    BY <2>1 DEF ParseReviewFindings
<1>. DEFINE T == {s \in Seq(R) : ParseReviewFindings(s) \in Seq(Reported(M))}
<1>3. << >> \in T
  BY <1>1, EmptySeq
<1>4. ASSUME NEW s \in Seq(R), NEW x \in R, s \in T PROVE Append(s, x) \in T
  <2>. DEFINE issues == ParseReviewFindings(s)
              f == [kind |-> IF x.kind \in ReviewKinds THEN x.kind ELSE "semantic_fidelity",
                    severity |-> IF x.severity \in {"error", "warning"} THEN x.severity ELSE "error",
                    line |-> 0, snippet |-> Stripped(x.snippet)]
  <2>1. f \in Reported(M)
    <3>. DEFINE y == Stripped(x.snippet)
    <3>1. y \in Seq(M) /\ (y # << >> => y[1] # "n")
      BY StrippedBegins
    <3>. HIDE DEF y
    <3>2. "semantic_fidelity" \in ReviewKinds
      BY DEF ReviewKinds
    <3>. QED
      BY <3>1, <3>2 DEF Reported, y
  <2>2. TakeEntry(issues, x) = IF x.object /\ x.message # "" THEN Append(issues, f) ELSE issues
    BY DEF TakeEntry
  <2>3. issues \in Seq(Reported(M))
    BY <1>4
  <2>. HIDE DEF issues, f
  <2>4. TakeEntry(issues, x) \in Seq(Reported(M))
    BY <2>1, <2>2, <2>3, AppendProperties
  <2>5. Append(s, x) \in Seq(R)
    BY AppendProperties
  <2>. QED
    BY <1>2, <2>4, <2>5 DEF issues
<1>. HIDE DEF T
<1>5. Seq(R) \subseteq T
  BY <1>3, <1>4, JoinLaws!AllSequences
<1>. QED
  BY <1>5 DEF T

\* parse_review_findings and _localize_review_issues, for any reply and any
\* chunks that are not run into each other: whatever the review reports is
\* handed to a chunk, and what it quotes to the one chunk it is quoted from.
THEOREM EveryQuoteArrives ==
  ASSUME NEW L, NEW texts \in Seq(Seq(L)), texts # << >>, EmptiesFollowLines(texts),
         NEW M, NEW R, \A e \in R : e.snippet \in Seq(M), NEW entries \in Seq(R)
  PROVE  ReviewArrives(entries, texts)
<1>. DEFINE whole == AssembleWithSpans(texts)
            w == whole.text
            c == whole.spans
            n == Len(texts)
            K == L \cup {"n"}
            b(i) == Before(texts, i)
            findings == ParseReviewFindings(entries)
<1>1. Whole(L, texts, whole)
  BY AssembledIsWhole
<1>2. findings \in Seq(Reported(M))
  BY ParsedFindings
<1>. HIDE DEF findings, whole
<1>3. w \in Seq(K) /\ Len(w) \in Nat /\ PiecesPlaced(texts, whole) /\ LettersPlaced(texts, whole)
  <2>1. w \in Seq(K)
    BY <1>1 DEF Whole
  <2>. HIDE DEF w, K
  <2>2. Len(w) \in Nat
    BY <2>1
  <2>. QED
    BY <1>1, <2>1, <2>2 DEF Whole
<1>4. /\ n \in Nat /\ n # 0 /\ DOMAIN texts = 1..n
      /\ \A i \in 1..n : texts[i] \in Seq(L) /\ Len(texts[i]) \in Nat /\ DOMAIN texts[i] = 1..Len(texts[i])
  <2>1. n # 0
    BY EmptySeq
  <2>. QED
    BY <2>1
<1>5. ASSUME NEW i \in 1..n
      PROVE  /\ b(i) \in Nat /\ b(i) + Len(texts[i]) <= Len(w)
             /\ \A p \in 1..Len(texts[i]) : w[b(i) + p] = texts[i][p]
  BY <1>3 DEF PiecesPlaced, Placed
<1>6. ASSUME NEW i \in 1..n, NEW p \in 1..Len(texts[i]), w[b(i) + p] # "n"
      PROVE  ChunkForLine(c, LineAt(w, b(i) + p)) = i
  <2>1. texts[i][p] # "n"
    BY <1>5, <1>6
  <2>2. Whole(L, texts, whole) /\ i \in 1..Len(texts) /\ p \in 1..Len(texts[i])
    BY <1>1, <1>6
  <2>3. ChunkForLine(whole.spans, LineAt(whole.text, Before(texts, i) + p)) = i
    <3>. HIDE DEF K, w, c, b, n
    <3>. QED
      BY <2>1, <2>2, LetterIsFound, SMTT(30)
  <2>. QED
    BY <2>3
<1>7. \A z \in 1..Len(w) : w[z] # "n" => \E i \in 1..n : \E p \in 1..Len(texts[i]) : z = b(i) + p
  BY <1>3 DEF LettersPlaced
<1>. HIDE DEF w, K
<1>8. ASSUME NEW f \in Reported(M), f.snippet # << >>
      PROVE  /\ f.snippet \in Seq(M) /\ Len(f.snippet) \in Nat /\ Len(f.snippet) >= 1
             /\ f.snippet[1] # "n" /\ f.line = 0
  <2>. DEFINE s == f.snippet
  <2>1. s \in Seq(M) /\ s # << >> /\ s[1] # "n" /\ f.line = 0
    BY <1>8 DEF Reported
  <2>. HIDE DEF s
  <2>2. Len(s) \in Nat /\ Len(s) # 0
    BY <2>1, EmptySeq
  <2>. QED
    BY <2>1, <2>2 DEF s
<1>. DEFINE found(f) == Occurrences(w, f.snippet)
            x(f) == Min(found(f))
            goal(f) == ChunkForLine(c, ReviewLine(f, w))
<1>9. ASSUME NEW f \in Reported(M), f.snippet # << >>
       PROVE  found(f) = {z \in 1..Len(w) : /\ z + Len(f.snippet) - 1 <= Len(w)
                                            /\ \A q \in 1..Len(f.snippet) : w[(z + q) - 1] = f.snippet[q]}
  <2>. DEFINE s == f.snippet
  <2>1. w \in Seq(K) /\ s \in Seq(M) /\ s # << >>
    BY <1>3, <1>8, <1>9
  <2>. HIDE DEF s
  <2>2. Occurrences(w, s) = {z \in 1..Len(w) : z + Len(s) - 1 <= Len(w) /\ \A q \in 1..Len(s) : w[(z + q) - 1] = s[q]}
    BY <2>1, OccurrencesAre
  <2>. QED
    BY <2>2 DEF s
<1>10. ASSUME NEW f \in Reported(M), f.snippet # << >>, found(f) # {}
      PROVE  /\ x(f) \in found(f) /\ x(f) \in 1..Len(w) /\ w[x(f)] # "n"
             /\ x(f) + Len(f.snippet) - 1 <= Len(w)
             /\ \A q \in 1..Len(f.snippet) : w[(x(f) + q) - 1] = f.snippet[q]
             /\ goal(f) = ChunkForLine(c, LineAt(w, x(f)))
             /\ \E i \in 1..n : \E p \in 1..Len(texts[i]) : x(f) = b(i) + p
  <2>. DEFINE s == f.snippet
              y == x(f)
  <2>1. s \in Seq(M) /\ s # << >> /\ Len(s) \in Nat /\ Len(s) >= 1 /\ s[1] # "n" /\ f.line = 0
    BY <1>8, <1>10
  <2>. HIDE DEF s
  <2>2. found(f) = {z \in 1..Len(w) : z + Len(s) - 1 <= Len(w) /\ \A q \in 1..Len(s) : w[(z + q) - 1] = s[q]}
    BY <1>10, <1>9 DEF s
  <2>3. found(f) \in SUBSET Nat
    BY <1>3, <2>2
  <2>4. y \in found(f)
    <3>. HIDE DEF found
    <3>. QED
      BY <1>10, <2>3, SmallestOf
  <2>5. goal(f) = ChunkForLine(c, LineAt(w, y))
    <3>1. ~(f.line # 0 \/ f.snippet = << >> \/ found(f) = {})
      BY <1>10, <2>1
    <3>. QED
      BY <3>1, Zenon DEF ReviewLine, LineAt
  <2>. HIDE DEF y, found
  <2>6. y \in 1..Len(w) /\ y + Len(s) - 1 <= Len(w) /\ \A q \in 1..Len(s) : w[(y + q) - 1] = s[q]
    BY <2>2, <2>4
  <2>7. w[y] # "n"
    <3>1. 1 \in 1..Len(s) /\ (y + 1) - 1 = y
      BY <1>3, <2>1, <2>6
    <3>2. w[(y + 1) - 1] = s[1]
      BY <2>6, <3>1
    <3>. QED
      BY <2>1, <3>1, <3>2
  <2>8. \E i \in 1..n : \E p \in 1..Len(texts[i]) : y = b(i) + p
    BY <1>7, <2>6, <2>7
  <2>. QED
    BY <2>4, <2>5, <2>6, <2>7, <2>8 DEF y, s
<1>. HIDE DEF c
<1>11. ASSUME NEW f \in Reported(M), f.snippet # << >>, found(f) # {}
      PROVE  /\ goal(f) \in 1..n /\ Begins(found(f), texts) = {goal(f)}
             /\ \E p \in 1..Len(texts[goal(f)]) : x(f) = b(goal(f)) + p
  <2>. DEFINE y == x(f)
  <2>1. y \in 1..Len(w) /\ w[y] # "n" /\ goal(f) = ChunkForLine(c, LineAt(w, y))
    BY <1>10, <1>11
  <2>2. PICK i \in 1..n : \E p \in 1..Len(texts[i]) : y = b(i) + p
    BY <1>10, <1>11
  <2>3. Begins(found(f), texts) = {k \in 1..n : y - b(k) \in 1..Len(texts[k])}
    <3>1. Begins(found(f), texts) = {k \in DOMAIN texts : found(f) # {} /\ y - b(k) \in DOMAIN texts[k]}
      BY DEF Begins
    <3>. HIDE DEF y, found, b
    <3>. QED
      BY <1>4, <1>11, <3>1
  <2>. HIDE DEF y, goal
  <2>4. ASSUME NEW k \in 1..n, NEW p \in 1..Len(texts[k]), y = b(k) + p
        PROVE  goal(f) = k
    BY <1>6, <2>1, <2>4
  <2>5. goal(f) = i
    BY <2>2, <2>4
  <2>6. \A k \in 1..n : y - b(k) \in 1..Len(texts[k]) <=> \E p \in 1..Len(texts[k]) : y = b(k) + p
    <3>. SUFFICES ASSUME NEW k \in 1..n
                  PROVE  y - b(k) \in 1..Len(texts[k]) <=> \E p \in 1..Len(texts[k]) : y = b(k) + p
      OBVIOUS
    <3>. DEFINE o == b(k)
    <3>1. o \in Nat /\ y \in Nat /\ Len(texts[k]) \in Nat
      BY <1>3, <1>4, <1>5, <2>1
    <3>. HIDE DEF o
    <3>2. y - o \in 1..Len(texts[k]) => y = o + (y - o)
      BY <3>1
    <3>3. \A p \in 1..Len(texts[k]) : y = o + p => y - o = p
      BY <3>1
    <3>4. y - o \in 1..Len(texts[k]) <=> \E p \in 1..Len(texts[k]) : y = o + p
      BY <3>2, <3>3
    <3>. QED
      BY <3>4 DEF o
  <2>. HIDE DEF b
  <2>7. \A k \in 1..n : y - b(k) \in 1..Len(texts[k]) <=> k = i
    BY <2>2, <2>4, <2>5, <2>6
  <2>8. Begins(found(f), texts) = {i}
    <3>. HIDE DEF found
    <3>. QED
      BY <2>3, <2>7
  <2>. QED
    BY <2>2, <2>5, <2>8 DEF y
<1>. DEFINE quoting(f) == {i \in DOMAIN texts : Occurrences(texts[i], f.snippet) # {}}
<1>12. ASSUME NEW f \in Reported(M), f.snippet # << >>, NEW i \in 1..n
       PROVE  Occurrences(texts[i], f.snippet) =
                {p \in 1..Len(texts[i]) : /\ p + Len(f.snippet) - 1 <= Len(texts[i])
                                          /\ \A q \in 1..Len(f.snippet) : texts[i][(p + q) - 1] = f.snippet[q]}
  <2>. DEFINE t == texts[i]
              s == f.snippet
  <2>1. t \in Seq(L) /\ s \in Seq(M) /\ s # << >>
    BY <1>4, <1>8, <1>12
  <2>. HIDE DEF t, s
  <2>2. Occurrences(t, s) = {p \in 1..Len(t) : p + Len(s) - 1 <= Len(t) /\ \A q \in 1..Len(s) : t[(p + q) - 1] = s[q]}
    BY <2>1, OccurrencesAre
  <2>. QED
    BY <2>2 DEF t, s
<1>13. ASSUME NEW f \in Reported(M), f.snippet # << >>, NEW i \in quoting(f) PROVE found(f) # {}
  <2>. DEFINE s == f.snippet
              m == Len(texts[i])
              l == Len(s)
              a == b(i)
  <2>1. i \in 1..n /\ s \in Seq(M) /\ s # << >> /\ l \in Nat /\ l >= 1 /\ m \in Nat
    BY <1>4, <1>8, <1>13
  <2>2. PICK p \in 1..m : p + l - 1 <= m /\ \A q \in 1..l : texts[i][(p + q) - 1] = s[q]
    BY <1>12, <1>13, <2>1
  <2>3. a \in Nat /\ a + m <= Len(w) /\ \A r \in 1..m : w[a + r] = texts[i][r]
    BY <1>5, <2>1
  <2>4. found(f) = {z \in 1..Len(w) : z + l - 1 <= Len(w) /\ \A q \in 1..l : w[(z + q) - 1] = s[q]}
    BY <1>13, <1>9
  <2>. HIDE DEF found, s, l, m, a
  <2>5. a + p \in 1..Len(w) /\ a + p + l - 1 <= Len(w)
    BY <1>3, <2>1, <2>2, <2>3
  <2>6. ASSUME NEW q \in 1..l PROVE w[(a + p + q) - 1] = s[q]
    <3>1. (p + q) - 1 \in 1..m /\ (a + p + q) - 1 = a + ((p + q) - 1)
      BY <2>1, <2>2, <2>3
    <3>2. w[a + ((p + q) - 1)] = texts[i][(p + q) - 1]
      BY <2>3, <3>1
    <3>. QED
      BY <2>2, <3>1, <3>2
  <2>7. a + p \in found(f)
    BY <2>4, <2>5, <2>6
  <2>. QED
    BY <2>7
<1>14. ASSUME NEW f \in Reported(M), f.snippet # << >>, "n" \notin ToSet(f.snippet), found(f) # {}
       PROVE  goal(f) \in quoting(f)
  <2>. DEFINE s == f.snippet
              l == Len(s)
              j == goal(f)
              m == Len(texts[j])
              a == b(j)
              y == x(f)
              e == a + m + 1
  <2>1. /\ j \in 1..n /\ s \in Seq(M) /\ s # << >> /\ l \in Nat /\ l >= 1 /\ m \in Nat
        /\ DOMAIN texts[j] = 1..m
    BY <1>4, <1>8, <1>11, <1>14
  <2>2. PICK q \in 1..m : y = a + q
    BY <1>11, <1>14
  <2>3. y \in 1..Len(w) /\ y + l - 1 <= Len(w) /\ \A r \in 1..l : w[(y + r) - 1] = s[r]
    BY <1>10, <1>14
  <2>4. \A r \in 1..l : s[r] # "n"
    BY <1>14, <2>1 DEF ToSet
  <2>5. a \in Nat /\ \A r \in 1..m : w[a + r] = texts[j][r]
    BY <1>5, <2>1
  <2>. HIDE DEF s, l, j, m, a, y
  <2>6. ASSUME NEW z \in y..(y + l - 1) PROVE w[z] # "n"
    <3>. DEFINE r == z - y + 1
    <3>1. r \in 1..l /\ (y + r) - 1 = z
      BY <1>3, <2>1, <2>3
    <3>. HIDE DEF r
    <3>. QED
      BY <2>3, <2>4, <3>1
  <2>7. y + l - 1 <= a + m
    <3>. SUFFICES ASSUME ~(y + l - 1 <= a + m) PROVE FALSE
      OBVIOUS
    <3>1. e \in y..(y + l - 1) /\ e \in 1..Len(w) /\ e \in Nat
      BY <1>3, <2>1, <2>2, <2>3, <2>5
    <3>2. w[e] # "n"
      BY <2>6, <3>1
    <3>3. PICK k \in 1..n : \E p \in 1..Len(texts[k]) : e = b(k) + p
      BY <1>7, <3>1, <3>2
    <3>. DEFINE d == b(k)
                h == Len(texts[k])
    <3>4. PICK p \in 1..h : e = d + p
      BY <3>3
    <3>5. d \in Nat /\ h \in Nat /\ w[e] = texts[k][p]
      BY <1>4, <1>5, <3>3, <3>4
    <3>6. CASE k < j
      <4>1. d + h <= a
        BY <2>1, <3>6, PiecesInOrder DEF a
      <4>. HIDE DEF d, h
      <4>. QED
        BY <2>1, <2>5, <3>4, <3>5, <4>1
    <3>7. CASE k = j
      <4>1. d = a /\ h = m
        BY <3>7 DEF a, m
      <4>. HIDE DEF d, h
      <4>. QED
        BY <2>1, <2>5, <3>4, <3>5, <4>1
    <3>8. CASE j < k
      <4>1. texts[k][p] # "n"
        BY <3>2, <3>5
      <4>2. \E z \in (a + q)..((d + p) - 1) : w[z] = "n"
        BY <1>3, <2>1, <3>8, <4>1, ChunksApart DEF a, m, w
      <4>. HIDE DEF d, h, e
      <4>3. PICK z \in y..(e - 1) : w[z] = "n"
        BY <2>2, <3>4, <4>2
      <4>4. z \in y..(y + l - 1)
        <5>1. y \in Nat /\ l \in Nat /\ e <= y + l - 1 /\ e \in Nat
          BY <1>3, <2>1, <2>3, <3>1
        <5>. QED
          BY <4>3, <5>1
      <4>. QED
        BY <2>6, <4>3, <4>4
    <3>9. k < j \/ k = j \/ j < k
      BY <1>4, <2>1
    <3>. QED
      BY <3>6, <3>7, <3>8, <3>9
  <2>8. q + l - 1 <= m
    BY <2>1, <2>2, <2>5, <2>7
  <2>9. ASSUME NEW r \in 1..l PROVE texts[j][(q + r) - 1] = s[r]
    <3>1. (q + r) - 1 \in 1..m /\ (y + r) - 1 = a + ((q + r) - 1)
      BY <2>1, <2>2, <2>5, <2>8
    <3>. QED
      BY <2>3, <2>5, <3>1
  <2>10. q \in Occurrences(texts[j], s)
    <3>1. Occurrences(texts[j], s) =
            {p \in 1..m : p + l - 1 <= m /\ \A r \in 1..l : texts[j][(p + r) - 1] = s[r]}
      BY <1>12, <1>14, <2>1 DEF s, l, m
    <3>. QED
      BY <2>8, <2>9, <3>1
  <2>. QED
    BY <1>4, <2>1, <2>10 DEF s, j
<1>. HIDE DEF found, quoting, goal, b
<1>15. ASSUME NEW k \in DOMAIN findings
       PROVE  LET f == findings[k]
                  seen == {i \in DOMAIN texts : f \in ReviewErrorsFor(i, findings, w, c)}
              IN  /\ seen # {}
                  /\ f.snippet # << >> /\ found(f) # {} => seen = Begins(found(f), texts)
                  /\ f.snippet # << >> /\ "n" \notin ToSet(f.snippet) /\ Cardinality(quoting(f)) = 1
                       => seen = quoting(f)
  <2>. DEFINE f == findings[k]
              seen == {i \in DOMAIN texts : f \in ReviewErrorsFor(i, findings, w, c)}
  <2>1. f \in Reported(M) /\ f \in ToSet(findings)
    BY <1>2, <1>15 DEF ToSet
  <2>. HIDE DEF f
  <2>2. seen = {i \in 1..n : goal(f) \in {i, NoChunk}}
    BY <1>4, <2>1 DEF ReviewErrorsFor, goal
  <2>3. \A i \in 1..n : i # NoChunk
    BY <1>4 DEF NoChunk
  <2>. HIDE DEF seen
  <2>4. goal(f) \in 1..n => seen = {goal(f)}
    BY <2>2, <2>3
  <2>5. f.snippet = << >> \/ found(f) = {} => seen # {}
    <3>. SUFFICES ASSUME f.snippet = << >> \/ found(f) = {} PROVE seen # {}
      OBVIOUS
    <3>1. f.line = 0
      BY <2>1 DEF Reported
    <3>2. goal(f) = ChunkForLine(c, 0)
      BY <3>1 DEF goal, found, ReviewLine
    <3>3. goal(f) = NoChunk
      BY <3>2 DEF ChunkForLine
    <3>4. 1 \in 1..n
      BY <1>4
    <3>. QED
      BY <2>2, <3>3, <3>4
  <2>6. f.snippet # << >> /\ found(f) # {} => goal(f) \in 1..n /\ Begins(found(f), texts) = {goal(f)}
    BY <1>11, <2>1
  <2>7. f.snippet # << >> /\ "n" \notin ToSet(f.snippet) /\ Cardinality(quoting(f)) = 1
          => seen = quoting(f)
    <3>. SUFFICES ASSUME f.snippet # << >>, "n" \notin ToSet(f.snippet), Cardinality(quoting(f)) = 1
                  PROVE  seen = quoting(f)
      OBVIOUS
    <3>1. PICK i : quoting(f) = {i}
      <4>1. IsFiniteSet(quoting(f))
        <5>1. quoting(f) \in SUBSET (1..n)
          BY <1>4 DEF quoting
        <5>2. IsFiniteSet(1..n)
          <6>1. 1 \in Int /\ n \in Int
            BY <1>4
          <6>. QED
            BY <6>1, FS_Interval
        <5>. QED
          BY <5>1, <5>2, FS_Subset
      <4>. QED
        BY <4>1, FS_Singleton
    <3>2. found(f) # {}
      BY <1>13, <2>1, <3>1
    <3>3. goal(f) \in quoting(f)
      BY <1>14, <2>1, <3>2
    <3>. QED
      BY <2>4, <2>6, <3>1, <3>2, <3>3
  <2>. QED
    BY <2>4, <2>5, <2>6, <2>7 DEF f, seen
<1>. QED
  BY <1>15 DEF ReviewArrives, findings, whole, w, c, found, quoting

LEMMA ThreeTextsAre ==
  /\ ThreeTexts \in Seq(Seq({"a", "b", "c", "n"})) /\ ThreeTexts # << >> /\ Len(ThreeTexts) = 3
  /\ EmptiesFollowLines(ThreeTexts)
<1>. DEFINE L == {"a", "b", "c", "n"}
            t == <<"a", "n", "b", "n">>
            u == <<"c">>
<1>1. t \in Seq(L) /\ u \in Seq(L) /\ << >> \in Seq(L)
  <2>1. "a" \in L /\ "b" \in L /\ "c" \in L /\ "n" \in L
    OBVIOUS
  <2>. HIDE DEF L
  <2>. QED
    BY <2>1, ShortTexts, EmptySeq
<1>2. EndsLine(t) /\ u # << >>
  <2>1. t # << >> /\ Len(t) = 4 /\ t[4] = "n"
    OBVIOUS
  <2>. QED
    BY <2>1 DEF EndsLine, Last
<1>3. ThreeTexts = <<t, << >>, u>>
  BY DEF ThreeTexts
<1>. HIDE DEF t, u, L
<1>4. <<t, << >>, u>> \in Seq(Seq(L))
  BY <1>1, ShortTexts
<1>5. EmptiesFollowLines(ThreeTexts)
  <2>1. ThreeTexts[1] = t /\ ThreeTexts[3] = u /\ DOMAIN ThreeTexts = 1..3
    BY <1>3
  <2>. SUFFICES ASSUME NEW i \in 1..3, i > 1, ThreeTexts[i] = << >> PROVE EndsLine(ThreeTexts[i - 1])
    BY <2>1 DEF EmptiesFollowLines
  <2>2. i = 2 /\ i - 1 = 1
    BY <1>2, <2>1
  <2>. QED
    BY <1>2, <2>1, <2>2
<1>. QED
  BY <1>3, <1>4, <1>5 DEF L

LEMMA QuotedInputs == \A e \in ReviewElements : e.snippet \in Seq({"b", "c", "n", "z"})
<1>. DEFINE M == {"b", "c", "n", "z"}
<1>1. "b" \in M /\ "c" \in M /\ "n" \in M /\ "z" \in M
  OBVIOUS
<1>. HIDE DEF M
<1>2. /\ << >> \in Seq(M) /\ <<"b">> \in Seq(M) /\ <<"c">> \in Seq(M) /\ <<"z">> \in Seq(M) /\ <<"n">> \in Seq(M)
      /\ <<"n", "b", "n">> \in Seq(M) /\ <<"b", "n", "c">> \in Seq(M)
  BY <1>1, ShortTexts, EmptySeq
<1>3. Snippets \subseteq Seq(M) /\ << >> \in Snippets
  BY <1>2 DEF Snippets
<1>4. (\A m, k, s : Said(m, k, s).snippet = s) /\ Unsaid.snippet = << >>
  BY DEF Said, Unsaid
<1>5. \A e \in ReviewElements : e.snippet \in Snippets
  BY <1>3, <1>4 DEF ReviewElements
<1>. QED
  BY <1>3, <1>5 DEF M

\* Whatever the wiki or the review reports in the runs reaches a chunk.
THEOREM InputFindingsAreRouted == Spec => []FindingsAreRouted
<1>. DEFINE whole == AssembleWithSpans(ThreeTexts)
<1>1. DOMAIN whole.spans = 1..3 /\ DOMAIN ThreeMentions = 1..3
  <2>1. Whole({"a", "b", "c", "n"}, ThreeTexts, whole)
    BY ThreeTextsAre, AssembledIsWhole
  <2>. DEFINE c == whole.spans
  <2>. HIDE DEF whole
  <2>2. c \in Seq(Int \X Int) /\ Len(c) = 3
    BY <2>1, ThreeTextsAre DEF Whole
  <2>. HIDE DEF c
  <2>3. DOMAIN c = 1..3
    BY <2>2
  <2>. QED
    BY <2>3 DEF ThreeMentions, c
<1>2. FindingsArrive(FindLiveIssues(input, whole.text), whole.spans, ThreeMentions)
  <2>. HIDE DEF whole
  <2>1. 3 \in Nat \ {0}
    OBVIOUS
  <2>. QED
    BY <1>1, <2>1, EveryFindingArrives
<1>3. ASSUME InputInv, part = "reviewing" PROVE ReviewArrives(input, ThreeTexts)
  <2>1. input \in Seq(ReviewElements)
    BY <1>3 DEF InputInv, Elements
  <2>. QED
    BY <2>1, ThreeTextsAre, QuotedInputs, EveryQuoteArrives
<1>4. InputInv => FindingsAreRouted
  BY <1>2, <1>3 DEF FindingsAreRouted
<1>. QED
  BY <1>4, InputsAreSequences, PTL

-----------------------------------------------------------------------------
(* Settings                                                                *)

\* What a name may be set to: an address is the provider's or the user's own,
\* and Experiential's own model is one of its models.
Settable(k, v) ==
  /\ v # Unset
  /\ k = "openrouter_base_url" => v \in {"openrouter", "own"}
  /\ k = "local_base_url" => v \in {"local", "own"}
  /\ k = "experiential_base_url" => v \in {"experiential", "own"}
  /\ k = "base_url" => v = "own"
  /\ k = "experiential_model" => v = "experiential"

IsLayer(layer) == \A k \in DOMAIN layer : Settable(k, layer[k])

\* The environment sets keys and the contact only (build_config).
EnvironmentNames ==
  {"openrouter_api_key", "local_api_key", "experiential_api_key", "wikimedia_contact"}

UrlKeys == {"openrouter_base_url", "local_base_url", "experiential_base_url"}

\* Layers stay layers through what is done with them.
LEMMA LayersCompose ==
  /\ \A f, g : IsLayer(f) /\ IsLayer(g) => IsLayer(Over(f, g))
  /\ \A f, k : IsLayer(f) => IsLayer(Without(f, k))
  /\ \A f, k, v : IsLayer(f) /\ Settable(k, v) => IsLayer(With(f, k, v))
BY DEF IsLayer, Over, Without, With

LEMMA DefaultsAreSettable ==
  /\ IsLayer(Defaults)
  /\ DOMAIN Defaults = UrlKeys \cup {"provider"}
  /\ Defaults["provider"] = "claude_code"
  /\ \A p : p # Unset => Settable("model", DefaultModelFor(p))
BY UnsetAssumption DEF IsLayer, Defaults, UrlKeys, Settable, DefaultModelFor, Providers

LEMMA OverridesOf ==
  ASSUME NEW flags, IsLayer(flags)
  PROVE  /\ IsLayer(Overrides(flags))
         /\ \A k \in {"provider", "model"} :
              /\ k \in DOMAIN Overrides(flags) <=> k \in DOMAIN flags
              /\ k \in DOMAIN flags => Overrides(flags)[k] = flags[k]
<1>. DEFINE key == UrlKey(OrElse(Get(flags, "provider"), "openrouter"))
<1>1. key \in UrlKeys
  BY DEF UrlKey, UrlKeys
<1>2. "base_url" \in DOMAIN flags => Settable(key, flags["base_url"])
  BY <1>1, UnsetAssumption DEF IsLayer, Settable, UrlKeys
<1>. HIDE DEF key
<1>3. Overrides(flags) = IF "base_url" \notin DOMAIN flags THEN Without(flags, "base_url")
                         ELSE With(Without(flags, "base_url"), key, flags["base_url"])
  BY DEF Overrides, key
<1>4. IsLayer(Overrides(flags))
  BY <1>2, <1>3, LayersCompose
<1>. QED
  BY <1>1, <1>3, <1>4 DEF With, Without, UrlKeys

\* The configuration that build_config makes of the layers.
LEMMA ConfigOf ==
  ASSUME NEW file, NEW env, NEW flags, IsLayer(file), IsLayer(env), IsLayer(flags),
         DOMAIN env \subseteq EnvironmentNames,
         NEW config, config = BuildConfig(file, env, flags)
  PROVE  /\ IsLayer(config)
         /\ UrlKeys \cup {"provider", "model"} \subseteq DOMAIN config
         /\ config["provider"] = OrElse(Get(flags, "provider"), OrElse(Get(file, "provider"), "claude_code"))
         /\ \/ "model" \in DOMAIN flags /\ config["model"] = flags["model"]
            \/ /\ "model" \in DOMAIN file /\ config["model"] = file["model"]
               /\ "provider" \notin DOMAIN flags
            \/ config["model"] = DefaultModelFor(config["provider"])
<1>. DEFINE all  == Over(Overrides(flags), Over(env, file))
            data == IF "provider" \in DOMAIN flags /\ "model" \notin DOMAIN flags
                    THEN Without(all, "model") ELSE all
            provider == OrElse(Get(data, "provider"), "claude_code")
<1>1. /\ IsLayer(all)
      /\ \A k \in {"provider", "model"} :
           /\ k \in DOMAIN all <=> k \in DOMAIN flags \/ k \in DOMAIN file
           /\ k \in DOMAIN flags => all[k] = flags[k]
           /\ k \notin DOMAIN flags /\ k \in DOMAIN file => all[k] = file[k]
  <2>1. IsLayer(all)
    BY OverridesOf, LayersCompose
  <2>2. \A k \in {"provider", "model"} : k \notin DOMAIN env
    BY DEF EnvironmentNames
  <2>. QED
    BY <2>1, <2>2, OverridesOf DEF Over
<1>. HIDE DEF all
<1>2. /\ IsLayer(data)
      /\ "provider" \in DOMAIN data <=> "provider" \in DOMAIN flags \/ "provider" \in DOMAIN file
      /\ "provider" \in DOMAIN flags => data["provider"] = flags["provider"]
      /\ "provider" \notin DOMAIN flags /\ "provider" \in DOMAIN file =>
           data["provider"] = file["provider"]
      /\ "model" \in DOMAIN data =>
           \/ "model" \in DOMAIN flags /\ data["model"] = flags["model"]
           \/ /\ "model" \in DOMAIN file /\ data["model"] = file["model"]
              /\ "provider" \notin DOMAIN flags
  BY <1>1, LayersCompose DEF Without
<1>3. config = Over(IF "model" \in DOMAIN data THEN data
                    ELSE With(data, "model", DefaultModelFor(provider)), Defaults)
  BY DEF BuildConfig, Merged, all
<1>. HIDE DEF data
<1>4. provider # Unset /\ provider = OrElse(Get(flags, "provider"), OrElse(Get(file, "provider"), "claude_code"))
  BY <1>2, UnsetAssumption DEF OrElse, Get, IsLayer, Settable, Providers
<1>5. IsLayer(config)
  BY <1>2, <1>3, <1>4, LayersCompose, DefaultsAreSettable
<1>6. "provider" \in DOMAIN config /\ config["provider"] = provider
  BY <1>2, <1>3, DefaultsAreSettable DEF Over, With, OrElse, Get, IsLayer, Settable
<1>. HIDE DEF provider
<1>. QED
  BY <1>2, <1>3, <1>4, <1>5, <1>6, DefaultsAreSettable DEF Over, With

\* A client is asked for a model of its provider if the configuration names one.
LEMMA ModelKept ==
  ASSUME NEW c, c["provider"] \in Providers, Fits(c["provider"], c["model"]),
         Get(c, "experiential_model") \in {Unset, "experiential"}
  PROVE  Fits(c["provider"], BuildClient(c).model)
<1>1. CASE c["provider"] = "local"
  BY <1>1 DEF Fits
<1>2. CASE c["provider"] = "experiential"
  BY <1>2 DEF Fits, BuildClient, HttpProviders, Endpoint, OrElse
<1>3. CASE c["provider"] \in Providers \ {"local", "experiential"}
  BY <1>3 DEF Fits, BuildClient, HttpProviders, Endpoint
<1>. QED
  BY <1>1, <1>2, <1>3

\* What the client pool, the tiers and a switch make of a configuration.
LEMMA EnginesOf ==
  ASSUME NEW config, IsLayer(config), UrlKeys \cup {"provider", "model"} \subseteq DOMAIN config,
         ~Refused(config)
  PROVE  /\ Fits(config["provider"], config["model"]) =>
              \A t \in Tiers(config) : t.tier = "draft" => Fits(t.provider, t.model)
         /\ DOMAIN Pool(config) = {t.provider : t \in Tiers(config)}
         /\ \A p \in DOMAIN Pool(config) : p \in HttpProviders => Pool(config)[p].url \in {p, "own"}
         /\ FallbackTarget(config) # Unset =>
              Fits(FallbackTarget(config), Switched(config).model)
<1>1. config["provider"] \in Providers
  BY UnsetAssumption DEF Refused, Get, IsLayer, Settable
<1>2. Get(config, "experiential_model") \in {Unset, "experiential"}
  BY DEF Get, IsLayer, Settable
<1>3. /\ DOMAIN Effective(config) = DOMAIN config
      /\ Effective(config)["model"] = BuildClient(config).model
      /\ \A k \in DOMAIN config : k # "model" => Effective(config)[k] = config[k]
      /\ \A k : k # "model" => Get(Effective(config), k) = Get(config, k)
  BY DEF Effective, Get
<1>4. ASSUME Fits(config["provider"], config["model"]), NEW t \in Tiers(config), t.tier = "draft"
      PROVE  Fits(t.provider, t.model)
  <2>1. t.provider = config["provider"] /\ t.model = BuildClient(config).model
    BY <1>3, <1>4 DEF Tiers
  <2>. QED
    BY <1>1, <1>2, <1>4, <2>1, ModelKept
<1>5. DOMAIN Pool(config) = {t.provider : t \in Tiers(config)}
  <2>1. /\ ResolveComplexProvider(Effective(config)) = ResolveComplexProvider(config)
        /\ ResolveReviewProvider(Effective(config)) = ResolveReviewProvider(config)
        /\ ResolveReviewModel(Effective(config)) = ResolveReviewModel(config)
    BY <1>3 DEF ResolveComplexProvider, ResolveReviewProvider, ResolveReviewModel
  <2>. DEFINE draft == [tier |-> "draft", provider |-> config.provider,
                        model |-> Effective(config).model]
              complex == [tier |-> "complex", provider |-> ResolveComplexProvider(Effective(config)),
                          model |-> Get(Effective(config), "complex_model")]
              review == [tier |-> "review", provider |-> ResolveReviewProvider(Effective(config)),
                         model |-> ResolveReviewModel(Effective(config))]
  <2>2. /\ draft.provider = config.provider
        /\ complex.provider = ResolveComplexProvider(config)
        /\ complex.model = Get(config, "complex_model")
        /\ review.provider = ResolveReviewProvider(config)
        /\ review.model = ResolveReviewModel(config)
    BY <1>3, <2>1
  <2>3. Tiers(config) = {draft} \cup {t \in {complex, review} : t.model # Unset}
    BY DEF Tiers
  <2>4. DOMAIN Pool(config) = Needed(config)
    BY DEF Pool
  <2>. HIDE DEF draft, complex, review
  <2>. QED
    BY <2>2, <2>3, <2>4 DEF Needed
<1>6. ASSUME NEW p \in DOMAIN Pool(config), p \in HttpProviders
      PROVE  Pool(config)[p].url \in {p, "own"}
  <2>. DEFINE c == [config EXCEPT !.provider = p]
  <2>1. Pool(config)[p] = BuildClient(c).client
    BY DEF Pool
  <2>2. /\ c["provider"] = p
        /\ c["openrouter_base_url"] = config["openrouter_base_url"]
        /\ c["local_base_url"] = config["local_base_url"]
        /\ c["experiential_base_url"] = config["experiential_base_url"]
    OBVIOUS
  <2>. HIDE DEF c
  <2>3. BuildClient(c).client.url = Endpoint(c).url
    BY <1>6, <2>2 DEF BuildClient
  <2>4. Endpoint(c).url \in {p, "own"}
    BY <1>6, <2>2 DEF Endpoint, HttpProviders, IsLayer, Settable, UrlKeys
  <2>. QED
    BY <2>1, <2>3, <2>4
<1>7. ASSUME FallbackTarget(config) # Unset
      PROVE  Fits(FallbackTarget(config), Switched(config).model)
  <2>. DEFINE target == FallbackTarget(config)
              c == [config EXCEPT !.provider = target, !.model = DefaultModelFor(target)]
  <2>1. target \in Providers
    BY <1>7, UnsetAssumption DEF FallbackTarget, OrElse, Get, Refused, Providers
  <2>2. /\ c["provider"] = target /\ c["model"] = DefaultModelFor(target)
        /\ Get(c, "experiential_model") = Get(config, "experiential_model")
    BY DEF Get
  <2>3. Fits(target, DefaultModelFor(target))
    BY DEF Fits, DefaultModelFor
  <2>4. Switched(config).model = BuildClient(c).model
    BY DEF Switched, Effective
  <2>. HIDE DEF c, target
  <2>5. Fits(target, BuildClient(c).model)
    BY <1>2, <2>1, <2>2, <2>3, ModelKept
  <2>. QED
    BY <2>4, <2>5 DEF target
<1>. QED
  BY <1>4, <1>5, <1>6, <1>7

\* From the settings of a run to the engines it calls (config.py, engines.py):
\* whatever the file, the environment and the flags set, the main tier is asked
\* for a model of its provider, also after a switch, every tier has its client,
\* and each client talks to its own provider.
THEOREM EveryTierIsServed ==
  ASSUME NEW file, NEW env, NEW flags, IsLayer(file), IsLayer(env), IsLayer(flags),
         DOMAIN env \subseteq EnvironmentNames
  PROVE  TiersAreServed(file, env, flags)
<1>. DEFINE config == BuildConfig(file, env, flags)
<1>1. /\ IsLayer(config)
      /\ UrlKeys \cup {"provider", "model"} \subseteq DOMAIN config
      /\ config["provider"] = OrElse(Get(flags, "provider"), OrElse(Get(file, "provider"), "claude_code"))
      /\ \/ "model" \in DOMAIN flags /\ config["model"] = flags["model"]
         \/ /\ "model" \in DOMAIN file /\ config["model"] = file["model"]
            /\ "provider" \notin DOMAIN flags
         \/ config["model"] = DefaultModelFor(config["provider"])
  BY ConfigOf
<1>. HIDE DEF config
<1>2. NamedForOwn(file, flags) => Fits(config["provider"], config["model"])
  BY <1>1, DefaultsAreSettable DEF NamedForOwn, Fits, OrElse, Get, DefaultModelFor, Defaults
<1>3. ~Refused(config) =>
        /\ NamedForOwn(file, flags) =>
             \A t \in Tiers(config) : t.tier = "draft" => Fits(t.provider, t.model)
        /\ DOMAIN Pool(config) = {t.provider : t \in Tiers(config)}
        /\ \A p \in DOMAIN Pool(config) : p \in HttpProviders => Pool(config)[p].url \in {p, "own"}
        /\ FallbackTarget(config) # Unset =>
             Fits(FallbackTarget(config), Switched(config).model)
  BY <1>1, <1>2, EnginesOf
<1>. QED
  BY <1>3 DEF TiersAreServed, config

\* The layers of a run's settings are layers.
LEMMA InputLayers ==
  ASSUME NEW settings \in Seq(SettingElements), NEW l \in {"file", "env", "flag"}
  PROVE  /\ IsLayer(Layer(settings, l))
         /\ DOMAIN Layer(settings, "env") \subseteq EnvironmentNames
<1>. DEFINE given(k, n) == {i \in DOMAIN settings : settings[i].layer = n /\ settings[i].key = k}
            names(n) == {settings[i].key : i \in {j \in DOMAIN settings : settings[j].layer = n}}
            layer(n) == [k \in names(n) |-> settings[Min(given(k, n))].value]
<1>1. \A s \in SettingElements : Settable(s.key, s.value) /\ (s.layer = "env" => s.key \in EnvironmentNames)
  <2>1. \A x, k, v : /\ Setting(x, k, v).layer = x /\ Setting(x, k, v).key = k
                     /\ Setting(x, k, v).value = v
    BY DEF Setting
  <2>2. \A s \in SettingElements : s.value # Unset
    BY <2>1, UnsetAssumption DEF SettingElements, Providers
  <2>3. ASSUME NEW s \in SettingElements
        PROVE  /\ s.key \notin UrlKeys \cup {"experiential_model"}
               /\ s.key = "base_url" => s.value = "own"
               /\ s.layer = "env" => s.key = "openrouter_api_key"
    BY <2>1 DEF SettingElements, UrlKeys
  <2>. QED
    BY <2>2, <2>3 DEF Settable, EnvironmentNames, UrlKeys
<1>2. \A i \in DOMAIN settings : settings[i] \in SettingElements /\ i \in Nat
  OBVIOUS
<1>. HIDE DEF given
<1>3. ASSUME NEW n, NEW k \in names(n)
      PROVE  Min(given(k, n)) \in given(k, n)
  <2>1. given(k, n) \in SUBSET Nat /\ given(k, n) # {}
    BY <1>2 DEF given
  <2>. QED
    BY <2>1, SmallestOf
<1>4. ASSUME NEW n PROVE IsLayer(layer(n)) /\ DOMAIN layer(n) = names(n)
  <2>1. ASSUME NEW k \in names(n) PROVE Settable(k, layer(n)[k])
    <3>1. layer(n)[k] = settings[Min(given(k, n))].value
      OBVIOUS
    <3>2. Min(given(k, n)) \in DOMAIN settings /\ settings[Min(given(k, n))].key = k
      <4>. DEFINE i == Min(given(k, n))
      <4>1. i \in given(k, n)
        BY <1>3
      <4>. HIDE DEF i
      <4>. QED
        BY <4>1 DEF given, i
    <3>. QED
      BY <1>1, <1>2, <3>1, <3>2
  <2>. QED
    BY <2>1 DEF IsLayer
<1>5. Layer(settings, l) = IF l = "file" THEN With(layer(l), "wikimedia_contact", "given") ELSE layer(l)
  BY DEF Layer, given
<1>6. Layer(settings, "env") = layer("env")
  BY DEF Layer, given
<1>7. Settable("wikimedia_contact", "given")
  BY UnsetAssumption DEF Settable
<1>8. names("env") \subseteq EnvironmentNames
  BY <1>1, <1>2
<1>. HIDE DEF layer, names
<1>. QED
  BY <1>4, <1>5, <1>6, <1>7, <1>8, LayersCompose

\* The same of the settings the runs enumerate, however many.
THEOREM InputTiersAreServed == Spec => []TiersHaveEngines
<1>1. InputInv => TiersHaveEngines
  <2>. SUFFICES ASSUME InputInv, part = "settings" PROVE TiersHaveEngines
    BY DEF TiersHaveEngines
  <2>1. input \in Seq(SettingElements)
    BY DEF InputInv, Elements
  <2>. QED
    BY <2>1, InputLayers, EveryTierIsServed DEF TiersHaveEngines
<1>. QED
  BY <1>1, InputsAreSequences, PTL

-----------------------------------------------------------------------------
(* Replies                                                                 *)

\* run_claude_cli and run_opencode_cli: whatever lines a process prints and
\* however it ends, what is accepted holds every block it printed, and a usage
\* limit is never met with another attempt.
THEOREM EveryRunIsJudged == ASSUME NEW run PROVE RunsAreJudged(run)
<1>1. ClaudeVerdict(run) = "text" =>
        \/ ClaudeText(run) = Texts(LinesOf(run, "assistant"))
        \/ Texts(LinesOf(run, "assistant")) = << >>
  BY DEF ClaudeText
<1>2. ASSUME LinesOf(run, "result") # << >>, run.end = "exit", Last(LinesOf(run, "result")).status = 429
      PROVE  ClaudeVerdict(run) # "retry"
  BY <1>2 DEF ClaudeVerdict
<1>3. ASSUME LinesOf(run, "error") # << >>, run.end = "exit", OpenCodeMessage(run) = "limit"
      PROVE  OpenCodeVerdict(run) = "credits"
  BY <1>3 DEF OpenCodeVerdict, OpenCodeFails
<1>4. OpenCodeVerdict(run) = "text" => LinesOf(run, "error") = << >>
  BY DEF OpenCodeVerdict, OpenCodeFails
<1>5. run.end = "missing" => "retry" \notin {ClaudeVerdict(run), OpenCodeVerdict(run)}
  BY DEF ClaudeVerdict, OpenCodeVerdict, ClaudeFails, OpenCodeFails
<1>. QED
  BY <1>1, <1>2, <1>3, <1>4, <1>5 DEF RunsAreJudged

\* The same of the runs that are tried, however many lines they print.
THEOREM InputRepliesAreJudged == Spec => []RepliesAreJudged
<1>1. RepliesAreJudged
  BY EveryRunIsJudged DEF RepliesAreJudged
<1>. QED
  BY <1>1, PTL
=============================================================================
