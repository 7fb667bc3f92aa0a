---------------------- MODULE ChecksAndFixesProofs ----------------------
(***************************************************************************)
(* What the deterministic fixes do to every assembled article's citations  *)
(* and footnotes, and what the check of table spans says of every table:   *)
(* the runs of MCPureParts try a few calls and rows.                       *)
(***************************************************************************)
EXTENDS MCPureParts, FiniteSetTheorems, SequenceTheorems, WellFoundedInduction, TLAPS

OnceLaws == INSTANCE LoopLaws WITH Op <- KeepOnce, Start <- << >>

-----------------------------------------------------------------------------
(* Numbers                                                                 *)

LEMMA SmallestOf ==
  ASSUME NEW S \in SUBSET Nat, S # {}
  PROVE  Min(S) \in S /\ \A n \in S : Min(S) <= n
<1>1. PICK x \in S : \A y \in S : ~ (<<y, x>> \in OpToRel(<, Nat))
  BY WFMin, NatLessThanWellFounded
<1>2. \A y \in S : ~ (<<y, x>> \in {ss \in Nat \X Nat : ss[1] < ss[2]})
  BY <1>1, Zenon DEF OpToRel
<1>3. ASSUME NEW y \in S PROVE x <= y
  <2>1. <<y, x>> \in Nat \X Nat /\ x \in Nat /\ y \in Nat
    OBVIOUS
  <2>2. ~(<<y, x>>[1] < <<y, x>>[2])
    BY <1>2, <2>1
  <2>. QED
    BY <2>1, <2>2
<1>. QED
  BY <1>3 DEF Min

LEMMA LargestOf ==
  ASSUME NEW n \in Nat, NEW S \in SUBSET (1..n), S # {}
  PROVE  Max(S) \in S /\ \A k \in S : k <= Max(S)
<1>. DEFINE T == {n - k : k \in S}
<1>1. T \in SUBSET Nat /\ T # {}
  <2>1. \A k \in S : n - k \in Nat
    OBVIOUS
  <2>2. T \in SUBSET Nat
    BY <2>1
  <2>. QED
    BY <2>2
<1>. DEFINE m == Min(T)
<1>2. m \in T /\ \A k \in T : m <= k
  <2>. HIDE DEF T
  <2>. QED
    BY <1>1, SmallestOf
<1>. HIDE DEF m
<1>3. PICK x \in S : m = n - x
  BY <1>2
<1>4. \A k \in S : k <= x
  <2>. SUFFICES ASSUME NEW k \in S PROVE k <= x
    OBVIOUS
  <2>1. m <= n - k
    BY <1>2
  <2>. QED
    BY <1>3, <2>1
<1>. QED
  BY <1>4 DEF Max

-----------------------------------------------------------------------------
(* The inputs of the runs                                                  *)

InputInv == part \in DOMAIN Elements /\ input \in Seq(Elements[part])

LEMMA InputsAreSequences == Spec => []InputInv
<1>1. Init => InputInv
  BY DEF Init, InputInv
<1>2. InputInv /\ [Grow]_vars => InputInv'
  BY DEF InputInv, Grow, vars
<1>. QED
  BY <1>1, <1>2, PTL DEF Spec

-----------------------------------------------------------------------------
(* Parameters                                                              *)

\* Parameters with names N and values V, and calls with such parameters.
KnownNames == DOMAIN AlbanianFor \cup {"p", "pp", "ps"}
Params(N, V) == [name : N \cup KnownNames, num : Nat, value : V]
Calls(N, V) ==
  [kind : {"cite", "sfn", "harv", "quotes", "quoted", "other"}, params : Seq(Params(N, V)),
   ref : {"none", "bare", "named", "mixed"}]

LEMMA OneReplaced ==
  ASSUME NEW E, NEW s \in Seq(E), NEW k \in DOMAIN s, NEW y \in E
  PROVE  LET t == [s EXCEPT ![k] = y]
         IN  /\ t \in Seq(E) /\ DOMAIN t = DOMAIN s /\ t[k] = y
             /\ \A i \in DOMAIN s : i # k => t[i] = s[i]
OBVIOUS

LEMMA NamedBound ==
  ASSUME NEW N, NEW V, NEW s \in Seq(Params(N, V)), NEW name
  PROVE  /\ Named(s, name) \subseteq DOMAIN s /\ Named(s, name) \subseteq 1..Len(s)
         /\ Len(s) \in Nat /\ DOMAIN s = 1..Len(s)
         /\ Named(s, name) # {} =>
              /\ Min(Named(s, name)) \in Named(s, name) /\ Max(Named(s, name)) \in Named(s, name)
              /\ \A i \in Named(s, name) : i <= Max(Named(s, name))
<1>1. DOMAIN s = 1..Len(s) /\ Len(s) \in Nat
  OBVIOUS
<1>2. Named(s, name) \subseteq DOMAIN s
  BY DEF Named
<1>3. ASSUME Named(s, name) # {}
      PROVE  /\ Min(Named(s, name)) \in Named(s, name) /\ Max(Named(s, name)) \in Named(s, name)
             /\ \A i \in Named(s, name) : i <= Max(Named(s, name))
  <2>1. Named(s, name) \in SUBSET Nat /\ Named(s, name) \in SUBSET (1..Len(s))
    BY <1>1, <1>2
  <2>. QED
    BY <1>1, <1>3, <2>1, SmallestOf, LargestOf
<1>. QED
  BY <1>1, <1>2, <1>3

\* Two lists with the same values, and the same places for a name.
LEMMA SameNamed ==
  ASSUME NEW s, NEW t, NEW name, Named(s, name) = Named(t, name),
         \A i \in Named(s, name) : s[i].value = t[i].value,
         Named(s, name) # {} => Max(Named(s, name)) \in Named(s, name)
  PROVE  ValueOf(s, name) = ValueOf(t, name) /\ (Given(s, name) <=> Given(t, name))
BY DEF ValueOf, Given

-----------------------------------------------------------------------------
(* Albanian names                                                          *)

\* A name that is translated has a translation, which is not itself translated.
LEMMA Translations ==
  /\ \A name \in AlbanianNames :
       /\ English(name) \in DOMAIN AlbanianFor /\ English(name) \notin AlbanianNames
       /\ English(name) \in KnownNames /\ name \in AlbanianFor[English(name)]
  /\ \A e \in DOMAIN AlbanianFor :
       e \notin AlbanianNames /\ \A name \in AlbanianFor[e] : name \in AlbanianNames /\ English(name) = e
<1>1. ASSUME NEW name \in AlbanianNames
      PROVE  English(name) \in DOMAIN AlbanianFor /\ name \in AlbanianFor[English(name)]
  <2>1. \E e \in DOMAIN AlbanianFor : name \in AlbanianFor[e]
    BY DEF AlbanianNames
  <2>. QED
    BY <2>1 DEF English
<1>2. AlbanianNames \cap DOMAIN AlbanianFor = {}
  BY TableAssumption
<1>3. ASSUME NEW e \in DOMAIN AlbanianFor, NEW name \in AlbanianFor[e]
      PROVE  name \in AlbanianNames /\ English(name) = e
  <2>1. name \in AlbanianNames
    BY DEF AlbanianNames
  <2>2. English(name) \in DOMAIN AlbanianFor /\ name \in AlbanianFor[English(name)]
    BY <1>1, <2>1
  <2>3. \A d \in DOMAIN AlbanianFor : d # e => AlbanianFor[d] \cap AlbanianFor[e] = {}
    BY TableAssumption
  <2>. QED
    BY <2>1, <2>2, <2>3
<1>. QED
  BY <1>1, <1>2, <1>3 DEF KnownNames

LEMMA NotAlbanian ==
  /\ "language" \in DOMAIN AlbanianFor /\ "title" \in DOMAIN AlbanianFor
  /\ "url" \notin DOMAIN AlbanianFor /\ "url" \notin AlbanianNames
<1>1. /\ "language" \in DOMAIN AlbanianFor /\ "title" \in DOMAIN AlbanianFor
      /\ "url" \notin DOMAIN AlbanianFor
  BY DEF AlbanianFor
<1>2. \A e \in DOMAIN AlbanianFor : "url" \notin AlbanianFor[e]
  BY DEF AlbanianFor
<1>. QED
  BY <1>1, <1>2 DEF AlbanianNames

LEMMA EnglishParam ==
  ASSUME NEW N, NEW V, NEW s \in Seq(Params(N, V))
  PROVE  /\ EnglishParams(s) \in Seq(Params(N, V)) /\ DOMAIN EnglishParams(s) = DOMAIN s
         /\ \A i \in DOMAIN s :
              /\ EnglishParams(s)[i].value = s[i].value /\ EnglishParams(s)[i].num = s[i].num
              /\ EnglishParams(s)[i].name =
                   IF Renamed(s, i) THEN English(s[i].name) ELSE s[i].name
              /\ ~Renamed(s, i) => EnglishParams(s)[i] = s[i]
<1>. DEFINE p(i) == IF Renamed(s, i) THEN [s[i] EXCEPT !.name = English(@)] ELSE s[i]
<1>1. EnglishParams(s) = [i \in DOMAIN s |-> p(i)]
  BY DEF EnglishParams
<1>2. ASSUME NEW i \in DOMAIN s
      PROVE  /\ p(i) \in Params(N, V) /\ p(i).value = s[i].value /\ p(i).num = s[i].num
             /\ p(i).name = IF Renamed(s, i) THEN English(s[i].name) ELSE s[i].name
             /\ ~Renamed(s, i) => p(i) = s[i]
  <2>1. s[i] \in Params(N, V)
    OBVIOUS
  <2>2. Renamed(s, i) => English(s[i].name) \in KnownNames
    BY Translations DEF Renamed, IsAlbanian
  <2>. QED
    BY <2>1, <2>2 DEF Params
<1>. HIDE DEF p
<1>3. [i \in DOMAIN s |-> p(i)] \in Seq(Params(N, V))
  BY <1>2
<1>. QED
  BY <1>1, <1>2, <1>3

\* A name that is no translation, or is there already, keeps its places; and no
\* parameter comes under the name of another.
LEMMA NamesKept ==
  ASSUME NEW N, NEW V, NEW s \in Seq(Params(N, V)), NEW name, name \notin AlbanianNames,
         name \notin DOMAIN AlbanianFor \/ Named(s, name) # {}
  PROVE  Named(EnglishParams(s), name) = Named(s, name)
<1>. DEFINE t == EnglishParams(s)
<1>1. /\ DOMAIN t = DOMAIN s
      /\ \A i \in DOMAIN s : /\ t[i].num = s[i].num
                             /\ t[i].name = IF Renamed(s, i) THEN English(s[i].name) ELSE s[i].name
  BY EnglishParam
<1>. HIDE DEF t
<1>2. ASSUME NEW i \in Named(s, name) PROVE i \in Named(t, name)
  <2>1. i \in DOMAIN s /\ s[i].name = name /\ s[i].num = 0
    BY DEF Named
  <2>2. ~Renamed(s, i)
    BY <2>1 DEF Renamed, IsAlbanian
  <2>. QED
    BY <1>1, <2>1, <2>2 DEF Named
<1>3. ASSUME NEW i \in Named(t, name), i \notin Named(s, name) PROVE FALSE
  <2>1. i \in DOMAIN s /\ t[i].name = name /\ t[i].num = 0
    BY <1>1 DEF Named
  <2>2. Renamed(s, i) /\ English(s[i].name) = name /\ s[i].num = 0
    BY <1>1, <1>3, <2>1 DEF Named
  <2>3. name \in DOMAIN AlbanianFor
    BY <2>2, Translations DEF Renamed, IsAlbanian
  <2>4. PICK j \in DOMAIN s : s[j].name = name /\ s[j].num = 0
    BY <2>3 DEF Named
  <2>. QED
    BY <2>2, <2>4 DEF Renamed
<1>4. Named(t, name) = Named(s, name)
  BY <1>2, <1>3
<1>. QED
  BY <1>4 DEF t

LEMMA NeverTwice ==
  ASSUME NEW N, NEW V, NEW s \in Seq(Params(N, V)), NEW a \in DOMAIN s, NEW b \in DOMAIN s,
         EnglishParams(s)[a].name = EnglishParams(s)[b].name,
         EnglishParams(s)[a].num = EnglishParams(s)[b].num
  PROVE  s[a].name = s[b].name /\ s[a].num = s[b].num
<1>. DEFINE t == EnglishParams(s)
<1>1. \A i \in DOMAIN s : /\ t[i].num = s[i].num
                          /\ t[i].name = IF Renamed(s, i) THEN English(s[i].name) ELSE s[i].name
  BY EnglishParam
<1>2. a \in Nat /\ b \in Nat /\ (a < b \/ b < a \/ a = b)
  OBVIOUS
<1>3. t[a].name = t[b].name /\ t[a].num = t[b].num
  OBVIOUS
<1>. HIDE DEF t
<1>4. s[a].num = s[b].num
  BY <1>1, <1>3
<1>5. CASE Renamed(s, a) /\ Renamed(s, b)
  <2>1. English(s[a].name) = English(s[b].name) /\ IsAlbanian(s[a]) /\ IsAlbanian(s[b])
    BY <1>1, <1>3, <1>5 DEF Renamed
  <2>2. ~(a < b) /\ ~(b < a)
    BY <1>4, <1>5, <2>1 DEF Renamed
  <2>. QED
    BY <1>2, <2>2
<1>6. CASE Renamed(s, a) /\ ~Renamed(s, b)
  BY <1>1, <1>3, <1>4, <1>6 DEF Renamed
<1>7. CASE ~Renamed(s, a) /\ Renamed(s, b)
  BY <1>1, <1>3, <1>4, <1>7 DEF Renamed
<1>8. CASE ~Renamed(s, a) /\ ~Renamed(s, b)
  BY <1>1, <1>3, <1>4, <1>8
<1>. QED
  BY <1>5, <1>6, <1>7, <1>8

\* Names that are fixed stay.
LEMMA EnglishStays ==
  ASSUME NEW N, NEW V, NEW s \in Seq(Params(N, V))
  PROVE  /\ \A i \in DOMAIN s : ~Renamed(EnglishParams(s), i)
         /\ EnglishParams(EnglishParams(s)) = EnglishParams(s)
<1>. DEFINE t == EnglishParams(s)
<1>1. /\ t \in Seq(Params(N, V)) /\ DOMAIN t = DOMAIN s
      /\ \A i \in DOMAIN s : /\ t[i].num = s[i].num
                             /\ t[i].name = IF Renamed(s, i) THEN English(s[i].name) ELSE s[i].name
  BY EnglishParam
<1>. HIDE DEF t
<1>2. ASSUME NEW i \in DOMAIN s PROVE ~Renamed(t, i)
  <2>. SUFFICES ASSUME Renamed(t, i) PROVE FALSE
    OBVIOUS
  <2>. DEFINE e == English(t[i].name)
              n == s[i].num
  <2>1. IsAlbanian(t[i])
    BY DEF Renamed
  <2>2. ~Renamed(s, i) /\ t[i].name = s[i].name
    BY <1>1, <2>1, Translations DEF Renamed, IsAlbanian
  <2>3. IsAlbanian(s[i]) /\ e = English(s[i].name)
    BY <2>1, <2>2 DEF IsAlbanian
  <2>4. \E j \in DOMAIN s : s[j].num = n /\ (s[j].name = e \/ (IsAlbanian(s[j]) /\ English(s[j].name) = e))
    BY <2>2, <2>3 DEF Renamed
  <2>. HIDE DEF e, n
  <2>5. \E j \in DOMAIN s : t[j].num = n /\ t[j].name = e
    <3>1. CASE \E j \in DOMAIN s : s[j].num = n /\ s[j].name = e
      <4>1. PICK j \in DOMAIN s : s[j].num = n /\ s[j].name = e
        BY <3>1
      <4>2. e \notin AlbanianNames
        BY <2>3, Translations DEF IsAlbanian
      <4>3. ~Renamed(s, j)
        BY <4>1, <4>2 DEF Renamed, IsAlbanian
      <4>. QED
        BY <1>1, <4>1, <4>3
    <3>2. CASE ~\E j \in DOMAIN s : s[j].num = n /\ s[j].name = e
      <4>. DEFINE S == {j \in DOMAIN s : s[j].num = n /\ IsAlbanian(s[j]) /\ English(s[j].name) = e}
      <4>1. S \in SUBSET Nat /\ S # {}
        BY <2>4, <3>2
      <4>. DEFINE j == Min(S)
      <4>2. j \in S /\ \A k \in S : j <= k
        <5>. HIDE DEF S
        <5>. QED
          BY <4>1, SmallestOf
      <4>. HIDE DEF j
      <4>3. j \in DOMAIN s /\ s[j].num = n /\ IsAlbanian(s[j]) /\ English(s[j].name) = e
        BY <4>2
      <4>4. ~\E k \in DOMAIN s : k < j /\ s[k].num = n /\ IsAlbanian(s[k]) /\ English(s[k].name) = e
        BY <4>2, <4>3
      <4>5. Renamed(s, j)
        BY <3>2, <4>3, <4>4 DEF Renamed
      <4>. QED
        BY <1>1, <4>3, <4>5
    <3>. QED
      BY <3>1, <3>2
  <2>6. t[i].num = n
    BY <1>1 DEF n
  <2>. QED
    BY <1>1, <2>5, <2>6 DEF Renamed, e
<1>3. EnglishParams(t) = t
  <2>1. DOMAIN EnglishParams(t) = DOMAIN t /\ \A i \in DOMAIN t : EnglishParams(t)[i] = t[i]
    BY <1>1, <1>2, EnglishParam
  <2>2. EnglishParams(t) \in Seq(Params(N, V))
    BY <1>1, EnglishParam
  <2>. QED
    BY <1>1, <2>1, <2>2
<1>. QED
  BY <1>2, <1>3 DEF t

-----------------------------------------------------------------------------
(* A language is filled in                                                 *)

Once(s) == Loop(KeepOnce, << >>, s)

IsNamed(p, name) == p.name = name /\ p.num = 0

LEMMA OnceLaw ==
  /\ Once(<< >>) = << >>
  /\ \A E : \A s \in Seq(E) : \A x \in E : Once(Append(s, x)) = KeepOnce(Once(s), x)
<1>1. Loop(KeepOnce, << >>, << >>) = << >>
  BY OnceLaws!LoopLaw DEF Loop, OnceLaws!Loop
<1>2. \A E : \A s \in Seq(E) : \A x \in E :
        Loop(KeepOnce, << >>, Append(s, x)) = KeepOnce(Loop(KeepOnce, << >>, s), x)
  BY OnceLaws!LoopLaw DEF Loop, OnceLaws!Loop
<1>. QED
  BY <1>1, <1>2 DEF Once

\* All but further parameters of that name are kept.
Thinned(s, t) ==
  /\ \A i \in DOMAIN t : \E j \in DOMAIN s : t[i] = s[j]
  /\ \A j \in DOMAIN s : ~IsNamed(s[j], "language") => \E i \in DOMAIN t : t[i] = s[j]

LEMMA OnceKeeps ==
  ASSUME NEW N, NEW V
  PROVE  \A s \in Seq(Params(N, V)) : Once(s) \in Seq(Params(N, V)) /\ Thinned(s, Once(s))
<1>. DEFINE T == {s \in Seq(Params(N, V)) : Once(s) \in Seq(Params(N, V)) /\ Thinned(s, Once(s))}
<1>1. << >> \in T
  <2>1. Thinned(<< >>, << >>)
    BY DEF Thinned
  <2>. QED
    BY <2>1, OnceLaw, EmptySeq
<1>2. ASSUME NEW s \in Seq(Params(N, V)), NEW x \in Params(N, V), s \in T PROVE Append(s, x) \in T
  <2>. DEFINE t == Append(s, x)
              o == Once(s)
              u == Append(o, x)
  <2>1. o \in Seq(Params(N, V)) /\ Thinned(s, o) /\ t \in Seq(Params(N, V)) /\ u \in Seq(Params(N, V))
    BY <1>2
  <2>2. (Once(t) = o /\ IsNamed(x, "language")) \/ Once(t) = u
    BY OnceLaw DEF KeepOnce, IsNamed
  <2>3. /\ DOMAIN t = DOMAIN s \cup {Len(s) + 1} /\ t[Len(s) + 1] = x
        /\ \A i \in DOMAIN s : t[i] = s[i]
    OBVIOUS
  <2>4. /\ DOMAIN u = DOMAIN o \cup {Len(o) + 1} /\ u[Len(o) + 1] = x
        /\ \A i \in DOMAIN o : u[i] = o[i]
    BY <2>1
  <2>. HIDE DEF t, o, u
  <2>5. CASE Once(t) = o /\ IsNamed(x, "language")
    <3>1. \A i \in DOMAIN o : \E j \in DOMAIN t : o[i] = t[j]
      BY <2>1, <2>3 DEF Thinned
    <3>2. \A j \in DOMAIN t : ~IsNamed(t[j], "language") => \E i \in DOMAIN o : o[i] = t[j]
      BY <2>1, <2>3, <2>5 DEF Thinned
    <3>. QED
      BY <2>1, <2>5, <3>1, <3>2 DEF Thinned, t
  <2>6. CASE Once(t) = u
    <3>1. \A i \in DOMAIN u : \E j \in DOMAIN t : u[i] = t[j]
      BY <2>1, <2>3, <2>4 DEF Thinned
    <3>2. \A j \in DOMAIN t : ~IsNamed(t[j], "language") => \E i \in DOMAIN u : u[i] = t[j]
      BY <2>1, <2>3, <2>4 DEF Thinned
    <3>. QED
      BY <2>1, <2>6, <3>1, <3>2 DEF Thinned, t
  <2>. QED
    BY <2>2, <2>5, <2>6
<1>. HIDE DEF T
<1>3. Seq(Params(N, V)) \subseteq T
  BY <1>1, <1>2, OnceLaws!AllSequences
<1>. QED
  BY <1>3 DEF T

\* A citation that is given a language has one, and what it said otherwise.
LEMMA LanguageGiven ==
  ASSUME NEW N, NEW V, NEW s \in Seq(Params(N, V)), NEW v \in V, v # Nothing
  PROVE  /\ WithLanguage(s, v) \in Seq(Params(N, V)) /\ Given(WithLanguage(s, v), "language")
         /\ ~Given(s, "language") =>
              \A j \in DOMAIN s : s[j].value # Nothing =>
                \E i \in DOMAIN WithLanguage(s, v) : WithLanguage(s, v)[i].value = s[j].value
<1>. DEFINE o == Once(s)
            w == WithLanguage(s, v)
            p == Param("language", v)
            k == Min(Named(o, "language"))
<1>1. o \in Seq(Params(N, V)) /\ Thinned(s, o)
  BY OnceKeeps
<1>2. w = IF Named(o, "language") = {} THEN Append(o, p) ELSE [o EXCEPT ![k].value = v]
  BY DEF WithLanguage, Once
<1>3. p \in Params(N, V) /\ IsNamed(p, "language") /\ p.value = v
  BY NotAlbanian DEF Param, Params, KnownNames, IsNamed
<1>4. ASSUME Named(o, "language") # {} PROVE k \in Named(o, "language")
  BY <1>1, <1>4, NamedBound
<1>5. \A t : \A i \in Named(t, "language") : i \in DOMAIN t /\ IsNamed(t[i], "language")
  BY DEF Named, IsNamed
<1>6. \A t : \A i \in DOMAIN t : IsNamed(t[i], "language") => i \in Named(t, "language")
  BY DEF Named, IsNamed
<1>7. ASSUME ~Given(s, "language"), NEW j \in DOMAIN s, s[j].value # Nothing
      PROVE  ~IsNamed(s[j], "language")
  BY <1>6, <1>7 DEF Given
<1>. HIDE DEF o, w, p, k
<1>8. CASE Named(o, "language") = {}
  <2>1. /\ w = Append(o, p) /\ w \in Seq(Params(N, V)) /\ Len(o) + 1 \in DOMAIN w /\ w[Len(o) + 1] = p
        /\ \A i \in DOMAIN o : i \in DOMAIN w /\ w[i] = o[i]
    BY <1>1, <1>2, <1>3, <1>8
  <2>2. Given(w, "language")
    BY <1>3, <1>6, <2>1 DEF Given
  <2>3. ASSUME NEW j \in DOMAIN s, ~IsNamed(s[j], "language")
        PROVE  \E i \in DOMAIN w : w[i].value = s[j].value
    BY <1>1, <2>1, <2>3 DEF Thinned
  <2>. QED
    BY <1>7, <2>1, <2>2, <2>3 DEF w
<1>9. CASE Named(o, "language") # {}
  <2>1. k \in DOMAIN o /\ IsNamed(o[k], "language") /\ o[k] \in Params(N, V)
    BY <1>1, <1>4, <1>5, <1>9
  <2>. DEFINE y == [o[k] EXCEPT !.value = v]
  <2>2. w = [o EXCEPT ![k] = y]
    BY <1>2, <1>9
  <2>3. y \in Params(N, V) /\ IsNamed(y, "language") /\ y.value = v
    BY <2>1 DEF Params, IsNamed
  <2>. HIDE DEF y
  <2>4. /\ w \in Seq(Params(N, V)) /\ DOMAIN w = DOMAIN o /\ IsNamed(w[k], "language") /\ w[k].value = v
        /\ \A i \in DOMAIN o : i # k => w[i] = o[i]
    BY <1>1, <2>1, <2>2, <2>3, OneReplaced
  <2>5. Given(w, "language")
    BY <1>6, <2>1, <2>4 DEF Given
  <2>6. ASSUME NEW j \in DOMAIN s, ~IsNamed(s[j], "language")
        PROVE  \E i \in DOMAIN w : w[i].value = s[j].value
    <3>1. PICK i \in DOMAIN o : o[i] = s[j]
      BY <1>1, <2>6 DEF Thinned
    <3>2. i # k
      BY <2>1, <2>6, <3>1
    <3>. QED
      BY <2>4, <3>1, <3>2
  <2>. QED
    BY <1>7, <2>4, <2>5, <2>6 DEF w
<1>. QED
  BY <1>8, <1>9

-----------------------------------------------------------------------------
(* What a second round sees of a citation                                  *)

LEMMA NothingGiven ==
  ASSUME NEW N, NEW V, NEW s \in Seq(Params(N, V)), NEW name
  PROVE  /\ ValueOf(s, name) \in V \cup {Nothing}
         /\ ~Given(s, name) => ValueOf(s, name) = Nothing
         /\ Given(s, name) => Named(s, name) # {}
<1>1. ASSUME Named(s, name) # {}
      PROVE  Max(Named(s, name)) \in Named(s, name) /\ s[Max(Named(s, name))].value \in V
  <2>1. Max(Named(s, name)) \in Named(s, name) /\ Max(Named(s, name)) \in DOMAIN s
    BY <1>1, NamedBound
  <2>2. s[Max(Named(s, name))] \in Params(N, V)
    BY <2>1
  <2>. QED
    BY <2>1, <2>2 DEF Params
<1>. QED
  BY <1>1 DEF ValueOf, Given

\* A name that is kept has the value it had.
LEMMA ValuesKept ==
  ASSUME NEW N, NEW V, NEW s \in Seq(Params(N, V)), NEW name, name \notin AlbanianNames,
         name \notin DOMAIN AlbanianFor \/ Named(s, name) # {}
  PROVE  /\ ValueOf(EnglishParams(s), name) = ValueOf(s, name)
         /\ Given(EnglishParams(s), name) <=> Given(s, name)
<1>1. Named(EnglishParams(s), name) = Named(s, name)
  BY NamesKept
<1>2. \A i \in Named(s, name) : EnglishParams(s)[i].value = s[i].value
  BY EnglishParam, NamedBound
<1>3. Named(s, name) # {} => Max(Named(s, name)) \in Named(s, name)
  BY NamedBound
<1>. QED
  BY <1>1, <1>2, <1>3, SameNamed

\* A title that shows no language does not show one after the names are fixed,
\* unless it stood under an Albanian name.
Hides(s) ==
  /\ Named(s, "title") = {}
  /\ \E i \in DOMAIN s : s[i].name \in AlbanianFor["title"] /\ s[i].num = 0 /\ Shows(s[i].value) # Nothing

LEMMA TitleStays ==
  ASSUME NEW N, NEW V, NEW s \in Seq(Params(N, V)), Shows(ValueOf(s, "title")) = Nothing, ~Hides(s)
  PROVE  Shows(ValueOf(EnglishParams(s), "title")) = Nothing
<1>. DEFINE t == EnglishParams(s)
            k == Max(Named(t, "title"))
<1>1. "title" \in DOMAIN AlbanianFor /\ "title" \notin AlbanianNames
  BY NotAlbanian, Translations
<1>2. CASE Named(s, "title") # {}
  <2>1. ValueOf(EnglishParams(s), "title") = ValueOf(s, "title")
    BY <1>1, <1>2, ValuesKept
  <2>. QED
    BY <2>1
<1>3. CASE Named(s, "title") = {} /\ Named(t, "title") = {}
  <2>1. ValueOf(s, "title") = Nothing /\ ValueOf(t, "title") = Nothing
    BY <1>3 DEF ValueOf
  <2>. QED
    BY <2>1
<1>4. CASE Named(s, "title") = {} /\ Named(t, "title") # {}
  <2>1. t \in Seq(Params(N, V)) /\ DOMAIN t = DOMAIN s
    BY EnglishParam
  <2>2. k \in Named(t, "title")
    BY <1>4, <2>1, NamedBound
  <2>3. k \in DOMAIN s /\ t[k].name = "title" /\ t[k].num = 0
    BY <2>1, <2>2 DEF Named
  <2>4. t[k].value = s[k].value /\ s[k].num = 0
        /\ t[k].name = IF Renamed(s, k) THEN English(s[k].name) ELSE s[k].name
    BY <2>3, EnglishParam
  <2>5. Renamed(s, k)
    BY <1>4, <2>3, <2>4 DEF Named
  <2>6. s[k].name \in AlbanianFor["title"]
    BY <2>3, <2>4, <2>5, Translations DEF Renamed, IsAlbanian
  <2>7. Shows(s[k].value) = Nothing
    BY <1>4, <2>3, <2>4, <2>6 DEF Hides
  <2>8. ValueOf(t, "title") = t[k].value
    BY <1>4 DEF ValueOf
  <2>. QED
    BY <2>4, <2>7, <2>8
<1>. QED
  BY <1>2, <1>3, <1>4

\* Once names are fixed no title is hidden.
LEMMA NoneHidden ==
  ASSUME NEW N, NEW V, NEW s \in Seq(Params(N, V))
  PROVE  ~Hides(EnglishParams(s))
<1>. DEFINE t == EnglishParams(s)
<1>1. t \in Seq(Params(N, V)) /\ \A i \in DOMAIN t : ~Renamed(t, i)
  BY EnglishParam, EnglishStays
<1>. HIDE DEF t
<1>. SUFFICES ASSUME Hides(t) PROVE FALSE
  BY DEF t
<1>. DEFINE S == {i \in DOMAIN t : t[i].num = 0 /\ IsAlbanian(t[i]) /\ English(t[i].name) = "title"}
<1>2. \A name \in AlbanianFor["title"] : name \in AlbanianNames /\ English(name) = "title"
  BY NotAlbanian, Translations
<1>3. S \in SUBSET Nat /\ S # {}
  <2>1. S # {}
    BY <1>2 DEF Hides, IsAlbanian
  <2>. QED
    BY <1>1, <2>1
<1>. DEFINE j == Min(S)
<1>4. j \in S /\ \A k \in S : j <= k
  <2>. HIDE DEF S
  <2>. QED
    BY <1>3, SmallestOf
<1>. HIDE DEF j
<1>5. j \in DOMAIN t /\ t[j].num = 0 /\ IsAlbanian(t[j]) /\ English(t[j].name) = "title"
  BY <1>4
<1>6. ~\E k \in DOMAIN t : k < j /\ t[k].num = 0 /\ IsAlbanian(t[k]) /\ English(t[k].name) = "title"
  <2>. SUFFICES ASSUME NEW k \in DOMAIN t, k < j, t[k].num = 0, IsAlbanian(t[k]),
                       English(t[k].name) = "title"
                PROVE  FALSE
    OBVIOUS
  <2>1. j <= k /\ j \in Nat /\ k \in Nat
    BY <1>1, <1>4
  <2>. QED
    BY <2>1
<1>7. ~\E k \in DOMAIN t : t[k].name = "title" /\ t[k].num = 0
  BY DEF Hides, Named
<1>8. Renamed(t, j)
  BY <1>5, <1>6, <1>7 DEF Renamed
<1>. QED
  BY <1>1, <1>5, <1>8

-----------------------------------------------------------------------------
(* The texts between the fixes of citations                                *)

\* What values may say once languages are filled in.
SaidOf(V) ==
  V \cup {Nothing} \cup {Shows(v) : v \in V \cup {Nothing}} \cup {Declares(v) : v \in V \cup {Nothing}}

LEMMA CallFields ==
  ASSUME NEW N, NEW V, NEW c \in Calls(N, V)
  PROVE  /\ c.params \in Seq(Params(N, V)) /\ c.kind \in {"cite", "sfn", "harv", "quotes", "quoted", "other"}
         /\ c.ref \in {"none", "bare", "named", "mixed"}
         /\ [c EXCEPT !.params = c.params] = c
BY DEF Calls

LEMMA OtherParams ==
  ASSUME NEW N, NEW V, NEW c \in Calls(N, V), NEW M, NEW W, NEW s \in Seq(Params(M, W)), NEW d,
         d = [c EXCEPT !.params = s]
  PROVE  d \in Calls(M, W) /\ d.params = s /\ d.kind = c.kind /\ d.ref = c.ref
BY DEF Calls

LEMMA MoreParams ==
  ASSUME NEW N, NEW V, NEW W, V \subseteq W
  PROVE  Seq(Params(N, V)) \subseteq Seq(Params(N, W)) /\ Calls(N, V) \subseteq Calls(N, W)
<1>1. Params(N, V) \subseteq Params(N, W)
  BY DEF Params
<1>2. Seq(Params(N, V)) \subseteq Seq(Params(N, W))
  <2>. HIDE DEF Params
  <2>. QED
    BY <1>1
<1>. QED
  BY <1>2 DEF Calls

LEMMA LanguageSaid ==
  ASSUME NEW N, NEW V, NEW text \in Seq(Calls(N, V)), NEW i \in DOMAIN text
  PROVE  Language(text, i) \in SaidOf(V)
<1>1. text[i].params \in Seq(Params(N, V))
  BY CallFields
<1>2. \A name : ValueOf(text[i].params, name) \in V \cup {Nothing}
  BY <1>1, NothingGiven
<1>. QED
  BY <1>2 DEF Language, Detected, SaidOf

\* A call is changed only where its language is missing and found, and says
\* what it said.
Filled(text, i, c) ==
  /\ c.kind = text[i].kind /\ c.ref = text[i].ref
  /\ ~(Missing(text[i]) /\ Language(text, i) # Nothing) => c = text[i]
  /\ Missing(text[i]) /\ Language(text, i) # Nothing => ~Missing(c)
  /\ Values(text[i]) \subseteq Values(c)

LEMMA FilledText ==
  ASSUME NEW N, NEW V, NEW text \in Seq(Calls(N, V)), NEW filled, filled = FillLanguages(text)
  PROVE  /\ filled \in Seq(Calls(N, SaidOf(V))) /\ DOMAIN filled = DOMAIN text
         /\ \A i \in DOMAIN text : Filled(text, i, filled[i])
<1>. DEFINE lang(i) == Language(text, i)
            p(i) == WithLanguage(text[i].params, lang(i))
            c(i) == IF Missing(text[i]) /\ lang(i) # Nothing
                    THEN [text[i] EXCEPT !.params = p(i)] ELSE text[i]
<1>1. filled = [i \in DOMAIN text |-> c(i)]
  BY DEF FillLanguages
<1>2. ASSUME NEW i \in DOMAIN text
      PROVE  /\ c(i) \in Calls(N, SaidOf(V)) /\ c(i).kind = text[i].kind /\ c(i).ref = text[i].ref
             /\ Missing(text[i]) /\ lang(i) # Nothing =>
                  ~Missing(c(i)) /\ Values(text[i]) \subseteq Values(c(i))
  <2>1. V \subseteq SaidOf(V)
    BY DEF SaidOf
  <2>2. Seq(Params(N, V)) \subseteq Seq(Params(N, SaidOf(V))) /\ text[i] \in Calls(N, SaidOf(V))
    <3>. DEFINE W == SaidOf(V)
    <3>1. text[i] \in Calls(N, V) /\ V \subseteq W
      BY <2>1
    <3>. HIDE DEF W
    <3>2. Seq(Params(N, V)) \subseteq Seq(Params(N, W)) /\ Calls(N, V) \subseteq Calls(N, W)
      BY <3>1, MoreParams
    <3>. QED
      BY <3>1, <3>2 DEF W
  <2>3. lang(i) \in SaidOf(V)
    BY LanguageSaid
  <2>4. text[i].params \in Seq(Params(N, SaidOf(V)))
    BY <2>2, CallFields
  <2>. HIDE DEF lang
  <2>5. CASE ~(Missing(text[i]) /\ lang(i) # Nothing)
    BY <2>2, <2>5
  <2>6. CASE Missing(text[i]) /\ lang(i) # Nothing
    <3>1. /\ p(i) \in Seq(Params(N, SaidOf(V))) /\ Given(p(i), "language")
          /\ ~Given(text[i].params, "language") =>
               \A j \in DOMAIN text[i].params : text[i].params[j].value # Nothing =>
                 \E k \in DOMAIN p(i) : p(i)[k].value = text[i].params[j].value
      BY <2>3, <2>4, <2>6, LanguageGiven
    <3>2. ~Given(text[i].params, "language")
      BY <2>6 DEF Missing
    <3>. HIDE DEF p
    <3>3. c(i) = [text[i] EXCEPT !.params = p(i)]
      BY <2>6
    <3>4. c(i) \in Calls(N, SaidOf(V)) /\ c(i).params = p(i) /\ c(i).kind = text[i].kind /\ c(i).ref = text[i].ref
      BY <2>2, <3>1, <3>3, OtherParams
    <3>5. ~Missing(c(i))
      BY <3>1, <3>4 DEF Missing
    <3>6. Values(text[i]) \subseteq Values(c(i))
      BY <3>1, <3>2, <3>4 DEF Values
    <3>. QED
      BY <3>4, <3>5, <3>6
  <2>. QED
    BY <2>5, <2>6
<1>3. \A i \in DOMAIN text : ~(Missing(text[i]) /\ lang(i) # Nothing) => c(i) = text[i]
  OBVIOUS
<1>4. \A i \in DOMAIN text : Filled(text, i, c(i))
  <2>. HIDE DEF c
  <2>. QED
    BY <1>2, <1>3 DEF Filled
<1>. HIDE DEF c
<1>5. [i \in DOMAIN text |-> c(i)] \in Seq(Calls(N, SaidOf(V)))
  BY <1>2
<1>. QED
  BY <1>1, <1>4, <1>5

LEMMA NamedText ==
  ASSUME NEW N, NEW V, NEW text \in Seq(Calls(N, V)), NEW named, named = FixParamNames(text)
  PROVE  /\ named \in Seq(Calls(N, V)) /\ DOMAIN named = DOMAIN text
         /\ \A i \in DOMAIN text :
              /\ named[i].kind = text[i].kind /\ named[i].ref = text[i].ref
              /\ text[i].kind # "cite" => named[i] = text[i]
              /\ text[i].kind = "cite" => named[i].params = EnglishParams(text[i].params)
<1>. DEFINE p(i) == EnglishParams(text[i].params)
            c(i) == IF text[i].kind = "cite" THEN [text[i] EXCEPT !.params = p(i)] ELSE text[i]
<1>1. named = [i \in DOMAIN text |-> c(i)]
  BY DEF FixParamNames
<1>2. ASSUME NEW i \in DOMAIN text
      PROVE  /\ c(i) \in Calls(N, V) /\ c(i).kind = text[i].kind /\ c(i).ref = text[i].ref
             /\ text[i].kind # "cite" => c(i) = text[i]
             /\ text[i].kind = "cite" => c(i).params = p(i)
  <2>1. text[i] \in Calls(N, V) /\ p(i) \in Seq(Params(N, V))
    BY CallFields, EnglishParam
  <2>. HIDE DEF p
  <2>. QED
    BY <2>1, OtherParams
<1>. HIDE DEF c
<1>3. [i \in DOMAIN text |-> c(i)] \in Seq(Calls(N, V))
  BY <1>2
<1>. QED
  BY <1>1, <1>2, <1>3

\* The citations whose pages are asked.
Asked(text) == {i \in DOMAIN text : Missing(text[i]) /\ HasPage(text[i])}

\* If all pages can be asked, every one is.
LEMMA EveryPageAsked ==
  ASSUME NEW N, NEW V, NEW text \in Seq(Calls(N, V)), Cardinality(Asked(text)) <= MaxUrlFetches,
         NEW i \in Asked(text)
  PROVE  Cardinality(PagesBefore(text, i)) < MaxUrlFetches
<1>1. IsFiniteSet(DOMAIN text)
  <2>1. DOMAIN text = 1..Len(text) /\ Len(text) \in Int /\ 1 \in Int
    OBVIOUS
  <2>. QED
    BY <2>1, FS_Interval
<1>. DEFINE S == PagesBefore(text, i)
            T == S \cup {i}
<1>2. Asked(text) \subseteq DOMAIN text /\ T \subseteq Asked(text) /\ i \notin S
  <2>1. i \in Nat
    BY DEF Asked
  <2>. QED
    BY <2>1 DEF Asked, PagesBefore
<1>3. IsFiniteSet(Asked(text)) /\ IsFiniteSet(T) /\ Cardinality(T) <= Cardinality(Asked(text))
  <2>. HIDE DEF T
  <2>. QED
    BY <1>1, <1>2, FS_Subset
<1>4. IsFiniteSet(S)
  BY <1>3, FS_Subset
<1>5. Cardinality(T) = Cardinality(S) + 1
  <2>. HIDE DEF S
  <2>. QED
    BY <1>2, <1>4, FS_AddElement
<1>6. Cardinality(S) \in Nat /\ Cardinality(Asked(text)) \in Nat /\ Cardinality(T) \in Nat
  BY <1>3, <1>4, FS_CardinalityType
<1>. QED
  BY <1>3, <1>5, <1>6, FetchesAssumption

-----------------------------------------------------------------------------
(* Footnotes without their quotation                                       *)

ButPsLaws == INSTANCE LoopLaws WITH Op <- KeepButPs, Start <- << >>

LEMMA WithoutPsLaw ==
  /\ WithoutPs(<< >>) = << >>
  /\ \A E : \A s \in Seq(E) : \A x \in E :
       WithoutPs(Append(s, x)) = IF IsNamed(x, "ps") THEN WithoutPs(s) ELSE Append(WithoutPs(s), x)
<1>1. Loop(KeepButPs, << >>, << >>) = << >>
  BY ButPsLaws!LoopLaw DEF Loop, ButPsLaws!Loop
<1>2. \A E : \A s \in Seq(E) : \A x \in E :
        Loop(KeepButPs, << >>, Append(s, x)) = KeepButPs(Loop(KeepButPs, << >>, s), x)
  BY ButPsLaws!LoopLaw DEF Loop, ButPsLaws!Loop
<1>. QED
  BY <1>1, <1>2 DEF WithoutPs, KeepButPs, IsNamed

LEMMA PsGone ==
  ASSUME NEW N, NEW V
  PROVE  \A s \in Seq(Params(N, V)) :
           /\ WithoutPs(s) \in Seq(Params(N, V)) /\ WithoutPs(WithoutPs(s)) = WithoutPs(s)
           /\ \A i \in DOMAIN WithoutPs(s) : ~IsNamed(WithoutPs(s)[i], "ps")
<1>. DEFINE T == {s \in Seq(Params(N, V)) :
           /\ WithoutPs(s) \in Seq(Params(N, V)) /\ WithoutPs(WithoutPs(s)) = WithoutPs(s)
           /\ \A i \in DOMAIN WithoutPs(s) : ~IsNamed(WithoutPs(s)[i], "ps")}
<1>1. << >> \in T
  <2>1. WithoutPs(<< >>) = << >> /\ << >> \in Seq(Params(N, V)) /\ DOMAIN << >> = {}
    BY WithoutPsLaw, EmptySeq
  <2>. QED
    BY <2>1
<1>2. ASSUME NEW s \in Seq(Params(N, V)), NEW x \in Params(N, V), s \in T PROVE Append(s, x) \in T
  <2>. DEFINE w == WithoutPs(s)
              t == Append(s, x)
  <2>1. /\ w \in Seq(Params(N, V)) /\ WithoutPs(w) = w /\ t \in Seq(Params(N, V))
        /\ \A i \in DOMAIN w : ~IsNamed(w[i], "ps")
    BY <1>2
  <2>2. WithoutPs(t) = IF IsNamed(x, "ps") THEN w ELSE Append(w, x)
    BY WithoutPsLaw
  <2>. HIDE DEF w, t
  <2>3. CASE IsNamed(x, "ps")
    BY <2>1, <2>2, <2>3 DEF t
  <2>4. CASE ~IsNamed(x, "ps")
    <3>. DEFINE u == Append(w, x)
    <3>1. /\ u \in Seq(Params(N, V)) /\ DOMAIN u = DOMAIN w \cup {Len(w) + 1} /\ u[Len(w) + 1] = x
          /\ \A i \in DOMAIN w : u[i] = w[i]
      BY <2>1
    <3>2. WithoutPs(u) = u
      BY <2>1, <2>4, WithoutPsLaw
    <3>. HIDE DEF u
    <3>3. WithoutPs(t) = u
      BY <2>2, <2>4 DEF u
    <3>4. \A i \in DOMAIN u : ~IsNamed(u[i], "ps")
      BY <2>1, <2>4, <3>1
    <3>5. t \in T
      BY <2>1, <3>1, <3>2, <3>3, <3>4
    <3>. QED
      BY <3>5 DEF t
  <2>. QED
    BY <2>3, <2>4
<1>. HIDE DEF T
<1>3. Seq(Params(N, V)) \subseteq T
  BY <1>1, <1>2, OnceLaws!AllSequences
<1>. QED
  BY <1>3 DEF T

LEMMA SameSequences ==
  ASSUME NEW E, NEW a \in Seq(E), NEW b \in Seq(E), DOMAIN a = DOMAIN b,
         \A i \in DOMAIN a : a[i] = b[i]
  PROVE  a = b
OBVIOUS

LEMMA ReplacedAppend ==
  ASSUME NEW E, NEW s \in Seq(E), NEW x \in E, NEW y \in E
  PROVE  /\ [Append(s, x) EXCEPT ![Len(s) + 1] = y] = Append(s, y)
         /\ \A k \in DOMAIN s : [Append(s, x) EXCEPT ![k] = y] = Append([s EXCEPT ![k] = y], x)
<1>. DEFINE t == Append(s, x)
            n == Len(s)
<1>1. t \in Seq(E) /\ DOMAIN t = (1..n) \cup {n + 1} /\ DOMAIN t = 1..(n + 1) /\ DOMAIN s = 1..n /\ n \in Nat
      /\ t[n + 1] = x /\ \A i \in 1..n : t[i] = s[i]
  OBVIOUS
<1>2. [t EXCEPT ![n + 1] = y] = Append(s, y)
  <2>. DEFINE a == [t EXCEPT ![n + 1] = y]
              b == Append(s, y)
  <2>1. a \in Seq(E) /\ DOMAIN a = 1..(n + 1) /\ \A i \in 1..(n + 1) : a[i] = IF i = n + 1 THEN y ELSE s[i]
    <3>. HIDE DEF t, n
    <3>. QED
      BY <1>1
  <2>2. b \in Seq(E) /\ DOMAIN b = 1..(n + 1) /\ \A i \in 1..(n + 1) : b[i] = IF i = n + 1 THEN y ELSE s[i]
    OBVIOUS
  <2>. HIDE DEF a, b, t, n
  <2>3. DOMAIN a = DOMAIN b /\ \A i \in DOMAIN a : a[i] = b[i]
    BY <2>1, <2>2
  <2>4. a = b
    BY <2>1, <2>2, <2>3, SameSequences
  <2>. QED
    BY <2>4 DEF a, b
<1>3. ASSUME NEW k \in DOMAIN s PROVE [t EXCEPT ![k] = y] = Append([s EXCEPT ![k] = y], x)
  <2>. DEFINE a == [t EXCEPT ![k] = y]
              u == [s EXCEPT ![k] = y]
              b == Append(u, x)
  <2>1. /\ a \in Seq(E) /\ DOMAIN a = 1..(n + 1)
        /\ \A i \in 1..(n + 1) : a[i] = IF i = k THEN y ELSE IF i = n + 1 THEN x ELSE s[i]
    <3>. HIDE DEF t, n
    <3>. QED
      BY <1>1
  <2>2. u \in Seq(E) /\ Len(u) = n /\ \A i \in 1..n : u[i] = IF i = k THEN y ELSE s[i]
    OBVIOUS
  <2>3. /\ b \in Seq(E) /\ DOMAIN b = 1..(n + 1)
        /\ \A i \in 1..(n + 1) : b[i] = IF i = k THEN y ELSE IF i = n + 1 THEN x ELSE s[i]
    <3>. HIDE DEF u, n
    <3>1. /\ b \in Seq(E) /\ DOMAIN b = 1..(n + 1) /\ b[n + 1] = x /\ \A i \in 1..n : b[i] = u[i]
          /\ \A i \in 1..(n + 1) : i \in 1..n \/ i = n + 1
      BY <1>1, <2>2
    <3>2. k \in 1..n /\ n + 1 \notin 1..n
      BY <1>1
    <3>. HIDE DEF b
    <3>. QED
      BY <2>2, <3>1, <3>2
  <2>. HIDE DEF a, b, t, n
  <2>4. DOMAIN a = DOMAIN b /\ \A i \in DOMAIN a : a[i] = b[i]
    BY <2>1, <2>3
  <2>5. a = b
    BY <2>1, <2>3, <2>4, SameSequences
  <2>. QED
    BY <2>5 DEF a, b
<1>. QED
  BY <1>2, <1>3

\* Another quotation leaves the rest.
LEMMA PsReplaced ==
  ASSUME NEW N, NEW V, NEW y \in Params(N, V), IsNamed(y, "ps")
  PROVE  \A s \in Seq(Params(N, V)) : \A k \in DOMAIN s :
           IsNamed(s[k], "ps") => WithoutPs([s EXCEPT ![k] = y]) = WithoutPs(s)
<1>. DEFINE P == Params(N, V)
            T == {s \in Seq(P) : \A k \in DOMAIN s :
                    IsNamed(s[k], "ps") => WithoutPs([s EXCEPT ![k] = y]) = WithoutPs(s)}
<1>0. y \in P
  OBVIOUS
<1>. HIDE DEF P
<1>1. << >> \in T
  BY EmptySeq
<1>2. ASSUME NEW s \in Seq(P), NEW x \in P, s \in T PROVE Append(s, x) \in T
  <2>. DEFINE t == Append(s, x)
  <2>1. t \in Seq(P) /\ DOMAIN t = DOMAIN s \cup {Len(s) + 1} /\ t[Len(s) + 1] = x /\ Len(s) \in Nat
        /\ Len(s) + 1 \notin DOMAIN s /\ \A i \in DOMAIN s : t[i] = s[i]
    OBVIOUS
  <2>2. WithoutPs(t) = IF IsNamed(x, "ps") THEN WithoutPs(s) ELSE Append(WithoutPs(s), x)
    BY WithoutPsLaw
  <2>3. ASSUME NEW k \in DOMAIN t, IsNamed(t[k], "ps") PROVE WithoutPs([t EXCEPT ![k] = y]) = WithoutPs(t)
    <3>1. CASE k = Len(s) + 1
      <4>1. [t EXCEPT ![k] = y] = Append(s, y)
        BY <1>0, <3>1, ReplacedAppend
      <4>2. WithoutPs(Append(s, y)) = WithoutPs(s)
        BY <1>0, WithoutPsLaw
      <4>3. IsNamed(x, "ps")
        BY <2>1, <2>3, <3>1
      <4>. QED
        BY <2>2, <4>1, <4>2, <4>3
    <3>2. CASE k \in DOMAIN s
      <4>. DEFINE u == [s EXCEPT ![k] = y]
      <4>1. u \in Seq(P)
        BY <1>0, <3>2
      <4>2. [t EXCEPT ![k] = y] = Append(u, x)
        BY <1>0, <3>2, ReplacedAppend
      <4>3. WithoutPs(u) = WithoutPs(s)
        <5>1. IsNamed(s[k], "ps")
          BY <2>1, <2>3, <3>2
        <5>. QED
          BY <1>2, <3>2, <5>1
      <4>. HIDE DEF u
      <4>4. WithoutPs(Append(u, x)) = IF IsNamed(x, "ps") THEN WithoutPs(u) ELSE Append(WithoutPs(u), x)
        BY <4>1, WithoutPsLaw
      <4>. QED
        BY <2>2, <4>2, <4>3, <4>4
    <3>. QED
      BY <2>1, <3>1, <3>2
  <2>4. t \in T
    BY <2>1, <2>3
  <2>. QED
    BY <2>4
<1>. HIDE DEF T
<1>3. Seq(P) \subseteq T
  BY <1>1, <1>2, OnceLaws!AllSequences
<1>. QED
  BY <1>3 DEF T, P

-----------------------------------------------------------------------------
(* Pages of footnotes                                                      *)

\* The names and pages of a footnote are as FixPages leaves them.
Paged(s) == \A i \in DOMAIN s : FixPage(s[i], Place(s, i)) = s[i]

One(x) == IF x.name = "" THEN 1 ELSE 0

LEMMA PlaceNat ==
  ASSUME NEW s, NEW i \in Nat
  PROVE  Place(s, i) \in Nat
<1>1. IsFiniteSet(1..i)
  BY FS_Interval
<1>. DEFINE S == {j \in 1..i : s[j].name = ""}
<1>2. IsFiniteSet(S) /\ Cardinality(S) \in Nat
  BY <1>1, FS_Subset, FS_CardinalityType
<1>. QED
  BY <1>2 DEF Place

LEMMA PlaceLaw ==
  ASSUME NEW E, NEW s \in Seq(E), NEW x \in E, NEW t, t = Append(s, x)
  PROVE  /\ \A i \in 0..Len(s) : Place(t, i) = Place(s, i)
         /\ Place(t, Len(t)) = Place(s, Len(s)) + One(x)
         /\ Place(s, Len(s)) \in Nat
<1>. DEFINE n == Len(s)
            S == {j \in 1..n : s[j].name = ""}
            T == {j \in 1..(n + 1) : t[j].name = ""}
<1>1. n \in Nat /\ Len(t) = n + 1 /\ t[n + 1] = x /\ \A j \in 1..n : t[j] = s[j]
  OBVIOUS
<1>. HIDE DEF n
<1>2. \A i \in 0..n : Place(t, i) = Place(s, i)
  <2>. SUFFICES ASSUME NEW i \in 0..n PROVE Place(t, i) = Place(s, i)
    OBVIOUS
  <2>1. \A j \in 1..i : t[j] = s[j]
    BY <1>1
  <2>. QED
    BY <2>1 DEF Place
<1>3. Place(s, n) = Cardinality(S) /\ Place(t, n + 1) = Cardinality(T)
  BY DEF Place
<1>4. IsFiniteSet(S) /\ Cardinality(S) \in Nat
  <2>1. IsFiniteSet(1..n)
    BY <1>1, FS_Interval
  <2>. QED
    BY <2>1, FS_Subset, FS_CardinalityType
<1>5. n + 1 \notin S /\ (x.name = "" => T = S \cup {n + 1}) /\ (x.name # "" => T = S)
  <2>1. 1..(n + 1) = (1..n) \cup {n + 1} /\ n + 1 \notin 1..n
    BY <1>1
  <2>2. \A j : j \in T <=> j \in S \/ (j = n + 1 /\ x.name = "")
    BY <1>1, <2>1
  <2>. HIDE DEF T
  <2>3. x.name = "" => T = S \cup {n + 1}
    BY <2>2
  <2>4. x.name # "" => T = S
    BY <2>2
  <2>. QED
    BY <2>1, <2>3, <2>4
<1>. HIDE DEF S, T
<1>6. Cardinality(S \cup {n + 1}) = Cardinality(S) + 1
  BY <1>4, <1>5, FS_AddElement
<1>7. Cardinality(T) = Cardinality(S) + One(x)
  <2>1. CASE x.name = ""
    BY <1>5, <1>6, <2>1 DEF One
  <2>2. CASE x.name # ""
    <3>1. T = S /\ One(x) = 0
      BY <1>5, <2>2 DEF One
    <3>. QED
      BY <1>4, <3>1
  <2>. QED
    BY <2>1, <2>2
<1>. QED
  BY <1>1, <1>2, <1>3, <1>4, <1>7 DEF n

\* Where the names are the same, so are the places.
LEMMA SamePlace ==
  ASSUME NEW s, NEW t, NEW i, \A j \in 1..i : (s[j].name = "" <=> t[j].name = "")
  PROVE  Place(s, i) = Place(t, i)
BY DEF Place

LEMMA PagedLaw ==
  ASSUME NEW E, NEW s \in Seq(E), NEW x \in E, NEW t, t = Append(s, x)
  PROVE  Paged(t) <=> Paged(s) /\ FixPage(x, Place(s, Len(s)) + One(x)) = x
<1>. DEFINE n == Len(s)
<1>1. /\ n \in Nat /\ Len(t) = n + 1 /\ t[n + 1] = x /\ \A j \in 1..n : t[j] = s[j]
      /\ DOMAIN t = (1..n) \cup {n + 1} /\ DOMAIN s = 1..n
  OBVIOUS
<1>2. /\ \A i \in 0..n : Place(t, i) = Place(s, i)
      /\ Place(t, Len(t)) = Place(s, n) + One(x)
  BY PlaceLaw
<1>. HIDE DEF n
<1>3. \A i \in 1..n : i \in 0..n
  BY <1>1
<1>4. \A i \in 1..n : FixPage(t[i], Place(t, i)) = t[i] <=> FixPage(s[i], Place(s, i)) = s[i]
  BY <1>1, <1>2, <1>3
<1>5. Paged(t) <=> /\ \A i \in 1..n : FixPage(t[i], Place(t, i)) = t[i]
                   /\ FixPage(t[n + 1], Place(t, n + 1)) = t[n + 1]
  BY <1>1 DEF Paged
<1>6. Paged(s) <=> \A i \in 1..n : FixPage(s[i], Place(s, i)) = s[i]
  BY <1>1 DEF Paged
<1>7. Paged(t) <=> Paged(s) /\ FixPage(x, Place(s, n) + One(x)) = x
  BY <1>1, <1>2, <1>4, <1>5, <1>6
<1>. QED
  BY <1>7 DEF n

LEMMA PageNames ==
  /\ PageName("ps") = "ps"
  /\ \A name : PageName(PageName(name)) = PageName(name)
  /\ \A name : name # "" => PageName(name) # ""
  /\ \A M : \A name \in M : PageName(name) \in M \cup KnownNames
<1>1. \A name : PageName(name) = IF name \in {"f", "fq", "faqe", "page"} THEN "p"
                                 ELSE IF name \in {"ff", "faqet", "pages"} THEN "pp" ELSE name
  BY DEF PageName
<1>. QED
  BY <1>1 DEF KnownNames

LEMMA PsPaged ==
  ASSUME NEW N, NEW V, NEW p \in Params(N, V), IsNamed(p, "ps"), NEW n
  PROVE  FixPage(p, n) = p
<1>1. p.name = "ps" /\ p.num = 0 /\ [p EXCEPT !.name = p.name] = p
  BY DEF IsNamed, Params
<1>. QED
  BY <1>1, PageNames DEF FixPage

\* A footnote that loses its quotation keeps its pages.
LEMMA PagedWithoutPs ==
  ASSUME NEW N, NEW V
  PROVE  \A s \in Seq(Params(N, V)) : Paged(s) => Paged(WithoutPs(s))
<1>. DEFINE P == Params(N, V)
            T == {s \in Seq(P) : /\ Place(WithoutPs(s), Len(WithoutPs(s))) = Place(s, Len(s))
                                 /\ Paged(s) => Paged(WithoutPs(s))}
<1>1. << >> \in T
  BY WithoutPsLaw, EmptySeq
<1>2. ASSUME NEW s \in Seq(P), NEW x \in P, s \in T PROVE Append(s, x) \in T
  <2>. DEFINE w == WithoutPs(s)
              t == Append(s, x)
              v == Append(w, x)
  <2>1. w \in Seq(P) /\ t \in Seq(P)
    BY PsGone
  <2>2. Place(w, Len(w)) = Place(s, Len(s)) /\ (Paged(s) => Paged(w))
    BY <1>2
  <2>3. WithoutPs(t) = IF IsNamed(x, "ps") THEN w ELSE v
    BY WithoutPsLaw
  <2>0. t = Append(s, x) /\ v = Append(w, x)
    OBVIOUS
  <2>. HIDE DEF w, t, v, P
  <2>4. /\ Place(t, Len(t)) = Place(s, Len(s)) + One(x) /\ Place(s, Len(s)) \in Nat
        /\ Paged(t) <=> (Paged(s) /\ FixPage(x, Place(s, Len(s)) + One(x)) = x)
    BY <2>0, PlaceLaw, PagedLaw
  <2>5. /\ Place(v, Len(v)) = Place(w, Len(w)) + One(x)
        /\ Paged(v) <=> (Paged(w) /\ FixPage(x, Place(w, Len(w)) + One(x)) = x)
    BY <2>0, <2>1, PlaceLaw, PagedLaw
  <2>6. IsNamed(x, "ps") => One(x) = 0
    BY DEF IsNamed, One
  <2>7. Place(WithoutPs(t), Len(WithoutPs(t))) = Place(t, Len(t))
    BY <2>2, <2>3, <2>4, <2>5, <2>6
  <2>8. Paged(t) => Paged(WithoutPs(t))
    BY <2>2, <2>3, <2>4, <2>5
  <2>9. t \in T
    BY <2>1, <2>7, <2>8
  <2>. QED
    BY <2>9 DEF t
<1>. HIDE DEF T
<1>3. Seq(P) \subseteq T
  <2>. HIDE DEF P
  <2>. QED
    BY <1>1, <1>2, OnceLaws!AllSequences
<1>. QED
  BY <1>3 DEF T

\* What values may be once pages are no longer marked.
Unmarked(V) == V \cup {[v EXCEPT !.marked = FALSE] : v \in V}

\* A parameter is left without a name only where it is left as it was; one
\* with a name stays.
PageFixed(p, n, q) ==
  /\ q.name = "" => (p.name = "" /\ q = p /\ ~(n > 2 /\ p.value.marked))
  /\ q.name # "" => (\A m : FixPage(q, m) = q)

LEMMA FixPageKeeps ==
  ASSUME NEW N, NEW V, NEW p \in Params(N, V), NEW n \in Nat, NEW q, q = FixPage(p, n)
  PROVE  q \in Params(N, Unmarked(V)) /\ PageFixed(p, n, q)
<1>. USE DEF PageFixed
<1>1. p.name \in N \cup KnownNames /\ p.num \in Nat /\ p.value \in V /\ p \in Params(N, Unmarked(V))
  BY DEF Params, Unmarked
<1>2. CASE p.name # "" /\ p.num = 0
  <2>1. q = [p EXCEPT !.name = PageName(p.name)]
    BY <1>2 DEF FixPage
  <2>2. PageName(p.name) \in N \cup KnownNames /\ PageName(p.name) # ""
    <3>1. PageName(p.name) \in (N \cup KnownNames) \cup KnownNames
      BY <1>1, PageNames
    <3>. QED
      BY <1>2, <3>1, PageNames
  <2>3. q \in Params(N, Unmarked(V)) /\ q.name = PageName(p.name) /\ q.num = 0
    BY <1>1, <1>2, <2>1, <2>2 DEF Params
  <2>4. [q EXCEPT !.name = q.name] = q
    BY <2>3 DEF Params
  <2>5. \A m : FixPage(q, m) = [q EXCEPT !.name = PageName(q.name)]
    BY <2>2, <2>3 DEF FixPage
  <2>6. PageName(q.name) = q.name
    BY <2>3, PageNames
  <2>. QED
    BY <2>2, <2>3, <2>4, <2>5, <2>6
<1>3. CASE p.name # "" /\ p.num # 0
  BY <1>1, <1>3 DEF FixPage
<1>4. CASE p.name = "" /\ n > 2 /\ p.value.marked
  <2>. DEFINE name == IF p.value.page = "many" THEN "pp" ELSE "p"
              value == [p.value EXCEPT !.marked = FALSE]
  <2>1. q = [p EXCEPT !.name = name, !.value = value]
    BY <1>4 DEF FixPage
  <2>2. name \in KnownNames /\ value \in Unmarked(V) /\ name # "" /\ PageName(name) = name
    <3>1. \A s : PageName(s) = IF s \in {"f", "fq", "faqe", "page"} THEN "p"
                               ELSE IF s \in {"ff", "faqet", "pages"} THEN "pp" ELSE s
      BY DEF PageName
    <3>2. PageName("p") = "p" /\ PageName("pp") = "pp"
      BY <3>1
    <3>. QED
      BY <1>1, <3>2 DEF KnownNames, Unmarked
  <2>. HIDE DEF name, value
  <2>3. q \in Params(N, Unmarked(V)) /\ q.name = name
    BY <1>1, <2>1, <2>2 DEF Params
  <2>4. [q EXCEPT !.name = q.name] = q
    BY <2>3 DEF Params
  <2>5. \A m : FixPage(q, m) = IF q.num = 0 THEN [q EXCEPT !.name = PageName(q.name)] ELSE q
    BY <2>2, <2>3 DEF FixPage
  <2>. QED
    BY <2>2, <2>3, <2>4, <2>5
<1>5. CASE p.name = "" /\ ~(n > 2 /\ p.value.marked)
  BY <1>1, <1>5 DEF FixPage
<1>. QED
  BY <1>2, <1>3, <1>4, <1>5

LEMMA PagesFixed ==
  ASSUME NEW N, NEW V, NEW s \in Seq(Params(N, V))
  PROVE  FixPages(s) \in Seq(Params(N, Unmarked(V))) /\ Paged(FixPages(s))
<1>. DEFINE t == FixPages(s)
<1>1. t = [i \in DOMAIN s |-> FixPage(s[i], Place(s, i))] /\ DOMAIN t = DOMAIN s /\ DOMAIN s = 1..Len(s)
      /\ Len(s) \in Nat
  BY DEF FixPages
<1>2. ASSUME NEW i \in DOMAIN s
      PROVE  /\ t[i] = FixPage(s[i], Place(s, i)) /\ t[i] \in Params(N, Unmarked(V))
             /\ PageFixed(s[i], Place(s, i), t[i])
  <2>1. s[i] \in Params(N, V) /\ t[i] = FixPage(s[i], Place(s, i))
    BY <1>1
  <2>. HIDE DEF t
  <2>. DEFINE x == s[i]
              k == Place(s, i)
              y == t[i]
  <2>2. x \in Params(N, V) /\ y = FixPage(x, k) /\ k \in Nat
    <3>1. k \in Nat
      BY <1>1, PlaceNat
    <3>. QED
      BY <2>1, <3>1
  <2>. HIDE DEF x, k, y
  <2>3. y \in Params(N, Unmarked(V))
    BY <2>2, FixPageKeeps
  <2>4. PageFixed(x, k, y)
    BY <2>2, FixPageKeeps
  <2>. QED
    BY <2>2, <2>3, <2>4 DEF x, k, y
<1>. HIDE DEF t
<1>3. t \in Seq(Params(N, Unmarked(V)))
  <2>. DEFINE W == Params(N, Unmarked(V))
  <2>1. \A i \in 1..Len(s) : t[i] \in W
    BY <1>1, <1>2
  <2>2. t = [i \in 1..Len(s) |-> t[i]]
    BY <1>1
  <2>. HIDE DEF W
  <2>3. t \in [1..Len(s) -> W]
    BY <2>1, <2>2
  <2>4. t \in Seq(W)
    BY <1>1, <2>3
  <2>. QED
    BY <2>4 DEF W
<1>4. ASSUME NEW i \in DOMAIN s, t[i].name = "" PROVE FixPage(t[i], Place(t, i)) = t[i]
  <2>. DEFINE S == {j \in 1..i : s[j].name = ""}
              T == {j \in 1..i : t[j].name = ""}
  <2>1. T \subseteq S
    <3>1. \A j \in 1..i : j \in DOMAIN s
      BY <1>1
    <3>. QED
      BY <1>2, <3>1 DEF PageFixed
  <2>2. IsFiniteSet(S)
    <3>1. i \in Int /\ 1 \in Int
      BY <1>1
    <3>2. IsFiniteSet(1..i)
      BY <3>1, FS_Interval
    <3>. QED
      BY <3>2, FS_Subset
  <2>3. Place(s, i) = Cardinality(S) /\ Place(t, i) = Cardinality(T)
    BY DEF Place
  <2>. HIDE DEF S, T
  <2>4. Cardinality(T) <= Cardinality(S) /\ Cardinality(S) \in Nat /\ Cardinality(T) \in Nat
    BY <2>1, <2>2, FS_Subset, FS_CardinalityType
  <2>5. ~(Place(t, i) > 2 /\ t[i].value.marked)
    <3>1. s[i].name = "" /\ t[i] = s[i] /\ ~(Place(s, i) > 2 /\ s[i].value.marked)
      BY <1>2, <1>4 DEF PageFixed
    <3>2. Place(t, i) > 2 => Place(s, i) > 2
      BY <2>3, <2>4
    <3>. QED
      BY <3>1, <3>2
  <2>. QED
    BY <1>4, <2>5 DEF FixPage
<1>5. Paged(t)
  <2>1. ASSUME NEW i \in DOMAIN s, t[i].name # "" PROVE FixPage(t[i], Place(t, i)) = t[i]
    BY <1>2, <2>1 DEF PageFixed
  <2>. QED
    BY <1>1, <1>4, <2>1 DEF Paged
<1>. QED
  BY <1>3, <1>5 DEF t

-----------------------------------------------------------------------------
(* The quotation of a footnote                                             *)

\* A footnote that is given a quotation has it, once and for all, and is
\* otherwise as it was.
LEMMA PsGiven ==
  ASSUME NEW N, NEW V, NEW s \in Seq(Params(N, V)), NEW v \in V, NEW w, w = WithPs(s, v)
  PROVE  /\ w \in Seq(Params(N, V)) /\ WithoutPs(w) = WithoutPs(s) /\ ValueOf(w, "ps") = v
         /\ WithPs(w, v) = w /\ (Paged(s) => Paged(w))
<1>. DEFINE P == Params(N, V)
            p == Param("ps", v)
            k == Max(Named(s, "ps"))
<1>1. p \in P /\ IsNamed(p, "ps") /\ p.value = v
  BY DEF Param, Params, KnownNames, IsNamed
<1>2. s \in Seq(P) /\ Len(s) \in Nat /\ DOMAIN s = 1..Len(s)
  OBVIOUS
<1>3. \A t : \A i : i \in Named(t, "ps") <=> i \in DOMAIN t /\ IsNamed(t[i], "ps")
  BY DEF Named, IsNamed
<1>4. CASE Named(s, "ps") = {}
  <2>1. w = Append(s, p)
    BY <1>4 DEF WithPs
  <2>. DEFINE n == Len(s) + 1
  <2>2. /\ w \in Seq(P) /\ DOMAIN w = DOMAIN s \cup {n} /\ n \notin DOMAIN s /\ w[n] = p
        /\ \A i \in DOMAIN s : w[i] = s[i]
    <3>. HIDE DEF p, P
    <3>. QED
      BY <1>1, <1>2, <2>1
  <2>3. WithoutPs(w) = WithoutPs(s)
    <3>. HIDE DEF p, P
    <3>. QED
      BY <1>1, <1>2, <2>1, WithoutPsLaw
  <2>4. Named(w, "ps") = {n}
    <3>. HIDE DEF p, P, n
    <3>1. \A i : i \in Named(w, "ps") <=> i = n
      BY <1>1, <1>3, <1>4, <2>2
    <3>. QED
      BY <3>1
  <2>5. w[Max(Named(w, "ps"))] = p
    <3>1. Max(Named(w, "ps")) \in Named(w, "ps")
      BY <2>2, <2>4, NamedBound
    <3>. QED
      BY <2>2, <2>4, <3>1
  <2>6. ValueOf(w, "ps") = v
    BY <1>1, <2>4, <2>5 DEF ValueOf
  <2>7. WithPs(w, v) = w
    <3>. DEFINE m == Max(Named(w, "ps"))
    <3>1. WithPs(w, v) = [w EXCEPT ![m] = [w[m] EXCEPT !.value = v]]
      BY <2>4 DEF WithPs
    <3>2. m \in DOMAIN w
      BY <2>2, <2>4, NamedBound
    <3>3. [p EXCEPT !.value = v] = p
      BY DEF Param
    <3>. HIDE DEF m, p, P
    <3>4. [w[m] EXCEPT !.value = v] = w[m]
      BY <2>5, <3>3 DEF m
    <3>. QED
      BY <2>2, <3>1, <3>2, <3>4
  <2>8. Paged(s) => Paged(w)
    <3>1. FixPage(p, Place(s, Len(s)) + One(p)) = p
      BY <1>1, PsPaged
    <3>. HIDE DEF p
    <3>. QED
      BY <1>1, <2>1, <3>1, PagedLaw
  <2>. QED
    BY <2>2, <2>3, <2>6, <2>7, <2>8
<1>5. CASE Named(s, "ps") # {}
  <2>1. k \in Named(s, "ps") /\ k \in DOMAIN s /\ IsNamed(s[k], "ps") /\ s[k] \in P
    <3>1. k \in Named(s, "ps")
      BY <1>5, NamedBound
    <3>2. k \in DOMAIN s /\ IsNamed(s[k], "ps")
      BY <1>3, <3>1
    <3>. QED
      BY <3>1, <3>2
  <2>. DEFINE y == [s[k] EXCEPT !.value = v]
  <2>2. w = [s EXCEPT ![k] = y]
    BY <1>5 DEF WithPs
  <2>3. y \in P /\ IsNamed(y, "ps") /\ y.value = v /\ y.name = s[k].name /\ [y EXCEPT !.value = v] = y
    BY <2>1 DEF Params, IsNamed
  <2>. HIDE DEF y, k
  <2>4. /\ w \in Seq(P) /\ DOMAIN w = DOMAIN s /\ w[k] = y
        /\ \A i \in DOMAIN s : i # k => w[i] = s[i]
    <3>. HIDE DEF P
    <3>. QED
      BY <1>2, <2>1, <2>2, <2>3, OneReplaced
  <2>5. WithoutPs(w) = WithoutPs(s)
    <3>1. \A t \in Seq(P) : \A j \in DOMAIN t :
            IsNamed(t[j], "ps") => WithoutPs([t EXCEPT ![j] = y]) = WithoutPs(t)
      BY <2>3, PsReplaced
    <3>2. WithoutPs([s EXCEPT ![k] = y]) = WithoutPs(s)
      <4>. HIDE DEF P
      <4>. QED
        BY <1>2, <2>1, <3>1
    <3>. QED
      BY <2>2, <3>2
  <2>6. Named(w, "ps") = Named(s, "ps")
    <3>1. \A i \in DOMAIN s : IsNamed(w[i], "ps") <=> IsNamed(s[i], "ps")
      BY <2>1, <2>3, <2>4
    <3>2. \A i : i \in Named(w, "ps") <=> i \in Named(s, "ps")
      BY <1>3, <2>4, <3>1
    <3>3. Named(w, "ps") \subseteq DOMAIN w /\ Named(s, "ps") \subseteq DOMAIN s
      BY DEF Named
    <3>. QED
      BY <3>2, <3>3
  <2>7. Max(Named(w, "ps")) = k
    BY <2>6 DEF k
  <2>8. ValueOf(w, "ps") = v
    BY <1>5, <2>3, <2>4, <2>6, <2>7 DEF ValueOf
  <2>9. WithPs(w, v) = w
    <3>1. WithPs(w, v) = [w EXCEPT ![k] = [w[k] EXCEPT !.value = v]]
      BY <1>5, <2>6, <2>7 DEF WithPs
    <3>2. [w[k] EXCEPT !.value = v] = w[k]
      BY <2>3, <2>4
    <3>. HIDE DEF P
    <3>. QED
      BY <2>1, <2>4, <3>1, <3>2
  <2>10. ASSUME Paged(s) PROVE Paged(w)
    <3>1. \A i \in DOMAIN s : w[i].name = s[i].name
      BY <2>3, <2>4
    <3>2. \A i \in DOMAIN s : Place(w, i) = Place(s, i)
      <4>. SUFFICES ASSUME NEW i \in DOMAIN s PROVE Place(w, i) = Place(s, i)
        OBVIOUS
      <4>1. \A j \in 1..i : j \in DOMAIN s
        BY <1>2
      <4>2. \A j \in 1..i : w[j].name = "" <=> s[j].name = ""
        BY <3>1, <4>1
      <4>. QED
        BY <4>2, SamePlace
    <3>3. FixPage(y, Place(w, k)) = y
      BY <2>3, PsPaged
    <3>4. \A i \in DOMAIN s : FixPage(w[i], Place(w, i)) = w[i]
      BY <2>4, <2>10, <3>2, <3>3 DEF Paged
    <3>. QED
      BY <2>4, <3>4 DEF Paged
  <2>. QED
    BY <2>4, <2>5, <2>8, <2>9, <2>10
<1>. QED
  BY <1>4, <1>5

LEMMA NoPs ==
  ASSUME NEW N, NEW V, NEW s \in Seq(Params(N, V)), NEW w, w = WithoutPs(s)
  PROVE  /\ w \in Seq(Params(N, V)) /\ WithoutPs(w) = w /\ (Paged(s) => Paged(w))
         /\ ValueOf(w, "ps") = Nothing /\ ~Given(w, "ps")
<1>1. /\ w \in Seq(Params(N, V)) /\ WithoutPs(w) = w
      /\ \A i \in DOMAIN w : ~IsNamed(w[i], "ps")
  BY PsGone
<1>2. Named(w, "ps") = {}
  BY <1>1 DEF Named, IsNamed
<1>3. Paged(s) => Paged(w)
  BY PagedWithoutPs
<1>. QED
  BY <1>1, <1>2, <1>3 DEF ValueOf, Given

-----------------------------------------------------------------------------
(* Footnotes that are alike                                                *)

Footnote(text, i) == i \in DOMAIN text /\ text[i].kind \in Footnotes

\* The values of quotations agree, given or not.
LEMMA QuotedValue ==
  ASSUME NEW N, NEW V, NEW c \in Calls(N, V)
  PROVE  Quotation(c).value = ValueOf(c.params, "ps")
<1>1. c.params \in Seq(Params(N, V))
  BY CallFields
<1>2. ~Given(c.params, "ps") => ValueOf(c.params, "ps") = Nothing
  BY <1>1, NothingGiven
<1>. QED
  BY <1>2 DEF Quotation

LEMMA FirstNote ==
  ASSUME NEW N, NEW V, NEW text \in Seq(Calls(N, V)), NEW i, Footnote(text, i)
  PROVE  /\ i \in SameNote(text, i) /\ Footnote(text, Min(SameNote(text, i)))
         /\ Min(SameNote(text, i)) \in SameNote(text, i)
         /\ \A j \in SameNote(text, i) : Footnote(text, j) /\ SameNote(text, j) = SameNote(text, i)
<1>1. i \in SameNote(text, i)
  BY DEF SameNote, Footnote
<1>2. \A j \in SameNote(text, i) : Footnote(text, j) /\ SameNote(text, j) = SameNote(text, i)
  BY DEF SameNote, Footnote
<1>3. SameNote(text, i) \in SUBSET Nat
  BY DEF SameNote
<1>4. Min(SameNote(text, i)) \in SameNote(text, i)
  BY <1>1, <1>3, SmallestOf
<1>. QED
  BY <1>1, <1>2, <1>4

\* A footnote that is reconciled is otherwise what it was.
LEMMA ReconcileKeeps ==
  ASSUME NEW N, NEW V, Nothing \in V, NEW text \in Seq(Calls(N, V)), NEW i, Footnote(text, i),
         NEW c, c = Reconcile(text, i), NEW ps, ps = Quotation(text[Min(SameNote(text, i))])
  PROVE  /\ c \in Calls(N, V) /\ c.kind = text[i].kind /\ c.ref = text[i].ref
         /\ Identity(c) = Identity(text[i]) /\ (Paged(text[i].params) => Paged(c.params))
         /\ ValueOf(c.params, "ps") = ps.value
         /\ \/ Quotation(c) = ps
            \/ ps.given /\ [c EXCEPT !.params = WithPs(@, ps.value)] = c
         /\ Quotation(text[i]) = ps => c = text[i]
<1>. DEFINE first == text[Min(SameNote(text, i))]
            s == text[i].params
<1>1. text[i] \in Calls(N, V) /\ first \in Calls(N, V)
  BY FirstNote DEF Footnote
<1>2. s \in Seq(Params(N, V)) /\ first.params \in Seq(Params(N, V))
  BY <1>1, CallFields
<1>3. /\ ps.value \in V /\ (~ps.given => ps.value = Nothing)
      /\ ps = [given |-> ps.given, value |-> ps.value] /\ ps.given \in BOOLEAN
  <2>1. ValueOf(first.params, "ps") \in V \cup {Nothing}
    BY <1>2, NothingGiven
  <2>. HIDE DEF first
  <2>2. ps = Quotation(first)
    BY DEF first
  <2>3. ps.given \in BOOLEAN
    BY <2>2 DEF Quotation, Given
  <2>. QED
    BY <2>1, <2>2, <2>3 DEF Quotation
<1>4. c = IF Quotation(text[i]) = ps THEN text[i]
          ELSE IF ps.given THEN [text[i] EXCEPT !.params = WithPs(s, ps.value)]
          ELSE [text[i] EXCEPT !.params = WithoutPs(s)]
  BY DEF Reconcile
<1>. HIDE DEF first
<1>5. CASE Quotation(text[i]) = ps
  <2>1. ValueOf(text[i].params, "ps") = Quotation(text[i]).value
    BY <1>1, QuotedValue
  <2>. QED
    BY <1>1, <1>4, <1>5, <2>1
<1>6. CASE Quotation(text[i]) # ps /\ ps.given
  <2>. DEFINE w == WithPs(s, ps.value)
  <2>1. /\ w \in Seq(Params(N, V)) /\ WithoutPs(w) = WithoutPs(s) /\ ValueOf(w, "ps") = ps.value
        /\ WithPs(w, ps.value) = w /\ (Paged(s) => Paged(w))
    BY SMTT(30), <1>2, <1>3, PsGiven
  <2>. HIDE DEF w, s
  <2>2. c = [text[i] EXCEPT !.params = w]
    BY <1>4, <1>6 DEF w
  <2>3. c \in Calls(N, V) /\ c.params = w /\ c.kind = text[i].kind /\ c.ref = text[i].ref
    BY <1>1, <2>1, <2>2, OtherParams
  <2>4. [c EXCEPT !.params = WithPs(@, ps.value)] = c
    BY <2>1, <2>3, CallFields
  <2>. QED
    BY <1>6, <2>1, <2>3, <2>4 DEF Identity, s
<1>7. CASE Quotation(text[i]) # ps /\ ~ps.given
  <2>. DEFINE w == WithoutPs(s)
  <2>1. /\ w \in Seq(Params(N, V)) /\ WithoutPs(w) = w /\ (Paged(s) => Paged(w))
        /\ ValueOf(w, "ps") = Nothing /\ ~Given(w, "ps")
    BY <1>2, NoPs
  <2>2. c = [text[i] EXCEPT !.params = w]
    BY <1>4, <1>7
  <2>. HIDE DEF w
  <2>3. c \in Calls(N, V) /\ c.params = w /\ c.kind = text[i].kind /\ c.ref = text[i].ref
    BY <1>1, <2>1, <2>2, OtherParams
  <2>4. Quotation(c) = ps
    <3>1. ps.given = FALSE /\ ps = [given |-> FALSE, value |-> Nothing]
      BY <1>3, <1>7
    <3>2. Given(c.params, "ps") = FALSE
      BY <2>1, <2>3 DEF Given
    <3>3. Quotation(c) = [given |-> FALSE, value |-> Nothing]
      BY <3>2, Zenon DEF Quotation
    <3>. QED
      BY <3>1, <3>3
  <2>5. Identity(c) = Identity(text[i])
    BY <2>1, <2>3 DEF Identity, w
  <2>. QED
    BY <1>3, <1>7, <2>1, <2>3, <2>4, <2>5
<1>. QED
  BY <1>5, <1>6, <1>7

\* Footnotes that are alike have the quotation of the first, and are not
\* reconciled twice.
LEMMA DedupedText ==
  ASSUME NEW N, NEW V, Nothing \in V, NEW text \in Seq(Calls(N, V)), NEW d, d = DedupeFootnotes(text)
  PROVE  /\ d \in Seq(Calls(N, V)) /\ DOMAIN d = DOMAIN text
         /\ \A i \in DOMAIN text :
              /\ d[i].kind = text[i].kind /\ d[i].ref = text[i].ref
              /\ text[i].kind \notin Footnotes => d[i] = text[i]
              /\ Paged(text[i].params) => Paged(d[i].params)
         /\ \A i : Footnote(text, i) =>
              /\ Reconcile(d, i) = d[i]
              /\ \A j \in SameNote(d, i) : ValueOf(d[i].params, "ps") = ValueOf(d[j].params, "ps")
<1>. DEFINE first(i) == Min(SameNote(text, i))
            ps(i) == Quotation(text[first(i)])
<1>1. DOMAIN d = DOMAIN text
      /\ \A i \in DOMAIN text : d[i] = IF text[i].kind \in Footnotes THEN Reconcile(text, i) ELSE text[i]
  BY DEF DedupeFootnotes
<1>2. ASSUME NEW i, Footnote(text, i)
      PROVE  /\ d[i] = Reconcile(text, i) /\ d[i] \in Calls(N, V)
             /\ d[i].kind = text[i].kind /\ d[i].ref = text[i].ref
             /\ Identity(d[i]) = Identity(text[i]) /\ (Paged(text[i].params) => Paged(d[i].params))
             /\ ValueOf(d[i].params, "ps") = ps(i).value
             /\ \/ Quotation(d[i]) = ps(i)
                \/ ps(i).given /\ [d[i] EXCEPT !.params = WithPs(@, ps(i).value)] = d[i]
             /\ Quotation(text[i]) = ps(i) => d[i] = text[i]
  <2>1. d[i] = Reconcile(text, i)
    BY <1>1, <1>2 DEF Footnote
  <2>. DEFINE c == d[i]
              q == ps(i)
  <2>2. c = Reconcile(text, i) /\ q = Quotation(text[Min(SameNote(text, i))])
    BY <2>1
  <2>. HIDE DEF c, q
  <2>3. /\ c \in Calls(N, V) /\ c.kind = text[i].kind /\ c.ref = text[i].ref
        /\ Identity(c) = Identity(text[i]) /\ (Paged(text[i].params) => Paged(c.params))
        /\ ValueOf(c.params, "ps") = q.value
        /\ \/ Quotation(c) = q
           \/ q.given /\ [c EXCEPT !.params = WithPs(@, q.value)] = c
        /\ Quotation(text[i]) = q => c = text[i]
    BY <1>2, <2>2, ReconcileKeeps
  <2>. QED
    BY <2>2, <2>3 DEF c, q
<1>3. ASSUME NEW i \in DOMAIN text
      PROVE  /\ d[i] \in Calls(N, V) /\ d[i].kind = text[i].kind /\ d[i].ref = text[i].ref
             /\ text[i].kind \notin Footnotes => d[i] = text[i]
             /\ Paged(text[i].params) => Paged(d[i].params)
  <2>1. CASE text[i].kind \in Footnotes
    BY <1>2, <2>1 DEF Footnote
  <2>2. CASE text[i].kind \notin Footnotes
    BY <1>1, <2>2
  <2>. QED
    BY <2>1, <2>2
<1>4. d \in Seq(Calls(N, V))
  <2>1. d = [i \in DOMAIN text |-> IF text[i].kind \in Footnotes THEN Reconcile(text, i) ELSE text[i]]
    BY DEF DedupeFootnotes
  <2>. DEFINE c(i) == IF text[i].kind \in Footnotes THEN Reconcile(text, i) ELSE text[i]
  <2>2. \A i \in DOMAIN text : c(i) \in Calls(N, V)
    BY <1>1, <1>3
  <2>. HIDE DEF c
  <2>3. [i \in DOMAIN text |-> c(i)] \in Seq(Calls(N, V))
    BY <2>2
  <2>. QED
    BY <2>1, <2>3 DEF c
<1>5. ASSUME NEW i, Footnote(text, i) PROVE SameNote(d, i) = SameNote(text, i)
  <2>1. \A j \in DOMAIN text : text[j].kind \in Footnotes =>
          d[j].kind \in Footnotes /\ Identity(d[j]) = Identity(text[j])
    BY <1>2 DEF Footnote
  <2>2. \A j \in DOMAIN text : d[j].kind = text[j].kind
    BY <1>3
  <2>3. Identity(d[i]) = Identity(text[i])
    BY <1>2, <1>5
  <2>. QED
    BY <1>1, <2>1, <2>2, <2>3 DEF SameNote
<1>6. ASSUME NEW i, Footnote(text, i), NEW j \in SameNote(text, i)
      PROVE  Footnote(text, j) /\ ps(j) = ps(i) /\ first(j) = first(i)
  <2>1. Footnote(text, j) /\ SameNote(text, j) = SameNote(text, i)
    BY <1>6, FirstNote
  <2>. QED
    BY <2>1
<1>7. ASSUME NEW i, Footnote(text, i) PROVE Reconcile(d, i) = d[i]
  <2>1. first(i) \in SameNote(text, i) /\ Footnote(text, first(i))
    BY <1>7, FirstNote
  <2>2. ps(first(i)) = ps(i)
    BY <1>6, <1>7, <2>1
  <2>3. d[first(i)] = text[first(i)]
    <3>1. ps(first(i)) = Quotation(text[first(i)])
      BY <2>2
    <3>. DEFINE j == first(i)
    <3>2. Footnote(text, j) /\ Quotation(text[j]) = ps(j)
      BY <2>1, <3>1
    <3>. HIDE DEF j, ps
    <3>3. d[j] = text[j]
      BY <1>2, <3>2
    <3>. QED
      BY <3>3 DEF j
  <2>4. Quotation(d[Min(SameNote(d, i))]) = ps(i)
    BY <1>5, <1>7, <2>3
  <2>5. \/ Quotation(d[i]) = ps(i)
        \/ ps(i).given /\ [d[i] EXCEPT !.params = WithPs(@, ps(i).value)] = d[i]
    BY <1>2, <1>7
  <2>. HIDE DEF ps
  <2>6. Reconcile(d, i) = IF Quotation(d[i]) = ps(i) THEN d[i]
                          ELSE IF ps(i).given THEN [d[i] EXCEPT !.params = WithPs(@, ps(i).value)]
                          ELSE [d[i] EXCEPT !.params = WithoutPs(@)]
    BY <2>4 DEF Reconcile
  <2>. QED
    BY <2>5, <2>6
<1>8. ASSUME NEW i, Footnote(text, i), NEW j \in SameNote(d, i)
      PROVE  ValueOf(d[i].params, "ps") = ValueOf(d[j].params, "ps")
  <2>1. j \in SameNote(text, i)
    BY <1>5, <1>8
  <2>2. Footnote(text, j) /\ ps(j) = ps(i)
    BY <1>6, <1>8, <2>1
  <2>. HIDE DEF ps
  <2>3. ValueOf(d[i].params, "ps") = ps(i).value
    BY <1>2, <1>8
  <2>4. ValueOf(d[j].params, "ps") = ps(j).value
    BY <1>2, <2>2
  <2>. QED
    BY <2>2, <2>3, <2>4
<1>. QED
  BY <1>1, <1>3, <1>4, <1>7, <1>8

LEMMA PagedText ==
  ASSUME NEW N, NEW V, NEW text \in Seq(Calls(N, V)), NEW d, d = FixFootnoteNames(text)
  PROVE  /\ d \in Seq(Calls(N, Unmarked(V))) /\ DOMAIN d = DOMAIN text
         /\ \A i \in DOMAIN text :
              /\ d[i].kind = text[i].kind /\ d[i].ref = text[i].ref
              /\ text[i].kind \notin Footnotes => d[i] = text[i]
              /\ text[i].kind \in Footnotes => Paged(d[i].params)
<1>. DEFINE W == Unmarked(V)
            p(i) == FixPages(text[i].params)
            c(i) == IF text[i].kind \in Footnotes THEN [text[i] EXCEPT !.params = p(i)] ELSE text[i]
<1>1. d = [i \in DOMAIN text |-> c(i)]
  BY DEF FixFootnoteNames
<1>2. ASSUME NEW i \in DOMAIN text
      PROVE  /\ c(i) \in Calls(N, W) /\ c(i).kind = text[i].kind /\ c(i).ref = text[i].ref
             /\ text[i].kind \notin Footnotes => c(i) = text[i]
             /\ text[i].kind \in Footnotes => Paged(c(i).params)
  <2>1. text[i].params \in Seq(Params(N, V)) /\ text[i] \in Calls(N, V)
    BY CallFields
  <2>2. p(i) \in Seq(Params(N, W)) /\ Paged(p(i))
    BY <2>1, PagesFixed
  <2>3. text[i] \in Calls(N, W)
    <3>1. V \subseteq W
      BY DEF Unmarked
    <3>. HIDE DEF W
    <3>. QED
      BY <2>1, <3>1, MoreParams
  <2>. HIDE DEF p, W
  <2>. QED
    BY <2>1, <2>2, <2>3, OtherParams
<1>. HIDE DEF c, W
<1>3. d \in Seq(Calls(N, W)) /\ DOMAIN d = DOMAIN text /\ \A i \in DOMAIN text : d[i] = c(i)
  BY <1>1, <1>2
<1>. QED
  BY <1>2, <1>3 DEF W

LEMMA UnwrappedText ==
  ASSUME NEW N, NEW V, NEW text \in Seq(Calls(N, V)), NEW d, d = Unwrap(text)
  PROVE  /\ d \in Seq(Calls(N, V)) /\ DOMAIN d = DOMAIN text
         /\ \A i \in DOMAIN text :
              /\ d[i].kind = text[i].kind /\ d[i].params = text[i].params
              /\ ~(d[i].kind = "sfn" /\ d[i].ref = "bare")
              /\ text[i].kind # "sfn" => d[i] = text[i]
<1>. DEFINE c(i) == IF text[i].kind = "sfn" /\ text[i].ref = "bare"
                    THEN [text[i] EXCEPT !.ref = "none"] ELSE text[i]
<1>1. d = [i \in DOMAIN text |-> c(i)]
  BY DEF Unwrap
<1>2. ASSUME NEW i \in DOMAIN text
      PROVE  /\ c(i) \in Calls(N, V) /\ c(i).kind = text[i].kind /\ c(i).params = text[i].params
             /\ ~(c(i).kind = "sfn" /\ c(i).ref = "bare")
             /\ text[i].kind # "sfn" => c(i) = text[i]
  <2>1. text[i] \in Calls(N, V)
    OBVIOUS
  <2>. QED
    BY <2>1 DEF Calls
<1>. HIDE DEF c
<1>3. d \in Seq(Calls(N, V)) /\ DOMAIN d = DOMAIN text /\ \A i \in DOMAIN text : d[i] = c(i)
  BY <1>1, <1>2
<1>. QED
  BY <1>2, <1>3

LEMMA QuotedText ==
  ASSUME NEW N, NEW V, NEW text \in Seq(Calls(N, V)), NEW d, d = NormalizeQuotes(text)
  PROVE  /\ d \in Seq(Calls(N, V)) /\ DOMAIN d = DOMAIN text
         /\ \A i \in DOMAIN text :
              /\ d[i].params = text[i].params /\ d[i].ref = text[i].ref /\ d[i].kind # "quotes"
              /\ text[i].kind = "quotes" => d[i].kind = "quoted"
              /\ text[i].kind # "quotes" => d[i] = text[i]
<1>. DEFINE c(i) == IF text[i].kind = "quotes" THEN [text[i] EXCEPT !.kind = "quoted"] ELSE text[i]
<1>1. d = [i \in DOMAIN text |-> c(i)]
  BY DEF NormalizeQuotes
<1>2. ASSUME NEW i \in DOMAIN text
      PROVE  /\ c(i) \in Calls(N, V) /\ c(i).params = text[i].params /\ c(i).ref = text[i].ref
             /\ c(i).kind # "quotes" /\ (text[i].kind = "quotes" => c(i).kind = "quoted")
             /\ (text[i].kind # "quotes" => c(i) = text[i])
  <2>1. text[i] \in Calls(N, V)
    OBVIOUS
  <2>. QED
    BY <2>1 DEF Calls
<1>. HIDE DEF c
<1>3. d \in Seq(Calls(N, V)) /\ DOMAIN d = DOMAIN text /\ \A i \in DOMAIN text : d[i] = c(i)
  BY <1>1, <1>2
<1>. QED
  BY <1>2, <1>3

-----------------------------------------------------------------------------
(* The fixes, one after the other                                          *)

\* What values may say after the fixes.
SaidAfter(V) == Unmarked(SaidOf(V))

\* A call that no fix changes by itself.
Clean(c) ==
  /\ c.kind = "cite" => EnglishParams(c.params) = c.params
  /\ c.kind \in Footnotes => Paged(c.params)
  /\ ~(c.kind = "sfn" /\ c.ref = "bare")
  /\ c.kind # "quotes"

\* What all the fixes make of a text.
LEMMA FixedText ==
  ASSUME NEW N, NEW V, NEW text \in Seq(Calls(N, V)), NEW filled, filled = FillLanguages(text),
         NEW fixed, fixed = PostProcess(text)
  PROVE  /\ fixed \in Seq(Calls(N, SaidAfter(V))) /\ DOMAIN fixed = DOMAIN text
         /\ \A i \in DOMAIN text :
              /\ fixed[i].kind = "cite" <=> text[i].kind = "cite"
              /\ text[i].kind = "cite" => fixed[i].params = EnglishParams(filled[i].params)
              /\ Clean(fixed[i])
         /\ \A i : Footnote(fixed, i) =>
              /\ Reconcile(fixed, i) = fixed[i]
              /\ \A j \in SameNote(fixed, i) : ValueOf(fixed[i].params, "ps") = ValueOf(fixed[j].params, "ps")
<1>. DEFINE W == SaidAfter(V)
            named == FixParamNames(filled)
            paged == FixFootnoteNames(named)
            unwrapped == Unwrap(paged)
            deduped == DedupeFootnotes(unwrapped)
<1>0. fixed = NormalizeQuotes(deduped) /\ Nothing \in W /\ W = Unmarked(SaidOf(V))
  BY DEF PostProcess, SaidAfter, SaidOf, Unmarked
<1>1. /\ filled \in Seq(Calls(N, SaidOf(V))) /\ DOMAIN filled = DOMAIN text
      /\ \A i \in DOMAIN text : filled[i].kind = text[i].kind
  <2>1. /\ filled \in Seq(Calls(N, SaidOf(V))) /\ DOMAIN filled = DOMAIN text
        /\ \A i \in DOMAIN text : Filled(text, i, filled[i])
    BY FilledText
  <2>. QED
    BY <2>1 DEF Filled
<1>2. /\ named \in Seq(Calls(N, SaidOf(V))) /\ DOMAIN named = DOMAIN text
      /\ \A i \in DOMAIN text :
           /\ named[i].kind = text[i].kind
           /\ text[i].kind = "cite" => named[i].params = EnglishParams(filled[i].params)
  <2>1. /\ named \in Seq(Calls(N, SaidOf(V))) /\ DOMAIN named = DOMAIN filled
        /\ \A i \in DOMAIN filled :
             /\ named[i].kind = filled[i].kind
             /\ filled[i].kind = "cite" => named[i].params = EnglishParams(filled[i].params)
    BY <1>1, NamedText
  <2>. HIDE DEF named
  <2>. QED
    BY <1>1, <2>1
<1>. HIDE DEF named
<1>3. /\ paged \in Seq(Calls(N, W)) /\ DOMAIN paged = DOMAIN text
      /\ \A i \in DOMAIN text :
           /\ paged[i].kind = text[i].kind
           /\ text[i].kind \notin Footnotes => paged[i] = named[i]
           /\ text[i].kind \in Footnotes => Paged(paged[i].params)
  <2>1. /\ paged \in Seq(Calls(N, W)) /\ DOMAIN paged = DOMAIN named
        /\ \A i \in DOMAIN named :
             /\ paged[i].kind = named[i].kind
             /\ named[i].kind \notin Footnotes => paged[i] = named[i]
             /\ named[i].kind \in Footnotes => Paged(paged[i].params)
    <3>1. paged = FixFootnoteNames(named)
      OBVIOUS
    <3>. HIDE DEF paged, W
    <3>. QED
      BY <1>0, <1>2, <3>1, PagedText
  <2>. HIDE DEF paged, W
  <2>. QED
    BY <1>2, <2>1
<1>. HIDE DEF paged, W
<1>4. /\ unwrapped \in Seq(Calls(N, W)) /\ DOMAIN unwrapped = DOMAIN text
      /\ \A i \in DOMAIN text :
           /\ unwrapped[i].kind = text[i].kind
           /\ unwrapped[i].params = paged[i].params
           /\ ~(unwrapped[i].kind = "sfn" /\ unwrapped[i].ref = "bare")
  <2>1. /\ unwrapped \in Seq(Calls(N, W)) /\ DOMAIN unwrapped = DOMAIN paged
        /\ \A i \in DOMAIN paged :
             /\ unwrapped[i].kind = paged[i].kind /\ unwrapped[i].params = paged[i].params
             /\ ~(unwrapped[i].kind = "sfn" /\ unwrapped[i].ref = "bare")
    BY <1>3, UnwrappedText
  <2>. HIDE DEF unwrapped
  <2>. QED
    BY <1>3, <2>1
<1>. HIDE DEF unwrapped
<1>5. /\ deduped \in Seq(Calls(N, W)) /\ DOMAIN deduped = DOMAIN unwrapped
      /\ \A i \in DOMAIN unwrapped :
           /\ deduped[i].kind = unwrapped[i].kind /\ deduped[i].ref = unwrapped[i].ref
           /\ unwrapped[i].kind \notin Footnotes => deduped[i] = unwrapped[i]
           /\ Paged(unwrapped[i].params) => Paged(deduped[i].params)
      /\ \A i : Footnote(unwrapped, i) =>
           /\ Reconcile(deduped, i) = deduped[i]
           /\ \A j \in SameNote(deduped, i) :
                ValueOf(deduped[i].params, "ps") = ValueOf(deduped[j].params, "ps")
  BY <1>0, <1>4, DedupedText
<1>. HIDE DEF deduped
<1>6. /\ fixed \in Seq(Calls(N, W)) /\ DOMAIN fixed = DOMAIN deduped
      /\ \A i \in DOMAIN deduped :
           /\ fixed[i].params = deduped[i].params /\ fixed[i].ref = deduped[i].ref /\ fixed[i].kind # "quotes"
           /\ deduped[i].kind = "quotes" => fixed[i].kind = "quoted"
           /\ deduped[i].kind # "quotes" => fixed[i] = deduped[i]
  BY <1>0, <1>5, QuotedText
<1>7. DOMAIN fixed = DOMAIN text /\ DOMAIN deduped = DOMAIN text
  BY <1>4, <1>5, <1>6
<1>8. ASSUME NEW i \in DOMAIN text
      PROVE  /\ deduped[i].kind = text[i].kind
             /\ fixed[i].kind = IF text[i].kind = "quotes" THEN "quoted" ELSE text[i].kind
  <2>1. deduped[i].kind = text[i].kind
    BY <1>4, <1>5
  <2>. QED
    BY <1>6, <1>7, <2>1
<1>9. ASSUME NEW i \in DOMAIN text, text[i].kind = "cite"
      PROVE  fixed[i].params = EnglishParams(filled[i].params)
             /\ EnglishParams(fixed[i].params) = fixed[i].params
  <2>1. "cite" \notin Footnotes
    BY DEF Footnotes
  <2>2. fixed[i].params = named[i].params
    BY <1>3, <1>4, <1>5, <1>6, <1>7, <1>9, <2>1
  <2>3. filled[i].params \in Seq(Params(N, SaidOf(V)))
    BY <1>1, CallFields
  <2>. QED
    BY <1>2, <1>9, <2>2, <2>3, EnglishStays
<1>10. ASSUME NEW i \in DOMAIN text, text[i].kind \in Footnotes PROVE Paged(fixed[i].params)
  <2>1. Paged(unwrapped[i].params)
    BY <1>3, <1>4, <1>10
  <2>2. Paged(deduped[i].params)
    BY <1>4, <1>5, <2>1
  <2>. QED
    BY <1>6, <1>7, <2>2
<1>11. ASSUME NEW i \in DOMAIN text PROVE Clean(fixed[i])
  <2>1. fixed[i].kind = "cite" => text[i].kind = "cite"
    BY <1>8
  <2>2. fixed[i].kind \in Footnotes => text[i].kind \in Footnotes
    BY <1>8 DEF Footnotes
  <2>3. ~(fixed[i].kind = "sfn" /\ fixed[i].ref = "bare")
    BY <1>4, <1>5, <1>6, <1>7, <1>8
  <2>4. fixed[i].kind # "quotes"
    BY <1>6, <1>7
  <2>. QED
    BY <1>9, <1>10, <2>1, <2>2, <2>3, <2>4 DEF Clean
<1>12. ASSUME NEW i, Footnote(fixed, i)
       PROVE  /\ Reconcile(fixed, i) = fixed[i]
              /\ \A j \in SameNote(fixed, i) : ValueOf(fixed[i].params, "ps") = ValueOf(fixed[j].params, "ps")
  <2>1. \A j : Footnote(fixed, j) => /\ Footnote(deduped, j) /\ Footnote(unwrapped, j)
                                     /\ fixed[j] = deduped[j]
    <3>. SUFFICES ASSUME NEW j, Footnote(fixed, j)
                  PROVE  Footnote(deduped, j) /\ Footnote(unwrapped, j) /\ fixed[j] = deduped[j]
      OBVIOUS
    <3>1. j \in DOMAIN text /\ fixed[j].kind \in Footnotes
      BY <1>7 DEF Footnote
    <3>2. text[j].kind \in Footnotes /\ text[j].kind # "quotes"
      BY <1>8, <3>1 DEF Footnotes
    <3>. QED
      BY <1>4, <1>6, <1>7, <1>8, <3>1, <3>2 DEF Footnote
  <2>2. \A j \in DOMAIN text : fixed[j].kind \in Footnotes <=> deduped[j].kind \in Footnotes
    BY <1>8 DEF Footnotes
  <2>3. SameNote(fixed, i) = SameNote(deduped, i)
    <3>1. \A j \in DOMAIN text : Identity(fixed[j]) = Identity(deduped[j])
      BY <1>6, <1>7 DEF Identity
    <3>2. i \in DOMAIN text
      BY <1>7, <1>12 DEF Footnote
    <3>. QED
      BY <1>7, <2>2, <3>1, <3>2 DEF SameNote
  <2>4. Min(SameNote(fixed, i)) \in SameNote(fixed, i)
    BY <1>6, <1>12, FirstNote
  <2>5. \A j \in SameNote(fixed, i) : Footnote(fixed, j) /\ fixed[j] = deduped[j]
    BY <2>1 DEF SameNote, Footnote
  <2>6. Quotation(fixed[Min(SameNote(fixed, i))]) = Quotation(deduped[Min(SameNote(deduped, i))])
    BY <2>3, <2>4, <2>5
  <2>7. fixed[i] = deduped[i]
    BY <1>12, <2>1
  <2>8. Reconcile(fixed, i) = Reconcile(deduped, i)
    BY <2>6, <2>7 DEF Reconcile
  <2>. QED
    BY <1>5, <1>12, <2>1, <2>3, <2>5, <2>7, <2>8
<1>. QED
  BY <1>6, <1>7, <1>8, <1>9, <1>11, <1>12 DEF W

\* A text that no fix has anything to do with stays.
LEMMA FixedStays ==
  ASSUME NEW N, NEW V, NEW text \in Seq(Calls(N, V)),
         \A i \in DOMAIN text : Clean(text[i]),
         \A i \in DOMAIN text : Missing(text[i]) => Language(text, i) = Nothing,
         \A i : Footnote(text, i) => Reconcile(text, i) = text[i]
  PROVE  PostProcess(text) = text
<1>0. text = [i \in DOMAIN text |-> text[i]] /\ \A i \in DOMAIN text : text[i] \in Calls(N, V)
  OBVIOUS
<1>1. FillLanguages(text) = text
  BY <1>0 DEF FillLanguages
<1>2. FixParamNames(text) = text
  <2>. DEFINE c(i) == IF text[i].kind = "cite" THEN [text[i] EXCEPT !.params = EnglishParams(@)] ELSE text[i]
  <2>1. \A i \in DOMAIN text : c(i) = text[i]
    BY <1>0, CallFields DEF Clean
  <2>2. FixParamNames(text) = [i \in DOMAIN text |-> c(i)]
    BY DEF FixParamNames
  <2>. HIDE DEF c
  <2>. QED
    BY <1>0, <2>1, <2>2
<1>3. FixFootnoteNames(text) = text
  <2>. DEFINE c(i) == IF text[i].kind \in Footnotes THEN [text[i] EXCEPT !.params = FixPages(@)] ELSE text[i]
  <2>1. ASSUME NEW i \in DOMAIN text, text[i].kind \in Footnotes PROVE FixPages(text[i].params) = text[i].params
    <3>. DEFINE s == text[i].params
    <3>1. s \in Seq(Params(N, V)) /\ Paged(s)
      BY <1>0, <2>1, CallFields DEF Clean
    <3>. HIDE DEF s
    <3>2. FixPages(s) = [k \in DOMAIN s |-> s[k]]
      BY <3>1 DEF FixPages, Paged
    <3>3. [k \in DOMAIN s |-> s[k]] = s
      <4>. HIDE DEF Params
      <4>. QED
        BY <3>1
    <3>. QED
      BY <3>2, <3>3 DEF s
  <2>2. \A i \in DOMAIN text : c(i) = text[i]
    BY <1>0, <2>1, CallFields
  <2>3. FixFootnoteNames(text) = [i \in DOMAIN text |-> c(i)]
    BY DEF FixFootnoteNames
  <2>. HIDE DEF c
  <2>. QED
    BY <1>0, <2>2, <2>3
<1>4. Unwrap(text) = text
  BY <1>0 DEF Unwrap, Clean
<1>5. DedupeFootnotes(text) = text
  BY <1>0 DEF DedupeFootnotes, Footnote
<1>6. NormalizeQuotes(text) = text
  BY <1>0 DEF NormalizeQuotes, Clean
<1>. QED
  BY <1>1, <1>2, <1>3, <1>4, <1>5, <1>6 DEF PostProcess

\* A citation whose language is left open though its page was asked: neither
\* its title nor its page says.
LEMMA LeftOpen ==
  ASSUME NEW N, NEW V, NEW text \in Seq(Calls(N, V)), Cardinality(Asked(text)) <= MaxUrlFetches,
         NEW i \in DOMAIN text, Missing(text[i]), Language(text, i) = Nothing
  PROVE  /\ Shows(ValueOf(text[i].params, "title")) = Nothing
         /\ HasPage(text[i]) => Declares(ValueOf(text[i].params, "url")) = Nothing
<1>1. Shows(ValueOf(text[i].params, "title")) = Nothing
  BY DEF Language, Detected
<1>2. ASSUME HasPage(text[i]) PROVE Declares(ValueOf(text[i].params, "url")) = Nothing
  <2>1. i \in Asked(text)
    BY <1>2 DEF Asked
  <2>2. Cardinality(PagesBefore(text, i)) < MaxUrlFetches
    BY <2>1, EveryPageAsked
  <2>. QED
    BY <1>1, <1>2, <2>2 DEF Language, Detected
<1>. QED
  BY <1>1, <1>2

\* What the next round finds missing was missing, and left open, in this one.
LEMMA StillMissing ==
  ASSUME NEW N, NEW V, NEW text \in Seq(Calls(N, V)), NEW fixed, fixed = PostProcess(text),
         NEW i \in DOMAIN fixed, Missing(fixed[i])
  PROVE  /\ i \in DOMAIN text /\ Missing(text[i]) /\ Language(text, i) = Nothing
         /\ fixed[i].params = EnglishParams(text[i].params)
         /\ ValueOf(fixed[i].params, "url") = ValueOf(text[i].params, "url")
<1>. DEFINE filled == FillLanguages(text)
<1>0. filled = FillLanguages(text)
  OBVIOUS
<1>. HIDE DEF filled
<1>1. /\ fixed \in Seq(Calls(N, SaidAfter(V))) /\ DOMAIN fixed = DOMAIN text
      /\ \A k \in DOMAIN text :
           /\ fixed[k].kind = "cite" <=> text[k].kind = "cite"
           /\ text[k].kind = "cite" => fixed[k].params = EnglishParams(filled[k].params)
           /\ Clean(fixed[k])
      /\ \A k : Footnote(fixed, k) =>
           /\ Reconcile(fixed, k) = fixed[k]
           /\ \A j \in SameNote(fixed, k) : ValueOf(fixed[k].params, "ps") = ValueOf(fixed[j].params, "ps")
  BY <1>0, FixedText
<1>2. filled \in Seq(Calls(N, SaidOf(V))) /\ Filled(text, i, filled[i]) /\ i \in DOMAIN filled
  BY <1>0, <1>1, FilledText
<1>3. text[i].kind = "cite" /\ fixed[i].params = EnglishParams(filled[i].params)
  BY <1>1 DEF Missing
<1>4. filled[i].params \in Seq(Params(N, SaidOf(V)))
  BY <1>2, CallFields
<1>5. ~Given(filled[i].params, "language")
  <2>. SUFFICES ASSUME Given(filled[i].params, "language") PROVE FALSE
    OBVIOUS
  <2>1. Named(filled[i].params, "language") # {} /\ "language" \notin AlbanianNames
    BY <1>4, NothingGiven, NotAlbanian, Translations
  <2>2. Given(EnglishParams(filled[i].params), "language")
    BY <1>4, <2>1, ValuesKept
  <2>. QED
    BY <1>3, <2>2 DEF Missing
<1>6. Missing(filled[i])
  BY <1>2, <1>3, <1>5 DEF Missing, Filled
<1>7. filled[i] = text[i] /\ Missing(text[i]) /\ Language(text, i) = Nothing
  BY <1>2, <1>6 DEF Filled
<1>8. ValueOf(EnglishParams(filled[i].params), "url") = ValueOf(filled[i].params, "url")
  BY <1>4, NotAlbanian, ValuesKept
<1>. QED
  BY <1>1, <1>3, <1>7, <1>8

\* All pages that are needed are asked.
AllAsked(text) == Cardinality(Asked(text)) <= MaxUrlFetches

\* No citation whose language is left open hides its title.
TitlesShow(text) ==
  \A i \in DOMAIN text : Missing(text[i]) /\ Language(text, i) = Nothing => ~HidesTitle(text[i])

LEMMA OnceIsEnough ==
  ASSUME NEW N, NEW V, NEW text \in Seq(Calls(N, V)), AllAsked(text), TitlesShow(text),
         NEW fixed, fixed = PostProcess(text)
  PROVE  PostProcess(fixed) = fixed
<1>1. /\ fixed \in Seq(Calls(N, SaidAfter(V))) /\ DOMAIN fixed = DOMAIN text
      /\ \A i \in DOMAIN text : Clean(fixed[i])
      /\ \A i : Footnote(fixed, i) => Reconcile(fixed, i) = fixed[i]
  BY FixedText
<1>2. ASSUME NEW i \in DOMAIN fixed, Missing(fixed[i]) PROVE Language(fixed, i) = Nothing
  <2>1. /\ i \in DOMAIN text /\ Missing(text[i]) /\ Language(text, i) = Nothing
        /\ fixed[i].params = EnglishParams(text[i].params)
        /\ ValueOf(fixed[i].params, "url") = ValueOf(text[i].params, "url")
    BY <1>2, StillMissing
  <2>2. /\ Shows(ValueOf(text[i].params, "title")) = Nothing
        /\ HasPage(text[i]) => Declares(ValueOf(text[i].params, "url")) = Nothing
    BY <2>1, LeftOpen DEF AllAsked
  <2>3. text[i].params \in Seq(Params(N, V)) /\ ~Hides(text[i].params)
    <3>1. ~HidesTitle(text[i])
      BY <2>1 DEF TitlesShow
    <3>2. text[i].params \in Seq(Params(N, V))
      BY <2>1, CallFields
    <3>. QED
      BY <3>1, <3>2 DEF HidesTitle, Hides
  <2>4. Shows(ValueOf(fixed[i].params, "title")) = Nothing
    BY <2>1, <2>2, <2>3, TitleStays
  <2>5. HasPage(fixed[i]) => Declares(ValueOf(fixed[i].params, "url")) = Nothing
    BY <2>1, <2>2 DEF HasPage
  <2>. QED
    BY <2>4, <2>5 DEF Language, Detected
<1>. QED
  BY <1>1, <1>2, FixedStays

LEMMA AskedAgain ==
  ASSUME NEW N, NEW V, NEW text \in Seq(Calls(N, V)), AllAsked(text), NEW fixed, fixed = PostProcess(text)
  PROVE  fixed \in Seq(Calls(N, SaidAfter(V))) /\ AllAsked(fixed) /\ TitlesShow(fixed)
<1>1. fixed \in Seq(Calls(N, SaidAfter(V)))
  BY FixedText
<1>2. ASSUME NEW i \in DOMAIN fixed, Missing(fixed[i])
      PROVE  /\ i \in DOMAIN text /\ Missing(text[i]) /\ fixed[i].params = EnglishParams(text[i].params)
             /\ HasPage(fixed[i]) => HasPage(text[i])
  BY <1>2, StillMissing DEF HasPage
<1>3. Asked(fixed) \subseteq Asked(text)
  BY <1>2 DEF Asked
<1>4. AllAsked(fixed)
  <2>1. IsFiniteSet(Asked(text))
    <3>1. DOMAIN text = 1..Len(text) /\ Len(text) \in Int /\ 1 \in Int
      OBVIOUS
    <3>2. IsFiniteSet(DOMAIN text)
      BY <3>1, FS_Interval
    <3>3. Asked(text) \subseteq DOMAIN text
      BY DEF Asked
    <3>. QED
      BY <3>2, <3>3, FS_Subset
  <2>2. /\ Cardinality(Asked(fixed)) <= Cardinality(Asked(text))
        /\ Cardinality(Asked(fixed)) \in Nat /\ Cardinality(Asked(text)) \in Nat
    BY <1>3, <2>1, FS_Subset, FS_CardinalityType
  <2>. QED
    BY <2>2, FetchesAssumption DEF AllAsked
<1>5. TitlesShow(fixed)
  <2>. SUFFICES ASSUME NEW i \in DOMAIN fixed, Missing(fixed[i]) PROVE ~HidesTitle(fixed[i])
    BY DEF TitlesShow
  <2>1. text[i].params \in Seq(Params(N, V)) /\ fixed[i].params = EnglishParams(text[i].params)
    BY <1>2, CallFields
  <2>2. ~Hides(fixed[i].params)
    BY <2>1, NoneHidden
  <2>. QED
    BY <2>2 DEF HidesTitle, Hides
<1>. QED
  BY <1>1, <1>4, <1>5

\* A round of fixes leaves nothing for the next, but for the language of a
\* citation whose title stood under an Albanian name.
LEMMA EveryTextSettles ==
  ASSUME NEW N, NEW V, NEW text \in Seq(Calls(N, V))
  PROVE  Settles(text)
<1>. DEFINE fixed == PostProcess(text)
            again == PostProcess(fixed)
<1>1. AllAsked(text) <=> Cardinality({i \in DOMAIN text : Missing(text[i]) /\ HasPage(text[i])}) <= MaxUrlFetches
  BY DEF AllAsked, Asked
<1>2. ASSUME AllAsked(text), TitlesShow(text) PROVE again = fixed
  BY <1>2, OnceIsEnough
<1>3. ASSUME AllAsked(text) PROVE PostProcess(again) = again
  <2>1. fixed \in Seq(Calls(N, SaidAfter(V))) /\ AllAsked(fixed) /\ TitlesShow(fixed)
    BY <1>3, AskedAgain
  <2>. HIDE DEF fixed
  <2>. QED
    BY <2>1, OnceIsEnough
<1>. HIDE DEF fixed, again
<1>4. Settles(text) <=>
        (AllAsked(text) => ((TitlesShow(text) => again = fixed) /\ PostProcess(again) = again))
  BY <1>1, Zenon DEF Settles, TitlesShow, fixed, again
<1>. QED
  BY <1>2, <1>3, <1>4

\* Footnotes that are written alike have one quotation, and nothing a citation
\* said is lost or hidden.
LEMMA EveryTextIsFixed ==
  ASSUME NEW N, NEW V, NEW text \in Seq(Calls(N, V))
  PROVE  FixesAreRight(text)
<1>. DEFINE fixed == PostProcess(text)
            filled == FillLanguages(text)
<1>0. fixed = PostProcess(text) /\ filled = FillLanguages(text)
  OBVIOUS
<1>. HIDE DEF fixed, filled
<1>1. /\ fixed \in Seq(Calls(N, SaidAfter(V))) /\ DOMAIN fixed = DOMAIN text
      /\ \A i \in DOMAIN text :
           /\ fixed[i].kind = "cite" <=> text[i].kind = "cite"
           /\ text[i].kind = "cite" => fixed[i].params = EnglishParams(filled[i].params)
           /\ Clean(fixed[i])
      /\ \A i : Footnote(fixed, i) =>
           /\ Reconcile(fixed, i) = fixed[i]
           /\ \A j \in SameNote(fixed, i) : ValueOf(fixed[i].params, "ps") = ValueOf(fixed[j].params, "ps")
  BY <1>0, FixedText
<1>2. /\ filled \in Seq(Calls(N, SaidOf(V))) /\ DOMAIN filled = DOMAIN text
      /\ \A i \in DOMAIN text : Filled(text, i, filled[i])
  BY <1>0, FilledText
<1>3. \A i, j \in DOMAIN fixed :
        fixed[i].kind \in Footnotes /\ j \in SameNote(fixed, i) =>
          ValueOf(fixed[i].params, "ps") = ValueOf(fixed[j].params, "ps")
  BY <1>1 DEF Footnote
<1>4. ~\E i \in DOMAIN fixed : fixed[i].kind = "sfn" /\ fixed[i].ref = "bare"
  BY <1>1 DEF Clean
<1>5. ASSUME NEW i \in DOMAIN text, text[i].kind = "cite"
      PROVE  /\ Values(text[i]) \subseteq Values(fixed[i])
             /\ ~Missing(text[i]) =>
                  ValueOf(fixed[i].params, "language") = ValueOf(text[i].params, "language")
             /\ \A a, b \in DOMAIN filled[i].params :
                  Twice(fixed[i], a, b) => Twice(filled[i], a, b)
  <2>. DEFINE s == filled[i].params
              t == EnglishParams(s)
  <2>1. s \in Seq(Params(N, SaidOf(V))) /\ Filled(text, i, filled[i]) /\ fixed[i].params = t
    BY <1>1, <1>2, <1>5, CallFields
  <2>2. DOMAIN t = DOMAIN s /\ \A j \in DOMAIN s : t[j].value = s[j].value
    BY <2>1, EnglishParam
  <2>3. Values(text[i]) \subseteq Values(fixed[i])
    <3>1. Values(fixed[i]) = Values(filled[i])
      <4>. HIDE DEF t
      <4>. QED
        BY <2>1, <2>2 DEF Values
    <3>. QED
      BY <2>1, <3>1 DEF Filled
  <2>4. ASSUME ~Missing(text[i])
        PROVE  ValueOf(fixed[i].params, "language") = ValueOf(text[i].params, "language")
    <3>1. filled[i] = text[i] /\ Given(s, "language")
      BY <1>5, <2>1, <2>4 DEF Filled, Missing
    <3>2. Named(s, "language") # {} /\ "language" \notin AlbanianNames
      BY <2>1, <3>1, NothingGiven, NotAlbanian, Translations
    <3>3. ValueOf(t, "language") = ValueOf(s, "language")
      <4>. HIDE DEF s
      <4>. QED
        BY <2>1, <3>2, ValuesKept
    <3>. QED
      BY <2>1, <3>1, <3>3
  <2>5. ASSUME NEW a \in DOMAIN s, NEW b \in DOMAIN s, Twice(fixed[i], a, b) PROVE Twice(filled[i], a, b)
    <3>1. t[a].name = t[b].name /\ t[a].num = t[b].num
      BY <2>1, <2>5 DEF Twice
    <3>. HIDE DEF s
    <3>2. s[a].name = s[b].name /\ s[a].num = s[b].num
      BY <2>1, <3>1, NeverTwice
    <3>. QED
      BY <3>2 DEF Twice, s
  <2>. QED
    BY <2>3, <2>4, <2>5
<1>. QED
  BY <1>3, <1>4, <1>5 DEF FixesAreRight, fixed, filled

\* _post_process (pipeline.py) on every text, whatever its calls say, titles
\* show and pages declare: where every page that is needed can be asked, the
\* second round has nothing to do, or only the languages of citations whose
\* title stood under an Albanian name, and the third has nothing; footnotes
\* written alike show one quotation, and nothing a citation said is lost,
\* replaced or hidden.
THEOREM EveryCitationIsFixed ==
  \A N, V : \A text \in Seq(Calls(N, V)) : Settles(text) /\ FixesAreRight(text)
BY EveryTextSettles, EveryTextIsFixed

\* The names and values of the runs' calls.
InputNames ==
  {"", "faqe", "f", "p", "ps", "url", "title", "titulli", "author", "autori", "autor", "language", "gjuha"}
InputPages ==
  {"", "author", "2001", "one", "many", "x", "y", "t", "u", "v", "de", "en", "fr", "sq", "silent"}
InputValues == [page : InputPages, marked : BOOLEAN]

LEMMA ShortSequences ==
  ASSUME NEW E
  PROVE  /\ << >> \in Seq(E) /\ \A a \in E : <<a>> \in Seq(E)
         /\ \A a, b \in E : <<a, b>> \in Seq(E)
         /\ \A a, b, c \in E : <<a, b, c>> \in Seq(E)
         /\ \A s, t \in Seq(E) : s \o t \in Seq(E)
<1>1. << >> \in Seq(E) /\ \A s, t \in Seq(E) : s \o t \in Seq(E)
  OBVIOUS
<1>2. \A a \in E : <<a>> \in Seq(E)
  OBVIOUS
<1>3. \A a, b \in E : <<a, b>> \in Seq(E)
  OBVIOUS
<1>4. \A a, b, c \in E : <<a, b, c>> \in Seq(E)
  OBVIOUS
<1>. QED
  BY <1>1, <1>2, <1>3, <1>4

LEMMA InputCalls == CallElements \subseteq Calls(InputNames, InputValues)
<1>. DEFINE P == Params(InputNames, InputValues)
            C == Calls(InputNames, InputValues)
            V == InputValues
<1>1. Nothing \in V /\ \A page \in InputPages : Plain(page) \in V /\ \A b \in BOOLEAN : Page(page, b) \in V
  BY DEF Nothing, Plain, Page, InputValues, InputPages
<1>2. ASSUME NEW name \in InputNames, NEW v \in V PROVE Param(name, v) \in P
  BY <1>2 DEF Param, Params
<1>3. ASSUME NEW name \in InputNames, NEW n \in Nat PROVE Numbered(name, n) \in P
  <2>1. Plain("x") \in V
    BY <1>1 DEF InputPages
  <2>. QED
    BY <1>3, <2>1 DEF Numbered, Params
<1>4. ASSUME NEW s \in Seq(P) PROVE Cite(s) \in C
  BY <1>4 DEF Cite, Calls
<1>5. ASSUME NEW s \in Seq(P), NEW kind \in {"sfn", "harv"}, NEW ref \in {"none", "bare", "named"}
      PROVE  Note(kind, ref, s) \in C
  <2>. DEFINE a == Param("", Plain("author"))
              b == Param("", Plain("2001"))
  <2>1. a \in P /\ b \in P
    BY <1>1, <1>2 DEF InputNames, InputPages
  <2>. HIDE DEF a, b, P
  <2>2. <<a, b>> \o s \in Seq(P)
    BY <1>5, <2>1
  <2>. USE DEF P
  <2>. QED
    BY <1>5, <2>2 DEF Note, Calls, a, b
<1>6. \A name \in InputNames : \A page \in InputPages : Param(name, Plain(page)) \in P
  BY <1>1, <1>2
<1>. HIDE DEF P, C, V
<1>7. ASSUME NEW r \in {"none", "bare"},
             NEW p \in {<<Param("", Page("one", TRUE))>>, <<Param("faqe", Plain("one"))>>},
             NEW q \in {<< >>, <<Param("ps", Plain("x"))>>, <<Param("ps", Nothing)>>}
      PROVE  Note("sfn", r, p \o q) \in C
  <2>1. Param("", Page("one", TRUE)) \in P /\ Param("ps", Nothing) \in P
    BY <1>1, <1>2 DEF InputNames, InputPages
  <2>2. Param("faqe", Plain("one")) \in P /\ Param("ps", Plain("x")) \in P
    BY <1>6 DEF InputNames, InputPages
  <2>3. <<Param("", Page("one", TRUE))>> \in Seq(P) /\ <<Param("faqe", Plain("one"))>> \in Seq(P)
    BY <2>1, <2>2, ShortSequences
  <2>4. << >> \in Seq(P) /\ <<Param("ps", Plain("x"))>> \in Seq(P) /\ <<Param("ps", Nothing)>> \in Seq(P)
    BY <2>1, <2>2, ShortSequences
  <2>5. p \o q \in Seq(P)
    <3>1. p \in Seq(P) /\ q \in Seq(P)
      BY <2>3, <2>4, Zenon
    <3>. QED
      BY <3>1, ShortSequences
  <2>. QED
    BY <1>5, <2>5
<1>8. /\ Note("harv", "bare", <<Param("p", Plain("one")), Param("ps", Plain("y"))>>) \in C
      /\ Note("harv", "none", <<Param("p", Plain("one")), Param("ps", Plain("y")), Param("ps", Nothing)>>) \in C
      /\ Note("sfn", "named", <<Param("", Page("many", TRUE)), Param("f", Plain("one"))>>) \in C
  <2>1. Param("", Page("many", TRUE)) \in P /\ Param("ps", Nothing) \in P
    BY <1>1, <1>2 DEF InputNames, InputPages
  <2>2. Param("p", Plain("one")) \in P /\ Param("ps", Plain("y")) \in P /\ Param("f", Plain("one")) \in P
    BY <1>6 DEF InputNames, InputPages
  <2>3. /\ <<Param("p", Plain("one")), Param("ps", Plain("y"))>> \in Seq(P)
        /\ <<Param("p", Plain("one")), Param("ps", Plain("y")), Param("ps", Nothing)>> \in Seq(P)
        /\ <<Param("", Page("many", TRUE)), Param("f", Plain("one"))>> \in Seq(P)
    BY <2>1, <2>2, ShortSequences
  <2>. QED
    BY <1>5, <2>3
<1>9. /\ Cite(<<Param("title", Plain("de")), Param("url", Plain("en")), Param("titulli", Plain("t")),
                Param("autori", Plain("u")), Param("autor", Plain("v"))>>) \in C
      /\ Cite(<<Param("url", Plain("en")), Param("gjuha", Plain("de"))>>) \in C
      /\ Cite(<<Param("url", Plain("silent")), Param("titulli", Plain("t"))>>) \in C
      /\ Cite(<<Param("titulli", Plain("fr"))>>) \in C
  <2>1. /\ Param("title", Plain("de")) \in P /\ Param("url", Plain("en")) \in P
        /\ Param("titulli", Plain("t")) \in P /\ Param("autori", Plain("u")) \in P
        /\ Param("autor", Plain("v")) \in P /\ Param("gjuha", Plain("de")) \in P
        /\ Param("url", Plain("silent")) \in P /\ Param("titulli", Plain("fr")) \in P
    BY <1>6 DEF InputNames, InputPages
  <2>2. /\ <<Param("title", Plain("de")), Param("url", Plain("en")), Param("titulli", Plain("t")),
            Param("autori", Plain("u")), Param("autor", Plain("v"))>> \in Seq(P)
        /\ <<Param("url", Plain("en")), Param("gjuha", Plain("de"))>> \in Seq(P)
        /\ <<Param("url", Plain("silent")), Param("titulli", Plain("t"))>> \in Seq(P)
        /\ <<Param("titulli", Plain("fr"))>> \in Seq(P)
    BY <2>1
  <2>. QED
    BY <1>4, <2>2
<1>10. /\ Cite(<<Param("language", Nothing), Param("url", Plain("fr")), Param("language", Nothing),
                 Numbered("autor", 1), Numbered("author", 1)>>) \in C
       /\ Cite(<<Param("titulli", Plain("de")), Param("language", Plain("sq")), Param("language", Nothing),
                 Numbered("autor", 2)>>) \in C
  <2>1. Param("language", Nothing) \in P
    BY <1>1, <1>2 DEF InputNames
  <2>2. /\ Param("url", Plain("fr")) \in P /\ Param("titulli", Plain("de")) \in P
        /\ Param("language", Plain("sq")) \in P
    BY <1>6 DEF InputNames, InputPages
  <2>3. Numbered("autor", 1) \in P /\ Numbered("author", 1) \in P /\ Numbered("autor", 2) \in P
    BY <1>3 DEF InputNames
  <2>4. /\ <<Param("language", Nothing), Param("url", Plain("fr")), Param("language", Nothing),
            Numbered("autor", 1), Numbered("author", 1)>> \in Seq(P)
        /\ <<Param("titulli", Plain("de")), Param("language", Plain("sq")), Param("language", Nothing),
            Numbered("autor", 2)>> \in Seq(P)
    BY <2>1, <2>2, <2>3
  <2>. QED
    BY <1>4, <2>4
<1>11. Notes \subseteq C
  <2>. DEFINE R == {"none", "bare"}
              S == {<<Param("", Page("one", TRUE))>>, <<Param("faqe", Plain("one"))>>}
              T == {<< >>, <<Param("ps", Plain("x"))>>, <<Param("ps", Nothing)>>}
  <2>1. \A r \in R : \A p \in S : \A q \in T : Note("sfn", r, p \o q) \in C
    BY <1>7
  <2>2. Notes = {Note("sfn", r, p \o q) : r \in R, p \in S, q \in T}
    BY DEF Notes
  <2>. HIDE DEF R, S, T
  <2>. QED
    BY <2>1, <2>2
<1>12. OtherNotes \subseteq C
  BY <1>8, Zenon DEF OtherNotes
<1>13. Cites \subseteq C
  BY <1>9, <1>10, Zenon DEF Cites
<1>. QED
  BY <1>11, <1>12, <1>13 DEF CallElements, C

\* _post_process (pipeline.py) on all inputs of the runs, however long: the
\* invariant of the run.
THEOREM InputCitationsAreFixed == Spec => []CitationsAreFixed
<1>1. InputInv => CitationsAreFixed
  <2>. SUFFICES ASSUME InputInv, part = "citations" PROVE Settles(input) /\ FixesAreRight(input)
    BY DEF CitationsAreFixed
  <2>1. input \in Seq(CallElements)
    BY DEF InputInv, Elements
  <2>. DEFINE C == Calls(InputNames, InputValues)
  <2>2. CallElements \subseteq C
    BY InputCalls
  <2>. HIDE DEF C
  <2>3. input \in Seq(C)
    BY <2>1, <2>2
  <2>. QED
    BY <2>3, EveryCitationIsFixed DEF C
<1>. QED
  BY <1>1, InputsAreSequences, PTL

-----------------------------------------------------------------------------
(* The squares of a table                                                  *)

Spans == Nat \X Nat

ColumnLaws == INSTANCE LoopLaws WITH Op <- AddColumns, Start <- 0
LeaveLaws == INSTANCE LoopLaws WITH Op <- LeaveRow, Start <- << >>

LEMMA ColumnsLaw ==
  /\ Columns(<< >>) = 0
  /\ \A E : \A s \in Seq(E) : \A x \in E : Columns(Append(s, x)) = Columns(s) + x[2]
<1>1. Loop(AddColumns, 0, << >>) = 0
  BY ColumnLaws!LoopLaw DEF Loop, ColumnLaws!Loop
<1>2. \A E : \A s \in Seq(E) : \A x \in E :
        Loop(AddColumns, 0, Append(s, x)) = AddColumns(Loop(AddColumns, 0, s), x)
  BY ColumnLaws!LoopLaw DEF Loop, ColumnLaws!Loop
<1>. QED
  BY <1>1, <1>2 DEF Columns, AddColumns

LEMMA LeftOverLaw ==
  /\ LeftOver(<< >>) = << >>
  /\ \A E : \A s \in Seq(E) : \A x \in E :
       LeftOver(Append(s, x)) =
         IF x[1] > 1 THEN Append(LeftOver(s), <<x[1] - 1, x[2]>>) ELSE LeftOver(s)
<1>1. Loop(LeaveRow, << >>, << >>) = << >>
  BY LeaveLaws!LoopLaw DEF Loop, LeaveLaws!Loop
<1>2. \A E : \A s \in Seq(E) : \A x \in E :
        Loop(LeaveRow, << >>, Append(s, x)) = LeaveRow(Loop(LeaveRow, << >>, s), x)
  BY LeaveLaws!LoopLaw DEF Loop, LeaveLaws!Loop
<1>. QED
  BY <1>1, <1>2 DEF LeftOver, LeaveRow

\* The squares a single cell covers in a row.
Strip(k, i, n) == {<<k, i, c>> : c \in 1..n}

LEMMA StripSize ==
  ASSUME NEW k, NEW i
  PROVE  \A n \in Nat : IsFiniteSet(Strip(k, i, n)) /\ Cardinality(Strip(k, i, n)) = n
<1>. DEFINE T == {n \in Nat : IsFiniteSet(Strip(k, i, n)) /\ Cardinality(Strip(k, i, n)) = n}
<1>1. 0 \in T
  <2>1. Strip(k, i, 0) = {}
    BY DEF Strip
  <2>. QED
    BY <2>1, FS_EmptySet
<1>2. ASSUME NEW n \in Nat, n \in T PROVE n + 1 \in T
  <2>1. Strip(k, i, n + 1) = Strip(k, i, n) \cup {<<k, i, n + 1>>}
    BY DEF Strip
  <2>2. <<k, i, n + 1>> \notin Strip(k, i, n)
    BY DEF Strip
  <2>3. IsFiniteSet(Strip(k, i, n)) /\ Cardinality(Strip(k, i, n)) = n
    BY <1>2
  <2>4. IsFiniteSet(Strip(k, i, n + 1)) /\ Cardinality(Strip(k, i, n + 1)) = n + 1
    BY <2>1, <2>2, <2>3, FS_AddElement
  <2>. QED
    BY <2>4
<1>. HIDE DEF T
<1>3. Nat \subseteq T
  BY <1>1, <1>2, OnceLaws!AllNumbers
<1>. QED
  BY <1>3 DEF T

LEMMA SizeOfTwo ==
  ASSUME NEW S, NEW T, IsFiniteSet(S), IsFiniteSet(T), S \cap T = {}
  PROVE  IsFiniteSet(S \cup T) /\ Cardinality(S \cup T) = Cardinality(S) + Cardinality(T)
<1>1. /\ IsFiniteSet(S \cup T)
      /\ Cardinality(S \cup T) = Cardinality(S) + Cardinality(T) - Cardinality(S \cap T)
  BY FS_Union
<1>2. Cardinality(S \cap T) = 0 /\ Cardinality(S) \in Nat /\ Cardinality(T) \in Nat
  BY FS_EmptySet, FS_CardinalityType
<1>. QED
  BY <1>1, <1>2

\* One more cell covers its own squares.
Adds(k, d, i, x) == IF d = 0 \/ x[1] > d THEN Strip(k, i, x[2]) ELSE {}

LEMMA CoveredLaw ==
  ASSUME NEW k \in Nat, NEW d \in Nat
  PROVE  /\ Covered(<< >>, k, k + d) = {}
         /\ \A s \in Seq(Spans) : \A x \in Spans :
              /\ Covered(Append(s, x), k, k + d) = Covered(s, k, k + d) \cup Adds(k, d, Len(s) + 1, x)
              /\ Covered(s, k, k + d) \cap Adds(k, d, Len(s) + 1, x) = {}
<1>1. Covered(<< >>, k, k + d) = {}
  BY DEF Covered
<1>2. ASSUME NEW s \in Seq(Spans), NEW i \in DOMAIN s
      PROVE  (k + d = k \/ k + s[i][1] > k + d) <=> (d = 0 \/ s[i][1] > d)
  <2>1. s[i] \in Spans
    OBVIOUS
  <2>2. s[i][1] \in Nat
    BY <2>1 DEF Spans
  <2>. QED
    BY <2>2
<1>3. \A s \in Seq(Spans) :
        Covered(s, k, k + d) = UNION {Strip(k, i, s[i][2]) : i \in {j \in DOMAIN s : d = 0 \/ s[j][1] > d}}
  BY <1>2 DEF Covered, Strip
<1>4. ASSUME NEW s \in Seq(Spans), NEW x \in Spans
      PROVE  /\ Covered(Append(s, x), k, k + d) = Covered(s, k, k + d) \cup Adds(k, d, Len(s) + 1, x)
             /\ Covered(s, k, k + d) \cap Adds(k, d, Len(s) + 1, x) = {}
  <2>. DEFINE t == Append(s, x)
  <2>1. /\ t \in Seq(Spans) /\ Len(s) \in Nat /\ DOMAIN t = DOMAIN s \cup {Len(s) + 1}
        /\ t[Len(s) + 1] = x /\ (\A i \in DOMAIN s : t[i] = s[i]) /\ Len(s) + 1 \notin DOMAIN s
    OBVIOUS
  <2>. HIDE DEF t
  <2>2. Covered(t, k, k + d) = UNION {Strip(k, i, t[i][2]) : i \in {j \in DOMAIN t : d = 0 \/ t[j][1] > d}}
    BY <1>3, <2>1
  <2>3. Covered(s, k, k + d) = UNION {Strip(k, i, s[i][2]) : i \in {j \in DOMAIN s : d = 0 \/ s[j][1] > d}}
    BY <1>3
  <2>4. Covered(t, k, k + d) = Covered(s, k, k + d) \cup Adds(k, d, Len(s) + 1, x)
    <3>1. Covered(t, k, k + d) \subseteq Covered(s, k, k + d) \cup Adds(k, d, Len(s) + 1, x)
      BY <2>1, <2>2, <2>3 DEF Adds
    <3>2. Covered(s, k, k + d) \subseteq Covered(t, k, k + d)
      BY <2>1, <2>2, <2>3
    <3>3. Adds(k, d, Len(s) + 1, x) \subseteq Covered(t, k, k + d)
      BY <2>1, <2>2 DEF Adds
    <3>. QED
      BY <3>1, <3>2, <3>3
  <2>5. \A q \in Covered(s, k, k + d) : q[2] \in DOMAIN s
    BY <2>3 DEF Strip
  <2>6. \A q \in Adds(k, d, Len(s) + 1, x) : q[2] = Len(s) + 1
    BY DEF Adds, Strip
  <2>7. Covered(s, k, k + d) \cap Adds(k, d, Len(s) + 1, x) = {}
    BY <2>1, <2>5, <2>6
  <2>. QED
    BY <2>4, <2>7 DEF t
<1>. QED
  BY <1>1, <1>4

\* What it adds to the width.
Reaching(x, d) == IF d = 0 \/ x[1] > d THEN x[2] ELSE 0

LEMMA AddsSize ==
  ASSUME NEW k, NEW d \in Nat, NEW i, NEW x \in Spans
  PROVE  /\ IsFiniteSet(Adds(k, d, i, x)) /\ Cardinality(Adds(k, d, i, x)) = Reaching(x, d)
         /\ Reaching(x, d) \in Nat
<1>1. x[1] \in Nat /\ x[2] \in Nat
  BY DEF Spans
<1>. QED
  BY <1>1, StripSize, FS_EmptySet DEF Adds, Reaching

\* How many squares a row's cells cover some rows below.
Reach(s, d) == Cardinality(Covered(s, 0, d))

\* It does not depend on which row it is.
LEMMA CoveredSize ==
  ASSUME NEW k \in Nat, NEW d \in Nat
  PROVE  \A s \in Seq(Spans) :
           /\ IsFiniteSet(Covered(s, k, k + d)) /\ Cardinality(Covered(s, k, k + d)) = Reach(s, d)
           /\ IsFiniteSet(Covered(s, 0, d)) /\ Reach(s, d) \in Nat
<1>. DEFINE T == {s \in Seq(Spans) :
           /\ IsFiniteSet(Covered(s, k, k + d)) /\ Cardinality(Covered(s, k, k + d)) = Reach(s, d)
           /\ IsFiniteSet(Covered(s, 0, d)) /\ Reach(s, d) \in Nat}
<1>0. 0 + d = d /\ 0 \in Nat
  OBVIOUS
<1>1. << >> \in T
  <2>1. Covered(<< >>, k, k + d) = {} /\ Covered(<< >>, 0, 0 + d) = {}
    BY <1>0, CoveredLaw
  <2>. QED
    BY <1>0, <2>1, FS_EmptySet, EmptySeq DEF Reach
<1>2. ASSUME NEW s \in Seq(Spans), NEW x \in Spans, s \in T PROVE Append(s, x) \in T
  <2>. DEFINE i == Len(s) + 1
              t == Append(s, x)
              n == Cardinality(Covered(s, 0, d))
  <2>1. /\ IsFiniteSet(Covered(s, k, k + d)) /\ Cardinality(Covered(s, k, k + d)) = n
        /\ IsFiniteSet(Covered(s, 0, d)) /\ n \in Nat
    BY <1>2 DEF Reach
  <2>2. /\ Covered(t, k, k + d) = Covered(s, k, k + d) \cup Adds(k, d, i, x)
        /\ Covered(s, k, k + d) \cap Adds(k, d, i, x) = {}
    BY CoveredLaw
  <2>3. /\ Covered(t, 0, 0 + d) = Covered(s, 0, 0 + d) \cup Adds(0, d, i, x)
        /\ Covered(s, 0, 0 + d) \cap Adds(0, d, i, x) = {}
    BY <1>0, CoveredLaw
  <2>4. /\ IsFiniteSet(Adds(k, d, i, x)) /\ Cardinality(Adds(k, d, i, x)) = Reaching(x, d)
        /\ IsFiniteSet(Adds(0, d, i, x)) /\ Cardinality(Adds(0, d, i, x)) = Reaching(x, d)
        /\ Reaching(x, d) \in Nat
    BY AddsSize
  <2>5. t \in Seq(Spans)
    OBVIOUS
  <2>. HIDE DEF i, t, n
  <2>6. IsFiniteSet(Covered(t, k, k + d)) /\ Cardinality(Covered(t, k, k + d)) = n + Reaching(x, d)
    <3>. DEFINE A == Covered(s, k, k + d)
                B == Adds(k, d, i, x)
    <3>1. IsFiniteSet(A) /\ IsFiniteSet(B) /\ A \cap B = {} /\ Covered(t, k, k + d) = A \cup B
      BY <2>1, <2>2, <2>4
    <3>2. Cardinality(A) = n /\ Cardinality(B) = Reaching(x, d)
      BY <2>1, <2>4
    <3>. HIDE DEF A, B
    <3>. QED
      BY <3>1, <3>2, SizeOfTwo
  <2>7. IsFiniteSet(Covered(t, 0, d)) /\ Cardinality(Covered(t, 0, d)) = n + Reaching(x, d)
    <3>1. IsFiniteSet(Covered(s, 0, 0 + d)) /\ Cardinality(Covered(s, 0, 0 + d)) = n
      BY <1>0, <2>1 DEF n
    <3>2. /\ IsFiniteSet(Covered(t, 0, 0 + d))
          /\ Cardinality(Covered(t, 0, 0 + d)) = n + Reaching(x, d)
      <4>. DEFINE A == Covered(s, 0, 0 + d)
                  B == Adds(0, d, i, x)
      <4>1. IsFiniteSet(A) /\ IsFiniteSet(B) /\ A \cap B = {} /\ Covered(t, 0, 0 + d) = A \cup B
        BY <3>1, <2>3, <2>4
      <4>2. Cardinality(A) = n /\ Cardinality(B) = Reaching(x, d)
        BY <3>1, <2>4
      <4>. HIDE DEF A, B
      <4>. QED
        BY <4>1, <4>2, SizeOfTwo
    <3>. QED
      BY <1>0, <3>2
  <2>8. n + Reaching(x, d) \in Nat
    BY <2>1, <2>4
  <2>9. t \in T
    BY <2>5, <2>6, <2>7, <2>8 DEF Reach
  <2>. QED
    BY <2>9 DEF t
<1>. HIDE DEF T
<1>3. Seq(Spans) \subseteq T
  BY <1>1, <1>2, OnceLaws!AllSequences
<1>. QED
  BY <1>3 DEF T

LEMMA ReachLaw ==
  ASSUME NEW d \in Nat
  PROVE  /\ Reach(<< >>, d) = 0
         /\ \A s \in Seq(Spans) : \A x \in Spans :
              /\ Reach(Append(s, x), d) = Reach(s, d) + Reaching(x, d)
              /\ Reach(s, d) \in Nat /\ Reaching(x, d) \in Nat
<1>1. 0 + d = d /\ 0 \in Nat
  OBVIOUS
<1>2. Reach(<< >>, d) = 0
  <2>1. Covered(<< >>, 0, 0 + d) = {}
    BY <1>1, CoveredLaw
  <2>. QED
    BY <1>1, <2>1, FS_EmptySet DEF Reach
<1>3. ASSUME NEW s \in Seq(Spans), NEW x \in Spans
      PROVE  /\ Reach(Append(s, x), d) = Reach(s, d) + Reaching(x, d)
             /\ Reach(s, d) \in Nat /\ Reaching(x, d) \in Nat
  <2>. DEFINE i == Len(s) + 1
  <2>1. /\ Covered(Append(s, x), 0, 0 + d) = Covered(s, 0, 0 + d) \cup Adds(0, d, i, x)
        /\ Covered(s, 0, 0 + d) \cap Adds(0, d, i, x) = {}
    BY <1>1, CoveredLaw
  <2>2. IsFiniteSet(Covered(s, 0, d)) /\ Reach(s, d) \in Nat
    BY <1>1, CoveredSize
  <2>3. /\ IsFiniteSet(Adds(0, d, i, x)) /\ Cardinality(Adds(0, d, i, x)) = Reaching(x, d)
        /\ Reaching(x, d) \in Nat
    BY AddsSize
  <2>4. IsFiniteSet(Covered(s, 0, 0 + d))
    BY <1>1, <2>2
  <2>5. Cardinality(Covered(Append(s, x), 0, 0 + d)) = Cardinality(Covered(s, 0, 0 + d)) + Reaching(x, d)
    BY <2>1, <2>3, <2>4, SizeOfTwo
  <2>. QED
    BY <1>1, <2>2, <2>3, <2>5 DEF Reach
<1>. QED
  BY <1>2, <1>3

LEMMA ReachOfTwo ==
  ASSUME NEW d \in Nat, NEW s \in Seq(Spans)
  PROVE  \A t \in Seq(Spans) : Reach(s \o t, d) = Reach(s, d) + Reach(t, d)
<1>. DEFINE T == {t \in Seq(Spans) : Reach(s \o t, d) = Reach(s, d) + Reach(t, d)}
<1>0. Reach(s, d) \in Nat
  <2>1. <<0, 0>> \in Spans
    BY DEF Spans
  <2>. QED
    BY <2>1, ReachLaw
<1>1. << >> \in T
  <2>1. s \o << >> = s /\ Reach(<< >>, d) = 0
    BY ReachLaw, ConcatEmptySeq
  <2>. QED
    BY <1>0, <2>1, EmptySeq
<1>2. ASSUME NEW t \in Seq(Spans), NEW x \in Spans, t \in T PROVE Append(t, x) \in T
  <2>1. s \o Append(t, x) = Append(s \o t, x) /\ s \o t \in Seq(Spans) /\ Append(t, x) \in Seq(Spans)
    OBVIOUS
  <2>2. Reach(Append(s \o t, x), d) = Reach(s \o t, d) + Reaching(x, d)
    BY <2>1, ReachLaw
  <2>3. Reach(Append(t, x), d) = Reach(t, d) + Reaching(x, d) /\ Reach(t, d) \in Nat /\ Reaching(x, d) \in Nat
    BY ReachLaw
  <2>4. Reach(s \o t, d) = Reach(s, d) + Reach(t, d)
    BY <1>2
  <2>5. Reach(s \o Append(t, x), d) = Reach(s, d) + Reach(Append(t, x), d)
    <3>. DEFINE m == Reach(t, d)
                n == Reaching(x, d)
    <3>1. m \in Nat /\ n \in Nat /\ Reach(s \o Append(t, x), d) = (Reach(s, d) + m) + n
      BY <2>1, <2>2, <2>3, <2>4
    <3>. HIDE DEF m, n
    <3>2. (Reach(s, d) + m) + n = Reach(s, d) + (m + n)
      BY <1>0, <3>1
    <3>. QED
      BY <2>3, <3>1, <3>2 DEF m, n
  <2>. QED
    BY <2>1, <2>5
<1>. HIDE DEF T
<1>3. Seq(Spans) \subseteq T
  BY <1>1, <1>2, OnceLaws!AllSequences
<1>. QED
  BY <1>3 DEF T

\* What is left over for the next row covers there what the cells cover.
LEMMA ReachLeftOver ==
  ASSUME NEW d \in Nat
  PROVE  \A s \in Seq(Spans) : LeftOver(s) \in Seq(Spans) /\ Reach(LeftOver(s), d) = Reach(s, d + 1)
<1>. DEFINE T == {s \in Seq(Spans) : LeftOver(s) \in Seq(Spans) /\ Reach(LeftOver(s), d) = Reach(s, d + 1)}
<1>0. d + 1 \in Nat /\ d + 1 # 0
  OBVIOUS
<1>1. << >> \in T
  BY <1>0, LeftOverLaw, ReachLaw, EmptySeq
<1>2. ASSUME NEW s \in Seq(Spans), NEW x \in Spans, s \in T PROVE Append(s, x) \in T
  <2>1. x[1] \in Nat /\ x[2] \in Nat /\ Append(s, x) \in Seq(Spans)
    BY DEF Spans
  <2>2. Reach(Append(s, x), d + 1) = Reach(s, d + 1) + Reaching(x, d + 1) /\ Reach(s, d + 1) \in Nat
    BY <1>0, ReachLaw
  <2>3. LeftOver(s) \in Seq(Spans) /\ Reach(LeftOver(s), d) = Reach(s, d + 1)
    BY <1>2
  <2>4. CASE x[1] > 1
    <3>. DEFINE y == <<x[1] - 1, x[2]>>
    <3>1. LeftOver(Append(s, x)) = Append(LeftOver(s), y)
      BY <2>4, LeftOverLaw
    <3>2. y \in Spans /\ Reaching(y, d) = Reaching(x, d + 1)
      <4>1. x[1] - 1 \in Nat /\ (x[1] - 1 > d <=> x[1] > d + 1)
        BY <2>1, <2>4
      <4>. QED
        BY <1>0, <2>1, <2>4, <4>1 DEF Spans, Reaching
    <3>. HIDE DEF y
    <3>3. Append(LeftOver(s), y) \in Seq(Spans)
      BY <2>3, <3>2
    <3>4. Reach(Append(LeftOver(s), y), d) = Reach(LeftOver(s), d) + Reaching(y, d)
      BY <2>3, <3>2, ReachLaw
    <3>. QED
      BY <2>1, <2>2, <2>3, <3>1, <3>2, <3>3, <3>4
  <2>5. CASE ~(x[1] > 1)
    <3>1. LeftOver(Append(s, x)) = LeftOver(s)
      BY <2>5, LeftOverLaw
    <3>2. Reaching(x, d + 1) = 0
      BY <1>0, <2>1, <2>5 DEF Reaching
    <3>. QED
      BY <2>1, <2>2, <2>3, <3>1, <3>2
  <2>. QED
    BY <2>4, <2>5
<1>. HIDE DEF T
<1>3. Seq(Spans) \subseteq T
  BY <1>1, <1>2, OnceLaws!AllSequences
<1>. QED
  BY <1>3 DEF T

LEMMA ColumnsAreReach == \A s \in Seq(Spans) : Columns(s) = Reach(s, 0)
<1>. DEFINE T == {s \in Seq(Spans) : Columns(s) = Reach(s, 0)}
<1>1. << >> \in T
  BY ColumnsLaw, ReachLaw, EmptySeq
<1>2. ASSUME NEW s \in Seq(Spans), NEW x \in Spans, s \in T PROVE Append(s, x) \in T
  BY <1>2, ColumnsLaw, ReachLaw DEF Reaching
<1>. HIDE DEF T
<1>3. Seq(Spans) \subseteq T
  BY <1>1, <1>2, OnceLaws!AllSequences
<1>. QED
  BY <1>3 DEF T

-----------------------------------------------------------------------------
(* The rows of a table and their widths                                    *)

TableLines ==
  [kind : {"row", "caption", "cells", "text", "nested", "end"}, cells : Seq(Spans)]
Rows == [cells : Seq(Spans), line : Nat, placed : BOOLEAN]

LineLaws == INSTANCE LoopLaws WITH Op <- TakeLine, Start <- BeforeLines

LinesTaken == [at : Nat, rows : Seq(Rows), open : BOOLEAN, row : Rows]

LEMMA TakeLineKeeps ==
  ASSUME NEW s \in LinesTaken, NEW line \in TableLines
  PROVE  TakeLine(s, line) \in LinesTaken
<1>. DEFINE next == [s EXCEPT !.at = @ + 1]
<1>1. s.at \in Nat /\ s.rows \in Seq(Rows) /\ s.row \in Rows /\ s.open \in BOOLEAN /\ next \in LinesTaken
  BY DEF LinesTaken
<1>2. RowClosed(s) \in Seq(Rows)
  BY <1>1 DEF RowClosed
<1>3. line.cells \in Seq(Spans) /\ s.row.cells \in Seq(Spans) /\ s.row.line \in Nat
  BY <1>1 DEF TableLines, Rows
<1>4. CASE line.kind = "row"
  <2>. DEFINE row == [cells |-> << >>, line |-> s.at, placed |-> FALSE]
  <2>1. TakeLine(s, line) = [next EXCEPT !.rows = RowClosed(s), !.open = TRUE, !.row = row]
    BY <1>4 DEF TakeLine
  <2>2. row \in Rows
    BY <1>1, EmptySeq DEF Rows
  <2>. HIDE DEF next, row
  <2>. QED
    BY <1>1, <1>2, <2>1, <2>2 DEF LinesTaken
<1>5. CASE line.kind = "end"
  <2>1. TakeLine(s, line) = [next EXCEPT !.rows = RowClosed(s), !.open = FALSE]
    BY <1>5 DEF TakeLine
  <2>. HIDE DEF next
  <2>. QED
    BY <1>1, <1>2, <2>1 DEF LinesTaken
<1>6. CASE line.kind = "cells" /\ s.open
  <2>. DEFINE row == [cells |-> s.row.cells \o line.cells, placed |-> TRUE,
                      line |-> IF s.row.placed THEN s.row.line ELSE s.at]
  <2>1. TakeLine(s, line) = [next EXCEPT !.row = row]
    BY <1>6 DEF TakeLine
  <2>2. row \in Rows
    BY <1>1, <1>3 DEF Rows
  <2>. HIDE DEF next, row
  <2>. QED
    BY <1>1, <2>1, <2>2 DEF LinesTaken
<1>7. CASE line.kind \notin {"row", "end"} /\ ~(line.kind = "cells" /\ s.open)
  <2>1. TakeLine(s, line) = next
    BY <1>7 DEF TakeLine
  <2>. QED
    BY <1>1, <2>1
<1>. QED
  BY <1>4, <1>5, <1>6, <1>7

LEMMA TableRowsAreRows == \A lines \in Seq(TableLines) : TableRows(lines) \in Seq(Rows)
<1>. DEFINE T == {lines \in Seq(TableLines) : Loop(TakeLine, BeforeLines, lines) \in LinesTaken}
<1>1. << >> \in T
  <2>1. Loop(TakeLine, BeforeLines, << >>) = BeforeLines
    BY LineLaws!LoopLaw DEF Loop, LineLaws!Loop
  <2>2. [cells |-> << >>, line |-> 0, placed |-> FALSE] \in Rows
    BY EmptySeq DEF Rows
  <2>3. BeforeLines \in LinesTaken
    BY <2>2, EmptySeq DEF LinesTaken, BeforeLines
  <2>. QED
    BY <2>1, <2>3, EmptySeq
<1>2. ASSUME NEW lines \in Seq(TableLines), NEW line \in TableLines, lines \in T PROVE Append(lines, line) \in T
  <2>1. \A E : \A s \in Seq(E) : \A x \in E :
          Loop(TakeLine, BeforeLines, Append(s, x)) = TakeLine(Loop(TakeLine, BeforeLines, s), x)
    BY LineLaws!LoopLaw DEF Loop, LineLaws!Loop
  <2>2. Loop(TakeLine, BeforeLines, lines) \in LinesTaken
    BY <1>2
  <2>3. TakeLine(Loop(TakeLine, BeforeLines, lines), line) \in LinesTaken
    BY <2>2, TakeLineKeeps
  <2>4. Loop(TakeLine, BeforeLines, Append(lines, line)) \in LinesTaken
    BY <2>1, <2>3
  <2>. QED
    BY <2>4
<1>. HIDE DEF T
<1>3. Seq(TableLines) \subseteq T
  BY <1>1, <1>2, OnceLaws!AllSequences
<1>4. \A lines \in Seq(TableLines) : Loop(TakeLine, BeforeLines, lines).rows \in Seq(Rows)
  BY <1>3 DEF T, LinesTaken
<1>. QED
  BY <1>4, EmptySeq DEF TableRows

\* The squares the first n rows cover in row r.
Squares(rows, n, r) == UNION {Covered(rows[k].cells, k, r) : k \in 1..n}

LEMMA SquaresLaw ==
  ASSUME NEW s \in Seq(Rows), NEW x \in Rows, NEW d \in Nat
  PROVE  LET t == Append(s, x)
             n == Len(s) + 1
         IN  /\ Squares(t, n, n + d) = Squares(s, Len(s), n + d) \cup Covered(x.cells, n, n + d)
             /\ Squares(s, Len(s), n + d) \cap Covered(x.cells, n, n + d) = {}
             /\ \A m \in 0..Len(s) : \A r : Squares(t, m, r) = Squares(s, m, r)
<1>. DEFINE t == Append(s, x)
            n == Len(s) + 1
<1>1. /\ Len(s) \in Nat /\ n \in Nat /\ t[n] = x /\ \A k \in 1..Len(s) : t[k] = s[k]
      /\ 1..n = (1..Len(s)) \cup {n} /\ n \notin 1..Len(s)
  OBVIOUS
<1>. HIDE DEF t, n
<1>2. \A m \in 0..Len(s) : \A r : Squares(t, m, r) = Squares(s, m, r)
  <2>1. \A m \in 0..Len(s) : \A k \in 1..m : t[k] = s[k]
    BY <1>1
  <2>. QED
    BY <2>1 DEF Squares
<1>3. Squares(t, n, n + d) = Squares(s, Len(s), n + d) \cup Covered(x.cells, n, n + d)
  <2>1. Squares(t, n, n + d) = UNION {Covered(t[k].cells, k, n + d) : k \in (1..Len(s)) \cup {n}}
    BY <1>1 DEF Squares
  <2>2. Squares(s, Len(s), n + d) = UNION {Covered(t[k].cells, k, n + d) : k \in 1..Len(s)}
    BY <1>1 DEF Squares
  <2>. QED
    BY <1>1, <2>1, <2>2
<1>4. \A cells, k, r : \A q \in Covered(cells, k, r) : q[1] = k
  BY DEF Covered
<1>5. Squares(s, Len(s), n + d) \cap Covered(x.cells, n, n + d) = {}
  <2>1. \A q \in Squares(s, Len(s), n + d) : q[1] \in 1..Len(s)
    BY <1>4 DEF Squares
  <2>2. \A q \in Covered(x.cells, n, n + d) : q[1] = n
    BY <1>4
  <2>. QED
    BY <1>1, <2>1, <2>2
<1>. QED
  BY <1>2, <1>3, <1>5 DEF t, n

NoWidths == [widths |-> << >>, active |-> << >>]
WidthLaws == INSTANCE LoopLaws WITH Op <- AddRow, Start <- NoWidths

Widened(rows) == Loop(AddRow, NoWidths, rows)

LEMMA WidenedLaw ==
  /\ Widened(<< >>) = NoWidths
  /\ \A E : \A s \in Seq(E) : \A x \in E : Widened(Append(s, x)) = AddRow(Widened(s), x)
<1>1. Loop(AddRow, NoWidths, << >>) = NoWidths
  BY WidthLaws!LoopLaw DEF Loop, WidthLaws!Loop
<1>2. \A E : \A s \in Seq(E) : \A x \in E :
        Loop(AddRow, NoWidths, Append(s, x)) = AddRow(Loop(AddRow, NoWidths, s), x)
  BY WidthLaws!LoopLaw DEF Loop, WidthLaws!Loop
<1>. QED
  BY <1>1, <1>2 DEF Widened

\* After each row the widths so far are right, and what is still active covers
\* any row below as the rows so far do.
Squared(rows, w) ==
  /\ w.active \in Seq(Spans) /\ w.widths \in Seq(Nat) /\ Len(w.widths) = Len(rows)
  /\ \A r \in 1..Len(rows) : w.widths[r] = Cardinality(Squares(rows, r, r))
  /\ \A d \in Nat :
       /\ IsFiniteSet(Squares(rows, Len(rows), Len(rows) + 1 + d))
       /\ Cardinality(Squares(rows, Len(rows), Len(rows) + 1 + d)) = Reach(w.active, d)

LEMMA AddRowKeeps ==
  ASSUME NEW s \in Seq(Rows), NEW x \in Rows, NEW w, Squared(s, w)
  PROVE  Squared(Append(s, x), AddRow(w, x))
<1>. DEFINE t == Append(s, x)
            n == Len(s) + 1
            v == AddRow(w, x)
            a == LeftOver(w.active)
            b == LeftOver(x.cells)
            width == Columns(w.active) + Columns(x.cells)
<1>1. /\ Len(s) \in Nat /\ n \in Nat /\ Len(t) = n /\ 1..n = (1..Len(s)) \cup {n}
      /\ \A r \in 1..Len(s) : r \in 0..Len(s)
  OBVIOUS
<1>2. v.widths = Append(w.widths, width) /\ v.active = a \o b
  BY DEF AddRow
<1>3. /\ w.active \in Seq(Spans) /\ w.widths \in Seq(Nat) /\ Len(w.widths) = Len(s)
      /\ x.cells \in Seq(Spans)
      /\ \A r \in 1..Len(s) : w.widths[r] = Cardinality(Squares(s, r, r))
  BY DEF Squared, Rows
<1>4. ASSUME NEW d \in Nat
      PROVE  /\ IsFiniteSet(Squares(s, Len(s), n + d))
             /\ Cardinality(Squares(s, Len(s), n + d)) = Reach(w.active, d)
  BY DEF Squared
<1>5. ASSUME NEW d \in Nat
      PROVE  /\ IsFiniteSet(Squares(t, n, n + d))
             /\ Cardinality(Squares(t, n, n + d)) = Reach(w.active, d) + Reach(x.cells, d)
  <2>1. /\ Squares(t, n, n + d) = Squares(s, Len(s), n + d) \cup Covered(x.cells, n, n + d)
        /\ Squares(s, Len(s), n + d) \cap Covered(x.cells, n, n + d) = {}
    BY SquaresLaw
  <2>2. IsFiniteSet(Covered(x.cells, n, n + d)) /\ Cardinality(Covered(x.cells, n, n + d)) = Reach(x.cells, d)
    BY <1>1, <1>3, CoveredSize
  <2>. DEFINE above == Squares(s, Len(s), n + d)
              own == Covered(x.cells, n, n + d)
              all == Squares(t, n, n + d)
  <2>3. /\ all = above \cup own /\ above \cap own = {} /\ IsFiniteSet(above) /\ IsFiniteSet(own)
        /\ Cardinality(above) = Reach(w.active, d) /\ Cardinality(own) = Reach(x.cells, d)
    BY <1>4, <2>1, <2>2
  <2>. HIDE DEF above, own, all
  <2>4. IsFiniteSet(all) /\ Cardinality(all) = Reach(w.active, d) + Reach(x.cells, d)
    <3>1. IsFiniteSet(above) /\ IsFiniteSet(own) /\ above \cap own = {}
      BY <2>3
    <3>2. /\ IsFiniteSet(above \cup own)
          /\ Cardinality(above \cup own) = Cardinality(above) + Cardinality(own)
      BY <3>1, SizeOfTwo
    <3>. QED
      BY <2>3, <3>2
  <2>. QED
    BY <2>4 DEF all
<1>6. \A m \in 0..Len(s) : \A r : Squares(t, m, r) = Squares(s, m, r)
  <2>1. 0 \in Nat
    OBVIOUS
  <2>. QED
    BY <2>1, SquaresLaw
<1>7. /\ a \in Seq(Spans) /\ b \in Seq(Spans)
      /\ \A d \in Nat : Reach(a, d) = Reach(w.active, d + 1) /\ Reach(b, d) = Reach(x.cells, d + 1)
  BY <1>3, ReachLeftOver
<1>8. /\ width = Reach(w.active, 0) + Reach(x.cells, 0)
      /\ Reach(w.active, 0) \in Nat /\ Reach(x.cells, 0) \in Nat
  <2>1. 0 \in Nat /\ <<0, 0>> \in Spans
    BY DEF Spans
  <2>2. \A c \in Seq(Spans) : Reach(c, 0) \in Nat
    BY <2>1, ReachLaw
  <2>. QED
    BY <1>3, <2>2, ColumnsAreReach
<1>. HIDE DEF t, n, v, a, b, width
<1>9. width = Cardinality(Squares(t, n, n)) /\ width \in Nat
  <2>1. n + 0 = n
    BY <1>1
  <2>2. Cardinality(Squares(t, n, n + 0)) = Reach(w.active, 0) + Reach(x.cells, 0)
    BY <1>5
  <2>. QED
    BY <1>8, <2>1, <2>2
<1>10. v.widths \in Seq(Nat) /\ Len(v.widths) = n
  BY <1>2, <1>3, <1>9 DEF n
<1>11. \A r \in 1..n : v.widths[r] = Cardinality(Squares(t, r, r))
  <2>1. ASSUME NEW r \in 1..Len(s) PROVE v.widths[r] = Cardinality(Squares(t, r, r))
    BY <1>1, <1>2, <1>3, <1>6, <1>9
  <2>2. v.widths[n] = width
    BY <1>1, <1>2, <1>3, <1>9 DEF n
  <2>. QED
    BY <1>1, <1>9, <2>1, <2>2
<1>12. v.active \in Seq(Spans)
  BY <1>2, <1>7
<1>13. ASSUME NEW d \in Nat
       PROVE  /\ IsFiniteSet(Squares(t, n, n + 1 + d))
              /\ Cardinality(Squares(t, n, n + 1 + d)) = Reach(v.active, d)
  <2>1. d + 1 \in Nat /\ n + 1 + d = n + (d + 1)
    BY <1>1
  <2>2. /\ IsFiniteSet(Squares(t, n, n + (d + 1)))
        /\ Cardinality(Squares(t, n, n + (d + 1))) = Reach(w.active, d + 1) + Reach(x.cells, d + 1)
    BY <1>5, <2>1
  <2>3. Reach(a \o b, d) = Reach(a, d) + Reach(b, d)
    BY <1>7, ReachOfTwo
  <2>4. Reach(a, d) = Reach(w.active, d + 1) /\ Reach(b, d) = Reach(x.cells, d + 1)
    BY <1>7
  <2>. QED
    BY <1>2, <2>1, <2>2, <2>3, <2>4
<1>14. Squared(t, v)
  BY <1>1, <1>10, <1>11, <1>12, <1>13 DEF Squared
<1>. QED
  BY <1>14 DEF t, v

\* Every row's width is the number of squares in it.
LEMMA WidthsAreSquares ==
  ASSUME NEW rows \in Seq(Rows)
  PROVE  /\ Widths(rows) \in Seq(Nat) /\ Len(Widths(rows)) = Len(rows)
         /\ \A r \in DOMAIN rows : Widths(rows)[r] = WidthAt(rows, r)
<1>. DEFINE T == {s \in Seq(Rows) : Squared(s, Widened(s))}
<1>1. << >> \in T
  <2>1. \A r : Squares(<< >>, 0, r) = {}
    BY DEF Squares
  <2>2. NoWidths.active = << >> /\ NoWidths.widths = << >> /\ Len(<< >>) = 0 /\ 1..0 = {}
    BY DEF NoWidths
  <2>3. Squared(<< >>, NoWidths)
    BY <2>1, <2>2, ReachLaw, FS_EmptySet, EmptySeq DEF Squared
  <2>. QED
    BY <2>3, WidenedLaw, EmptySeq
<1>2. ASSUME NEW s \in Seq(Rows), NEW x \in Rows, s \in T PROVE Append(s, x) \in T
  <2>1. Squared(Append(s, x), AddRow(Widened(s), x))
    BY <1>2, AddRowKeeps
  <2>2. Widened(Append(s, x)) = AddRow(Widened(s), x) /\ Append(s, x) \in Seq(Rows)
    BY WidenedLaw
  <2>. QED
    BY <2>1, <2>2
<1>. HIDE DEF T
<1>3. Seq(Rows) \subseteq T
  BY <1>1, <1>2, OnceLaws!AllSequences
<1>4. Squared(rows, Widened(rows))
  BY <1>3 DEF T
<1>5. Widths(rows) = Widened(rows).widths
  BY DEF Widths, Widened, NoWidths
<1>6. \A r : WidthAt(rows, r) = Cardinality(Squares(rows, r, r))
  BY DEF WidthAt, Squares
<1>7. DOMAIN rows = 1..Len(rows)
  OBVIOUS
<1>. QED
  BY <1>4, <1>5, <1>6, <1>7 DEF Squared

-----------------------------------------------------------------------------
(* The rows that are reported                                              *)

LEMMA RangeSize == \A n \in Nat : IsFiniteSet(1..n) /\ Cardinality(1..n) = n
<1>. SUFFICES ASSUME NEW n \in Nat PROVE IsFiniteSet(1..n) /\ Cardinality(1..n) = n
  OBVIOUS
<1>1. 1 \in Int /\ n \in Int
  OBVIOUS
<1>2. IsFiniteSet(1..n) /\ Cardinality(1..n) = IF 1 > n THEN 0 ELSE n - 1 + 1
  BY <1>1, FS_Interval
<1>. QED
  BY <1>2

LEMMA MostFrequent ==
  ASSUME NEW ws \in Seq(Nat), ws # << >>
  PROVE  \E i \in DOMAIN ws :
           /\ ExpectedWidth(ws) = ws[i]
           /\ \A j \in DOMAIN ws : CountOf(ws, ws[j]) <= CountOf(ws, ws[i])
<1>. DEFINE count == [i \in DOMAIN ws |-> CountOf(ws, ws[i])]
            S == {i \in DOMAIN ws : \A j \in DOMAIN ws : count[j] <= count[i]}
<1>1. IsFiniteSet(DOMAIN ws) /\ DOMAIN ws = 1..Len(ws) /\ Len(ws) \in Nat /\ Len(ws) # 0
  BY EmptySeq, RangeSize
<1>2. \A w : CountOf(ws, w) \in Nat /\ CountOf(ws, w) <= Len(ws)
  <2>1. Cardinality(DOMAIN ws) = Len(ws)
    BY <1>1, RangeSize
  <2>2. ASSUME NEW S1 \in SUBSET DOMAIN ws PROVE Cardinality(S1) \in Nat /\ Cardinality(S1) <= Len(ws)
    BY <1>1, <2>1, FS_Subset, FS_CardinalityType
  <2>3. \A w : {p \in DOMAIN ws : ws[p] = w} \in SUBSET DOMAIN ws
    OBVIOUS
  <2>. QED
    BY <2>2, <2>3 DEF CountOf
<1>3. S # {}
  <2>. DEFINE short == {Len(ws) - count[i] : i \in DOMAIN ws}
  <2>1. \A i \in DOMAIN ws : count[i] \in Nat /\ count[i] <= Len(ws)
    BY <1>2
  <2>2. short \in SUBSET Nat /\ short # {}
    <3>1. 1 \in DOMAIN ws
      BY <1>1
    <3>2. \A i \in DOMAIN ws : Len(ws) - count[i] \in Nat
      BY <1>1, <2>1
    <3>. QED
      BY <3>1, <3>2
  <2>3. Min(short) \in short /\ \A n \in short : Min(short) <= n
    <3>. HIDE DEF short
    <3>. QED
      BY <2>2, SmallestOf
  <2>. HIDE DEF count
  <2>4. PICK i \in DOMAIN ws : \A n \in short : Len(ws) - count[i] <= n
    BY <2>3
  <2>5. ASSUME NEW j \in DOMAIN ws PROVE count[j] <= count[i]
    <3>1. Len(ws) - count[i] <= Len(ws) - count[j]
      BY <2>4
    <3>. QED
      BY <1>1, <2>1, <3>1
  <2>. QED
    BY <2>5
<1>4. S \in SUBSET Nat
  BY <1>1
<1>5. ExpectedWidth(ws) = ws[Min(S)]
  BY DEF ExpectedWidth
<1>6. Min(S) \in S
  <2>. HIDE DEF S
  <2>. QED
    BY <1>3, <1>4, SmallestOf
<1>. QED
  BY <1>5, <1>6

\* With one width there is nothing to report; with one odd row among more than
\* two, that row is.
LEMMA OnlyOddReported ==
  ASSUME NEW lines, NEW rows, NEW ws \in Seq(Nat), rows = TableRows(lines), ws = Widths(rows),
         Len(ws) = Len(rows), DOMAIN rows = DOMAIN ws
  PROVE  /\ (\A r, s \in DOMAIN ws : ws[r] = ws[s]) => OffWidthRows(lines) = {}
         /\ \A odd \in DOMAIN ws :
              Len(ws) > 2 /\ (\A r, s \in DOMAIN ws \ {odd} : ws[r] = ws[s])
                /\ ~(\A r, s \in DOMAIN ws : ws[r] = ws[s])
              => OffWidthRows(lines) = {odd}
<1>. DEFINE fits(i) == i \notin DOMAIN ws \/ ws[i] = ExpectedWidth(ws)
<1>1. OffWidthRows(lines) =
        IF Len(ws) < 2 THEN {} ELSE {i \in DOMAIN ws : ~fits(i) /\ fits(i - 1) /\ fits(i + 1)}
  BY DEF OffWidthRows
<1>2. DOMAIN ws = 1..Len(ws) /\ Len(ws) \in Nat
  OBVIOUS
<1>3. ASSUME \A r, s \in DOMAIN ws : ws[r] = ws[s] PROVE OffWidthRows(lines) = {}
  <2>1. CASE Len(ws) < 2
    BY <1>1, <2>1
  <2>2. CASE ~(Len(ws) < 2)
    <3>1. ws # << >>
      BY <2>2
    <3>2. \A i \in DOMAIN ws : fits(i)
      BY <1>3, <3>1, MostFrequent
    <3>. HIDE DEF fits
    <3>. QED
      BY <1>1, <3>2
  <2>. QED
    BY <2>1, <2>2
<1>4. ASSUME NEW odd \in DOMAIN ws, Len(ws) > 2, \A r, s \in DOMAIN ws \ {odd} : ws[r] = ws[s],
             ~(\A r, s \in DOMAIN ws : ws[r] = ws[s])
      PROVE  OffWidthRows(lines) = {odd}
  <2>1. \A r \in DOMAIN ws \ {odd} : ws[r] # ws[odd]
    BY <1>4
  <2>2. CountOf(ws, ws[odd]) = 1
    <3>1. {p \in DOMAIN ws : ws[p] = ws[odd]} = {odd}
      BY <2>1
    <3>. QED
      BY <3>1, FS_Singleton DEF CountOf
  <2>3. ASSUME NEW r \in DOMAIN ws \ {odd} PROVE CountOf(ws, ws[r]) = Len(ws) - 1
    <3>1. {p \in DOMAIN ws : ws[p] = ws[r]} = DOMAIN ws \ {odd}
      BY <1>4, <2>1
    <3>2. IsFiniteSet(DOMAIN ws) /\ Cardinality(DOMAIN ws) = Len(ws)
      BY <1>2, RangeSize
    <3>3. Cardinality(DOMAIN ws \ {odd}) = Len(ws) - 1
      <4>. DEFINE all == DOMAIN ws
      <4>1. IsFiniteSet(all) /\ odd \in all
        BY <3>2
      <4>. HIDE DEF all
      <4>2. Cardinality(all \ {odd}) = Cardinality(all) - 1
        BY <4>1, FS_RemoveElement
      <4>. QED
        BY <3>2, <4>2 DEF all
    <3>. QED
      BY <3>1, <3>3 DEF CountOf
  <2>4. \E r \in DOMAIN ws : r # odd
    <3>1. 1 \in DOMAIN ws /\ 2 \in DOMAIN ws
      BY <1>2, <1>4
    <3>. QED
      BY <3>1
  <2>5. PICK i \in DOMAIN ws : /\ ExpectedWidth(ws) = ws[i]
                               /\ \A j \in DOMAIN ws : CountOf(ws, ws[j]) <= CountOf(ws, ws[i])
    <3>1. ws # << >>
      BY <1>4
    <3>. QED
      BY <3>1, MostFrequent
  <2>6. i # odd
    <3>1. PICK r \in DOMAIN ws : r # odd
      BY <2>4
    <3>2. CountOf(ws, ws[r]) = Len(ws) - 1 /\ CountOf(ws, ws[r]) <= CountOf(ws, ws[i])
      BY <2>3, <2>5, <3>1
    <3>. QED
      BY <1>2, <1>4, <2>2, <3>2
  <2>7. \A r \in DOMAIN ws : fits(r) <=> r # odd
    BY <1>4, <2>1, <2>5, <2>6
  <2>8. fits(odd - 1) /\ fits(odd + 1)
    <3>1. odd \in Nat /\ odd - 1 # odd /\ odd + 1 # odd
      BY <1>2
    <3>. QED
      BY <2>7, <3>1
  <2>. HIDE DEF fits
  <2>. QED
    BY <1>1, <1>4, <2>7, <2>8
<1>. QED
  BY <1>3, <1>4

\* Whatever spans the cells of a table have: the rows are as wide as the squares
\* in them, a table of equally wide rows is not reported, and of one with a
\* single odd row that row is.
THEOREM EveryTableIsJudged == \A lines \in Seq(TableLines) : TablesAreJudged(lines)
<1>. SUFFICES ASSUME NEW lines \in Seq(TableLines) PROVE TablesAreJudged(lines)
  OBVIOUS
<1>. DEFINE rows == TableRows(lines)
            ws == Widths(rows)
<1>1. rows \in Seq(Rows)
  BY TableRowsAreRows
<1>. HIDE DEF rows
<1>2. /\ ws \in Seq(Nat) /\ Len(ws) = Len(rows)
      /\ \A r \in DOMAIN rows : WidthAt(rows, r) = ws[r]
  BY <1>1, WidthsAreSquares
<1>3. DOMAIN rows = DOMAIN ws
  BY <1>1, <1>2
<1>. DEFINE same == \A r, s \in DOMAIN ws : ws[r] = ws[s]
            alone(odd) == \A r, s \in DOMAIN ws \ {odd} : ws[r] = ws[s]
<1>4. /\ same => OffWidthRows(lines) = {}
      /\ \A odd \in DOMAIN ws : Len(ws) > 2 /\ alone(odd) /\ ~same => OffWidthRows(lines) = {odd}
  <2>1. rows = TableRows(lines) /\ ws = Widths(rows)
    BY DEF rows
  <2>. HIDE DEF ws
  <2>. QED
    BY SMTT(30), <1>2, <1>3, <2>1, OnlyOddReported
<1>5. TablesAreJudged(lines) <=>
        /\ (\A r, s \in DOMAIN rows : WidthAt(rows, r) = WidthAt(rows, s)) => OffWidthRows(lines) = {}
        /\ \A odd \in DOMAIN rows :
             /\ Len(rows) > 2
             /\ \A r, s \in DOMAIN rows \ {odd} : WidthAt(rows, r) = WidthAt(rows, s)
             /\ ~(\A r, s \in DOMAIN rows : WidthAt(rows, r) = WidthAt(rows, s))
             => OffWidthRows(lines) = {odd}
  BY DEF TablesAreJudged, rows
<1>. HIDE DEF ws
<1>6. /\ same <=> \A r, s \in DOMAIN rows : WidthAt(rows, r) = WidthAt(rows, s)
      /\ \A odd : alone(odd) <=> \A r, s \in DOMAIN rows \ {odd} : WidthAt(rows, r) = WidthAt(rows, s)
  BY <1>2, <1>3
<1>. HIDE DEF same, alone
<1>. QED
  BY <1>2, <1>3, <1>4, <1>5, <1>6

\* The tables TLC tries, at any length.
THEOREM InputTablesAreJudged == Spec => []TablesJudgedRight
<1>1. InputInv => TablesJudgedRight
  <2>. SUFFICES ASSUME InputInv, part = "tables" PROVE TablesAreJudged(Closed(input))
    BY DEF TablesJudgedRight
  <2>1. input \in Seq(LineElements)
    BY DEF InputInv, Elements
  <2>2. /\ << >> \in Seq(Spans) /\ <<<<1, 1>>>> \in Seq(Spans) /\ <<<<1, 1>>, <<1, 1>>>> \in Seq(Spans)
        /\ <<<<2, 1>>, <<1, 1>>>> \in Seq(Spans) /\ <<<<3, 2>>>> \in Seq(Spans)
        /\ <<<<0, 1>>, <<1, 1>>>> \in Seq(Spans)
    <3>1. <<1, 1>> \in Spans /\ <<2, 1>> \in Spans /\ <<3, 2>> \in Spans /\ <<0, 1>> \in Spans
      BY DEF Spans
    <3>. QED
      BY <3>1, EmptySeq
  <2>3. \A e \in LineElements : e \in TableLines
    <3>1. \A kind \in {"row", "text", "cells"} : \A cells \in Seq(Spans) : Line(kind, cells) \in TableLines
      BY DEF Line, TableLines
    <3>2. /\ Line("row", << >>) \in TableLines /\ Line("text", << >>) \in TableLines
          /\ Line("cells", <<<<1, 1>>>>) \in TableLines
          /\ Line("cells", <<<<1, 1>>, <<1, 1>>>>) \in TableLines
          /\ Line("cells", <<<<2, 1>>, <<1, 1>>>>) \in TableLines
          /\ Line("cells", <<<<3, 2>>>>) \in TableLines
          /\ Line("cells", <<<<0, 1>>, <<1, 1>>>>) \in TableLines
      BY <2>2, <3>1
    <3>. QED
      BY <3>2, Zenon DEF LineElements
  <2>4. Line("end", << >>) \in TableLines
    BY <2>2 DEF Line, TableLines
  <2>5. input \in Seq(TableLines)
    BY <2>1, <2>3
  <2>6. Closed(input) \in Seq(TableLines)
    BY <2>4, <2>5 DEF Closed
  <2>. QED
    BY <2>6, EveryTableIsJudged
<1>. QED
  BY <1>1, InputsAreSequences, PTL
=============================================================================
