------------------------ MODULE SymbolsRefinementProofs ------------------------
(***************************************************************************)
(* The assembler keeps what module Scoping promises about names, proved    *)
(* for any names, literals and parameter lists and for all bounds, for     *)
(* programs without the literal NaN.                                       *)
(***************************************************************************)
EXTENDS SymbolsProofs, WellFoundedInduction

(* Where the parts of local_variables_ begin and end, for brackets bs and  *)
(* n local variables.                                                      *)
Edges(bs, n) == <<0>> \o bs \o <<n>>

(* The place p is the last one from a + 1 to b where the list ls has x.    *)
Newest(ls, a, b, x, p) ==
  p \in a + 1 .. b /\ ls[p] = x /\ \A q \in a + 1 .. b : ls[q] = x => q <= p

(* The names in that part of the list.                                     *)
Named(ls, a, b) == {ls[p] : p \in a + 1 .. b}

(* The scope in that part of the list: a name means what the frame fr has  *)
(* at its last place.                                                      *)
ScopeAt(ls, fr, a, b) ==
  [x \in Named(ls, a, b) |->
     fr[CHOOSE p \in a + 1 .. b : ls[p] = x /\ \A q \in a + 1 .. b : ls[q] = x => q <= p]]

(* The scopes that the brackets bs make of the list.                       *)
Cuts(ls, fr, bs) ==
  [i \in 1 .. Len(bs) + 1 |->
     ScopeAt(ls, fr, Edges(bs, Len(ls))[i], Edges(bs, Len(ls))[i + 1])]

(* The scope s with one more name, x, which means d.                       *)
Extended(s, x, d) == [y \in DOMAIN s \cup {x} |-> IF y = x THEN d ELSE s[y]]

(* The lists ls2 and fr2 have one more element at z than ls and fr have     *)
(* from a + 1 to b, and its name is new there.                             *)
Longer(ls, fr, a, b, ls2, fr2, z) ==
  /\ a <= b /\ z = b + 1
  /\ \A p \in a + 1 .. b : ls2[p] = ls[p] /\ fr2[p] = fr[p]
  /\ ls2[z] \notin DOMAIN ScopeAt(ls, fr, a, b)

(* s is a function on 1 .. n.                                              *)
Listed(s, n) == s = [i \in 1 .. n |-> s[i]]

(* Brackets as they nest in a list with a frame.                           *)
WellCut(ls, fr, bs) ==
  /\ ls \in Seq(Names \cup {Dummy}) /\ fr \in Seq(Nat) /\ Len(ls) <= Len(fr)
  /\ bs \in Seq(Nat) /\ bs # <<>> /\ \A i \in 1 .. Len(bs) : bs[i] <= Len(ls)
  /\ \A i, j \in 1 .. Len(bs) : i <= j => bs[i] <= bs[j]

(* ls2 and b2 are ls and bs without the innermost block.                   *)
WithoutBlock(ls, bs, ls2, b2) ==
  /\ Len(bs) > 1
  /\ ls2 = SubSeq(ls, 1, bs[Len(bs)]) /\ b2 = SubSeq(bs, 1, Len(bs) - 1)

(* ls2 and fr2 are ls and fr with one more declaration, d, of the name x.  *)
WithDeclaration(ls, fr, bs, ls2, fr2, x, d) ==
  /\ ls2 = Append(ls, x) /\ \A p \in 1 .. Len(ls) : fr2[p] = fr[p]
  /\ fr2[Len(ls) + 1] = d
  /\ x \notin DOMAIN Cuts(ls, fr, bs)[Len(bs) + 1]

(* The scopes c with one more name in the innermost one.                   *)
InnermostExtended(c, x, d) == [c EXCEPT ![Len(c)] = Extended(c[Len(c)], x, d)]

(* An exported name is that of its function.                               *)
Registered ==
  \A f \in DOMAIN exports : /\ exports[f] \in DOMAIN functions
                            /\ functions[exports[f]].name = f

(* Every local variable has its slot, and an assembler that did not begin  *)
(* a function has none.                                                    *)
FrameKept ==
  /\ monitor.recorded \in BOOLEAN /\ (~monitor.recorded => locals = <<>>)
  /\ frame \in Seq(Nat)
  /\ status = "body" => Len(locals) <= Len(frame)

(* The invariant under which every step is one that Scoping allows.        *)
Kept == Inductive /\ Scopes /\ Registered /\ FrameKept

-----------------------------------------------------------------------------
(* Parts of a list.                                                        *)

(* Of some numbers up to n one is the largest.                             *)
LEMMA Largest ==
  ASSUME NEW n \in Nat, NEW T \in SUBSET (1 .. n), T # {}
  PROVE  \E p \in T : \A q \in T : q <= p
<1> DEFINE D == {k \in Nat : n - k \in T}
<1>1. D # {}
  <2>1. PICK p : p \in T
    OBVIOUS
  <2>2. n - p \in Nat /\ n - (n - p) = p
    BY <2>1
  <2> QED BY <2>1, <2>2
<1>2. PICK k \in D : \A j \in D : ~(<<j, k>> \in OpToRel(<, Nat))
  BY <1>1, NatLessThanWellFounded, WFMin
<1>3. \A j \in D : ~(j < k)
  BY <1>2 DEF OpToRel
<1>4. ASSUME NEW q \in T PROVE q <= n - k
  <2>1. n - q \in D
    <3>1. n - q \in Nat /\ n - (n - q) = q
      OBVIOUS
    <3> QED BY <3>1
  <2> QED BY <1>3, <2>1
<1> QED BY <1>4

(* A name in a part of the list has a last place there, and only one.      *)
LEMMA NewestPlace ==
  ASSUME NEW ls, NEW a \in Nat, NEW b \in Nat, NEW p \in a + 1 .. b
  PROVE  \E q \in a + 1 .. b : Newest(ls, a, b, ls[p], q)
<1> DEFINE T == {q \in a + 1 .. b : ls[q] = ls[p]}
<1>1. T \in SUBSET (1 .. b) /\ T # {}
  OBVIOUS
<1>2. PICK q \in T : \A r \in T : r <= q
  BY <1>1, Largest
<1> QED BY <1>2 DEF Newest

(* There is no other last place.                                           *)
LEMMA OneNewest ==
  ASSUME NEW ls, NEW a \in Nat, NEW b \in Nat, NEW x, NEW p, Newest(ls, a, b, x, p),
         NEW q, Newest(ls, a, b, x, q)
  PROVE  p = q
  BY DEF Newest

(* What a name means in a scope.                                           *)
LEMMA ScopeMeaning ==
  ASSUME NEW ls, NEW fr, NEW a \in Nat, NEW b \in Nat, NEW x, NEW p, Newest(ls, a, b, x, p)
  PROVE  x \in DOMAIN ScopeAt(ls, fr, a, b) /\ ScopeAt(ls, fr, a, b)[x] = fr[p]
<1> DEFINE c == CHOOSE q \in a + 1 .. b : ls[q] = x /\ \A r \in a + 1 .. b : ls[r] = x => r <= q
<1>1. p \in a + 1 .. b /\ ls[p] = x
  BY DEF Newest
<1>2. Newest(ls, a, b, x, c)
  BY DEF Newest
<1>3. c = p
  BY <1>2, OneNewest
<1> QED BY <1>1, <1>3 DEF ScopeAt, Named

(* The names of a scope.                                                   *)
LEMMA ScopeNames ==
  ASSUME NEW ls, NEW fr, NEW a \in Nat, NEW b \in Nat
  PROVE  /\ DOMAIN ScopeAt(ls, fr, a, b) = Named(ls, a, b)
         /\ ScopeAt(ls, fr, a, b)
              = [x \in DOMAIN ScopeAt(ls, fr, a, b) |-> ScopeAt(ls, fr, a, b)[x]]
         /\ \A x \in DOMAIN ScopeAt(ls, fr, a, b) :
              \E p \in a + 1 .. b : Newest(ls, a, b, x, p)
  BY NewestPlace DEF ScopeAt, Named

(* Two scopes that give the same names the same meaning.                   *)
LEMMA ScopeEqual ==
  ASSUME NEW ls, NEW fr, NEW a \in Nat, NEW b \in Nat,
         NEW D, NEW g, g = [x \in D |-> g[x]], D = Named(ls, a, b),
         \A x \in D : \A p : Newest(ls, a, b, x, p) => g[x] = fr[p]
  PROVE  ScopeAt(ls, fr, a, b) = g
<1> DEFINE s == ScopeAt(ls, fr, a, b)
<1>1. /\ DOMAIN s = D /\ s = [x \in DOMAIN s |-> s[x]]
      /\ \A x \in D : \E p \in a + 1 .. b : Newest(ls, a, b, x, p)
  <2>1. D = Named(ls, a, b)
    OBVIOUS
  <2> QED BY ONLY <2>1, a \in Nat, b \in Nat, ScopeNames
<1>2. ASSUME NEW x \in D PROVE s[x] = g[x]
  <2>1. PICK p : Newest(ls, a, b, x, p)
    BY <1>1
  <2>2. s[x] = fr[p]
    BY ONLY <2>1, a \in Nat, b \in Nat, ScopeMeaning
  <2> QED BY <2>1, <2>2
<1> HIDE DEF s
<1>3. s = g
  BY <1>1, <1>2
<1> QED BY <1>3 DEF s

(* A scope depends on its part of the list and of the frame alone.         *)
LEMMA ScopeSame ==
  ASSUME NEW ls, NEW fr, NEW a \in Nat, NEW b \in Nat, NEW ls2, NEW fr2,
         \A p \in a + 1 .. b : ls2[p] = ls[p] /\ fr2[p] = fr[p]
  PROVE  ScopeAt(ls2, fr2, a, b) = ScopeAt(ls, fr, a, b)
<1> DEFINE g == ScopeAt(ls, fr, a, b)
           D == Named(ls2, a, b)
<1>1. D = Named(ls, a, b)
  BY DEF Named
<1>2. g = [x \in D |-> g[x]]
  BY ONLY <1>1, a \in Nat, b \in Nat, ScopeNames
<1>3. ASSUME NEW x \in D, NEW p, Newest(ls2, a, b, x, p) PROVE g[x] = fr2[p]
  <2>1. Newest(ls, a, b, x, p) /\ p \in a + 1 .. b
    BY <1>3 DEF Newest
  <2>2. g[x] = fr[p]
    BY ONLY <2>1, a \in Nat, b \in Nat, ScopeMeaning
  <2> QED BY <2>1, <2>2
<1>4. D = Named(ls2, a, b)
  OBVIOUS
<1> HIDE DEF g, D
<1>5. ScopeAt(ls2, fr2, a, b) = g
  BY ONLY <1>2, <1>3, <1>4, a \in Nat, b \in Nat, ScopeEqual
<1> QED BY <1>5 DEF g

(* A block just opened declares nothing.                                   *)
LEMMA ScopeEmpty ==
  ASSUME NEW ls, NEW fr, NEW a \in Nat
  PROVE  ScopeAt(ls, fr, a, a) = [x \in {} |-> 0]
<1>1. a + 1 .. a = {}
  OBVIOUS
<1> QED BY <1>1 DEF ScopeAt, Named

(* A declaration at the end of the list.                                   *)
LEMMA ScopeMore ==
  ASSUME NEW ls, NEW fr, NEW a \in Nat, NEW b \in Nat, NEW ls2, NEW fr2, NEW z,
         Longer(ls, fr, a, b, ls2, fr2, z)
  PROVE  ScopeAt(ls2, fr2, a, z) = Extended(ScopeAt(ls, fr, a, b), ls2[z], fr2[z])
<1>0. /\ a <= b /\ z = b + 1
      /\ \A p \in a + 1 .. b : ls2[p] = ls[p] /\ fr2[p] = fr[p]
      /\ ls2[z] \notin DOMAIN ScopeAt(ls, fr, a, b)
  BY DEF Longer
<1> DEFINE s == ScopeAt(ls, fr, a, b)
           x == ls2[b + 1]
           D == DOMAIN s \cup {x}
           g == [y \in D |-> IF y = x THEN fr2[b + 1] ELSE s[y]]
<1>1. DOMAIN s = {ls[p] : p \in a + 1 .. b}
  <2>1. DOMAIN s = Named(ls, a, b)
    BY ONLY a \in Nat, b \in Nat, ScopeNames
  <2> QED BY <2>1 DEF Named
<1>2. ASSUME NEW y, NEW p, Newest(ls, a, b, y, p) PROVE s[y] = fr[p]
  <2>1. y \in DOMAIN ScopeAt(ls, fr, a, b) /\ ScopeAt(ls, fr, a, b)[y] = fr[p]
    BY ONLY <1>2, a \in Nat, b \in Nat, ScopeMeaning
  <2> QED BY <2>1
<1> HIDE DEF s
<1>3. a + 1 .. b + 1 = (a + 1 .. b) \cup {b + 1} /\ b + 1 \notin a + 1 .. b
  BY <1>0
<1>4. D = Named(ls2, a, b + 1)
  BY <1>0, <1>1, <1>3 DEF Named
<1>5. ASSUME NEW y \in D, NEW p, Newest(ls2, a, b + 1, y, p) PROVE g[y] = fr2[p]
  <2>1. p \in a + 1 .. b + 1 /\ ls2[p] = y /\ \A q \in a + 1 .. b + 1 : ls2[q] = y => q <= p
    BY <1>5 DEF Newest
  <2>2. CASE p = b + 1
    BY <2>1, <2>2
  <2>3. CASE p # b + 1
    <3>1. p \in a + 1 .. b /\ ls[p] = y /\ fr2[p] = fr[p]
      BY <1>0, <1>3, <2>1, <2>3
    <3>2. y # x
      BY <1>0, <1>1, <3>1 DEF s
    <3>3. Newest(ls, a, b, y, p)
      BY <1>0, <1>3, <2>1, <3>1 DEF Newest
    <3>4. s[y] = fr[p]
      BY <3>3, <1>2
    <3> QED BY <3>1, <3>2, <3>4
  <2> QED BY <2>2, <2>3
<1>6. g = [y \in D |-> g[y]]
  OBVIOUS
<1> HIDE DEF g, D
<1>7. b + 1 \in Nat
  OBVIOUS
<1>8. ScopeAt(ls2, fr2, a, b + 1) = g
  BY ONLY <1>4, <1>5, <1>6, <1>7, a \in Nat, ScopeEqual
<1> QED BY <1>0, <1>8 DEF g, D, s, Extended

-----------------------------------------------------------------------------
(* Lists.                                                                  *)

(* A function on 1 .. n is a list.                                         *)
LEMMA ListTyped ==
  ASSUME NEW n \in Nat, NEW S, NEW s \in [1 .. n -> S]
  PROVE  s \in Seq(S) /\ Len(s) = n
  OBVIOUS

(* One more element at the end.                                            *)
LEMMA ListAppend ==
  ASSUME NEW n \in Nat, NEW s, Listed(s, n), NEW t, Listed(t, n + 1),
         \A i \in 1 .. n : t[i] = s[i]
  PROVE  t = Append(s, t[n + 1])
<1> DEFINE u == Append(s, t[n + 1])
           S == {t[i] : i \in 1 .. n + 1}
<1>1. n + 1 \in Nat /\ t[n + 1] \in S /\ \A i \in 1 .. n : i \in 1 .. n + 1
  OBVIOUS
<1>2. s \in [1 .. n -> S] /\ t \in [1 .. n + 1 -> S]
  <2>1. \A i \in 1 .. n + 1 : t[i] \in S
    OBVIOUS
  <2>2. \A i \in 1 .. n : s[i] \in S
    BY <1>1, <2>1
  <2> HIDE DEF S
  <2> QED BY <2>1, <2>2 DEF Listed
<1> HIDE DEF S
<1>3. s \in Seq(S) /\ Len(s) = n
  BY <1>2, ListTyped
<1>4. t \in Seq(S) /\ Len(t) = n + 1
  BY <1>1, <1>2, ListTyped
<1>5. /\ u \in Seq(S) /\ Len(u) = n + 1 /\ u[n + 1] = t[n + 1]
      /\ \A i \in 1 .. n : u[i] = s[i]
  BY <1>1, <1>3, AppendProperties
<1> HIDE DEF u
<1>6. ASSUME NEW i \in 1 .. n + 1 PROVE u[i] = t[i]
  <2>1. CASE i = n + 1
    BY <1>5, <2>1
  <2>2. CASE i # n + 1
    <3>1. i \in 1 .. n
      BY <2>2
    <3> QED BY <1>5, <3>1
  <2> QED BY <2>1, <2>2
<1>7. u = t
  BY <1>4, <1>5, <1>6, SeqEqual
<1> QED BY <1>7 DEF u

(* The last element is gone.                                               *)
LEMMA ListFront ==
  ASSUME NEW n \in Nat, NEW s, Listed(s, n + 1), NEW t, Listed(t, n),
         \A i \in 1 .. n : t[i] = s[i]
  PROVE  t = SubSeq(s, 1, n) /\ Len(s) = n + 1
<1> DEFINE u == SubSeq(s, 1, n)
           S == {s[i] : i \in 1 .. n + 1}
<1>1. n + 1 \in Nat /\ \A i \in 1 .. n : i \in 1 .. n + 1
  OBVIOUS
<1>2. s \in [1 .. n + 1 -> S] /\ t \in [1 .. n -> S]
  <2>1. \A i \in 1 .. n + 1 : s[i] \in S
    OBVIOUS
  <2>2. \A i \in 1 .. n : t[i] \in S
    BY <1>1, <2>1
  <2> HIDE DEF S
  <2> QED BY <2>1, <2>2 DEF Listed
<1> HIDE DEF S
<1>3. s \in Seq(S) /\ Len(s) = n + 1
  BY <1>1, <1>2, ListTyped
<1>4. t \in Seq(S) /\ Len(t) = n
  BY <1>2, ListTyped
<1>5. u \in Seq(S) /\ Len(u) = n /\ \A i \in 1 .. n : u[i] = s[i]
  BY <1>1, <1>3
<1> HIDE DEF u
<1>6. u = t
  BY <1>4, <1>5, SeqEqual
<1> QED BY <1>3, <1>6 DEF u

-----------------------------------------------------------------------------
(* Scopes between brackets.                                                *)

(* Where the scopes begin and end.                                         *)
LEMMA EdgeFacts ==
  ASSUME NEW bs \in Seq(Nat), NEW n \in Nat, \A i \in 1 .. Len(bs) : bs[i] <= n,
         \A i, j \in 1 .. Len(bs) : i <= j => bs[i] <= bs[j]
  PROVE  LET e == Edges(bs, n)
             l == Len(bs)
         IN  /\ l \in Nat /\ e[1] = 0 /\ e[l + 2] = n
             /\ \A i \in 1 .. l : e[i + 1] = bs[i]
             /\ \A i \in 1 .. l + 2 : e[i] \in Nat /\ e[i] <= n
             /\ \A i, j \in 1 .. l + 2 : i <= j => e[i] <= e[j]
<1> DEFINE e == Edges(bs, n)
           l == Len(bs)
<1>1. l \in Nat /\ \A i \in 1 .. l : bs[i] \in Nat
  OBVIOUS
<1>2. e[1] = 0 /\ e[l + 2] = n /\ \A i \in 1 .. l : e[i + 1] = bs[i]
  BY DEF Edges
<1> HIDE DEF e
<1>3. \A i \in 1 .. l + 2 : i = 1 \/ i = l + 2 \/ (i - 1 \in 1 .. l /\ (i - 1) + 1 = i)
  BY <1>1
<1>4. \A i \in 1 .. l + 2 : i = 1 \/ i = l + 2 \/ e[i] = bs[i - 1]
  BY <1>2, <1>3
<1> HIDE DEF l
<1>5. \A i \in 1 .. l + 2 : e[i] \in Nat /\ e[i] <= n
  <2>1. \A i \in 1 .. l : bs[i] \in Nat /\ bs[i] <= n
    BY <1>1 DEF l
  <2>2. ASSUME NEW i \in 1 .. l + 2 PROVE e[i] \in Nat /\ e[i] <= n
    <3>1. i = 1 \/ i = l + 2 \/ (i - 1 \in 1 .. l /\ e[i] = bs[i - 1])
      BY <1>3, <1>4
    <3> QED BY <1>2, <2>1, <3>1
  <2> QED BY <2>2
<1>6. ASSUME NEW i \in 1 .. l + 2, NEW j \in 1 .. l + 2, i <= j PROVE e[i] <= e[j]
  <2>1. CASE i = 1
    BY <1>2, <1>5, <2>1
  <2>2. CASE j = l + 2
    BY <1>2, <1>5, <2>2
  <2>3. CASE i # 1 /\ j # l + 2
    <3>1. /\ i - 1 \in 1 .. l /\ j - 1 \in 1 .. l /\ i - 1 <= j - 1
          /\ e[i] = bs[i - 1] /\ e[j] = bs[j - 1]
      BY <1>1, <1>3, <1>4, <1>6, <2>3
    <3> QED BY <3>1 DEF l
  <2> QED BY <2>1, <2>2, <2>3
<1> QED BY <1>1, <1>2, <1>5, <1>6 DEF e, l

(* The scopes are as many as the brackets, and one more.                   *)
LEMMA CutFacts ==
  ASSUME NEW ls, NEW fr, NEW bs, WellCut(ls, fr, bs)
  PROVE  LET c == Cuts(ls, fr, bs)
             e == Edges(bs, Len(ls))
             n == Len(bs) + 1
         IN  /\ n \in Nat /\ n > 1
             /\ Listed(c, n)
             /\ \A i \in 1 .. n : c[i] = ScopeAt(ls, fr, e[i], e[i + 1])
             /\ \A i \in 1 .. n : e[i] \in Nat /\ e[i + 1] \in Nat /\ e[i] <= e[i + 1]
             /\ \A i \in 1 .. n : e[i + 1] <= Len(ls)
             /\ \A i, j \in 1 .. n : i < j => e[i + 1] <= e[j]
<1> DEFINE c == Cuts(ls, fr, bs)
           e == Edges(bs, Len(ls))
           l == Len(bs)
           m == Len(ls)
<1>1. /\ bs \in Seq(Nat) /\ bs # <<>> /\ m \in Nat /\ l \in Nat /\ l # 0
      /\ \A i \in 1 .. l : bs[i] <= m
      /\ \A i, j \in 1 .. l : i <= j => bs[i] <= bs[j]
  BY DEF WellCut
<1>2. /\ \A i \in 1 .. l + 2 : e[i] \in Nat /\ e[i] <= m
      /\ \A i, j \in 1 .. l + 2 : i <= j => e[i] <= e[j]
  BY <1>1, EdgeFacts
<1>3. /\ \A i \in 1 .. l + 1 : i \in 1 .. l + 2 /\ i + 1 \in 1 .. l + 2 /\ i <= i + 1
      /\ \A i, j \in 1 .. l + 1 : i < j => i + 1 <= j
      /\ l + 1 \in Nat /\ l + 1 > 1
  BY <1>1
<1>4. /\ Listed(c, l + 1)
      /\ \A i \in 1 .. l + 1 : c[i] = ScopeAt(ls, fr, e[i], e[i + 1])
  BY DEF Cuts, Listed
<1> HIDE DEF c, e, l, m
<1>5. /\ \A i \in 1 .. l + 1 : e[i] \in Nat /\ e[i + 1] \in Nat /\ e[i] <= e[i + 1]
      /\ \A i \in 1 .. l + 1 : e[i + 1] <= m
  BY <1>2, <1>3
<1>6. \A i, j \in 1 .. l + 1 : i < j => e[i + 1] <= e[j]
  BY <1>2, <1>3
<1> QED BY <1>3, <1>4, <1>5, <1>6 DEF c, e, l, m

(* A bracket opened at the end of the list makes one more scope, empty.    *)
LEMMA CutsOpened ==
  ASSUME NEW ls, NEW fr, NEW bs, WellCut(ls, fr, bs), WellCut(ls, fr, Append(bs, Len(ls)))
  PROVE  Cuts(ls, fr, Append(bs, Len(ls))) = Append(Cuts(ls, fr, bs), [x \in {} |-> 0])
<1> DEFINE c == Cuts(ls, fr, bs)
           e == Edges(bs, Len(ls))
           b2 == Append(bs, Len(ls))
           c2 == Cuts(ls, fr, b2)
           e2 == Edges(b2, Len(ls))
           l == Len(bs)
           m == Len(ls)
<1>1. /\ bs \in Seq(Nat) /\ m \in Nat /\ l \in Nat
      /\ \A i \in 1 .. l : bs[i] <= m
      /\ \A i, j \in 1 .. l : i <= j => bs[i] <= bs[j]
  BY DEF WellCut
<1>2. /\ b2 \in Seq(Nat) /\ Len(b2) = l + 1 /\ b2[l + 1] = m /\ \A i \in 1 .. l : b2[i] = bs[i]
  BY <1>1, AppendProperties
<1>3. /\ \A i \in 1 .. Len(b2) : b2[i] <= m
      /\ \A i, j \in 1 .. Len(b2) : i <= j => b2[i] <= b2[j]
  BY DEF WellCut
<1>4. /\ e[1] = 0 /\ e[l + 2] = m /\ \A i \in 1 .. l : e[i + 1] = bs[i]
  BY <1>1, EdgeFacts
<1>0. WellCut(ls, fr, b2)
  OBVIOUS
<1> HIDE DEF b2
<1>5. /\ e2[1] = 0 /\ e2[Len(b2) + 2] = m /\ \A i \in 1 .. Len(b2) : e2[i + 1] = b2[i]
  BY <1>1, <1>2, <1>3, EdgeFacts
<1>6. /\ Listed(c, l + 1)
      /\ \A i \in 1 .. l + 1 : c[i] = ScopeAt(ls, fr, e[i], e[i + 1])
  BY CutFacts
<1>7. /\ Listed(c2, Len(b2) + 1)
      /\ \A i \in 1 .. Len(b2) + 1 : c2[i] = ScopeAt(ls, fr, e2[i], e2[i + 1])
  BY <1>0, CutFacts
<1> HIDE DEF c, e, c2, e2, l, m
<1>8. \A i \in 1 .. l + 2 : e2[i] = e[i]
  <2> SUFFICES ASSUME NEW i \in 1 .. l + 2 PROVE e2[i] = e[i]
    OBVIOUS
  <2>1. CASE i = 1
    BY <1>4, <1>5, <2>1
  <2>2. CASE i = l + 2
    <3>1. l + 1 \in 1 .. Len(b2) /\ (l + 1) + 1 = l + 2
      BY <1>1, <1>2
    <3>2. e2[l + 2] = b2[l + 1]
      BY <1>5, <3>1
    <3> QED BY <1>2, <1>4, <2>2, <3>2
  <2>3. CASE i # 1 /\ i # l + 2
    <3>1. i - 1 \in 1 .. l /\ i - 1 \in 1 .. Len(b2) /\ (i - 1) + 1 = i
      BY <1>1, <1>2, <2>3
    <3>2. e2[i] = b2[i - 1] /\ e[i] = bs[i - 1] /\ b2[i - 1] = bs[i - 1]
      BY <1>2, <1>4, <1>5, <3>1
    <3> QED BY <3>2
  <2> QED BY <2>1, <2>2, <2>3
<1>9. \A i \in 1 .. l + 1 : c2[i] = c[i]
  <2> SUFFICES ASSUME NEW i \in 1 .. l + 1 PROVE c2[i] = c[i]
    OBVIOUS
  <2>1. i \in 1 .. l + 2 /\ i + 1 \in 1 .. l + 2 /\ i \in 1 .. Len(b2) + 1
    BY <1>1, <1>2
  <2> QED BY <1>6, <1>7, <1>8, <2>1
<1>10. c2[l + 2] = [x \in {} |-> 0]
  <2>1. l + 2 \in 1 .. Len(b2) + 1 /\ l + 2 \in 1 .. l + 2 /\ Len(b2) + 2 = (l + 2) + 1
    BY <1>1, <1>2
  <2>2. e2[l + 2] = m /\ e2[(l + 2) + 1] = m
    BY <1>4, <1>5, <1>8, <2>1
  <2>3. c2[l + 2] = ScopeAt(ls, fr, m, m)
    BY <1>7, <2>1, <2>2
  <2> QED BY <1>1, <2>3, ScopeEmpty
<1>11. c2 = Append(c, c2[(l + 1) + 1])
  <2>1. l + 1 \in Nat /\ Len(b2) + 1 = (l + 1) + 1
    BY <1>1, <1>2
  <2>2. Listed(c2, (l + 1) + 1) /\ Listed(c, l + 1)
    BY <1>6, <1>7, <2>1
  <2> QED BY ONLY <1>9, <2>1, <2>2, ListAppend
<1>12. (l + 1) + 1 = l + 2
  BY <1>1
<1> QED BY <1>10, <1>11, <1>12 DEF c, c2, b2

(* A block closed takes its scope away, and its names from the list.       *)
LEMMA CutsClosed ==
  ASSUME NEW ls, NEW fr, NEW bs, WellCut(ls, fr, bs),
         NEW ls2, NEW b2, WellCut(ls2, fr, b2), WithoutBlock(ls, bs, ls2, b2)
  PROVE  Cuts(ls2, fr, b2) = SubSeq(Cuts(ls, fr, bs), 1, Len(Cuts(ls, fr, bs)) - 1)
<1> DEFINE c == Cuts(ls, fr, bs)
           e == Edges(bs, Len(ls))
           c2 == Cuts(ls2, fr, b2)
           e2 == Edges(b2, Len(ls2))
           l == Len(bs)
           m == Len(ls)
           b == bs[l]
<1>0. l > 1 /\ ls2 = SubSeq(ls, 1, bs[l]) /\ b2 = SubSeq(bs, 1, l - 1)
  BY DEF WithoutBlock
<1>1. /\ bs \in Seq(Nat) /\ ls \in Seq(Names \cup {Dummy}) /\ m \in Nat /\ l \in Nat
      /\ \A i \in 1 .. l : bs[i] <= m
      /\ \A i, j \in 1 .. l : i <= j => bs[i] <= bs[j]
  BY DEF WellCut
<1>2. l \in 1 .. l /\ l - 1 \in Nat /\ (l - 1) + 1 = l /\ \A i \in 1 .. l - 1 : i \in 1 .. l
  BY <1>0, <1>1
<1>3. b \in Nat /\ b <= m
  BY <1>1, <1>2
<1>4. /\ b2 \in Seq(Nat) /\ Len(b2) = l - 1 /\ \A i \in 1 .. l - 1 : b2[i] = bs[i]
  BY <1>0, <1>1, <1>2
<1>5. Len(ls2) = b /\ \A p \in 1 .. b : ls2[p] = ls[p]
  <2> HIDE DEF b, l
  <2>1. ls2 = SubSeq(ls, 1, b)
    BY <1>0 DEF b, l
  <2> QED BY <1>1, <1>3, <2>1 DEF m
<1>6. /\ \A i \in 1 .. Len(b2) : b2[i] <= Len(ls2)
      /\ \A i, j \in 1 .. Len(b2) : i <= j => b2[i] <= b2[j]
      /\ Len(ls2) \in Nat
  BY ONLY WellCut(ls2, fr, b2) DEF WellCut
<1>7. /\ e[1] = 0 /\ e[l + 2] = m /\ \A i \in 1 .. l : e[i + 1] = bs[i]
  BY <1>1, EdgeFacts
<1>8. /\ e2[1] = 0 /\ e2[Len(b2) + 2] = Len(ls2) /\ \A i \in 1 .. Len(b2) : e2[i + 1] = b2[i]
  BY <1>4, <1>6, EdgeFacts
<1>9. /\ Listed(c, l + 1)
      /\ \A i \in 1 .. l + 1 : c[i] = ScopeAt(ls, fr, e[i], e[i + 1])
      /\ \A i \in 1 .. l + 1 : e[i] \in Nat /\ e[i + 1] \in Nat /\ e[i] <= e[i + 1]
      /\ \A i, j \in 1 .. l + 1 : i < j => e[i + 1] <= e[j]
  BY CutFacts
<1>10. /\ Listed(c2, Len(b2) + 1)
       /\ \A i \in 1 .. Len(b2) + 1 : c2[i] = ScopeAt(ls2, fr, e2[i], e2[i + 1])
  BY CutFacts
<1> HIDE DEF c, e, c2, e2, l, m
<1>11. \A i \in 1 .. l + 1 : e2[i] = e[i]
  <2> SUFFICES ASSUME NEW i \in 1 .. l + 1 PROVE e2[i] = e[i]
    OBVIOUS
  <2>1. CASE i = 1
    BY <1>7, <1>8, <2>1
  <2>2. CASE i = l + 1
    <3>1. Len(b2) + 2 = l + 1
      BY <1>1, <1>4
    <3>2. e2[l + 1] = Len(ls2) /\ e[l + 1] = bs[l]
      BY <1>2, <1>7, <1>8, <3>1
    <3> QED BY <1>5, <2>2, <3>2
  <2>3. CASE i # 1 /\ i # l + 1
    <3>1. i - 1 \in 1 .. l /\ i - 1 \in 1 .. l - 1 /\ (i - 1) + 1 = i
      BY <1>1, <2>3
    <3>2. e2[i] = b2[i - 1] /\ e[i] = bs[i - 1] /\ b2[i - 1] = bs[i - 1]
      BY <1>4, <1>7, <1>8, <3>1
    <3> QED BY <3>2
  <2> QED BY <2>1, <2>2, <2>3
<1>12. e[l + 1] = b
  BY <1>2, <1>7
<1> HIDE DEF b
<1>13. \A i \in 1 .. l : c2[i] = c[i]
  <2> SUFFICES ASSUME NEW i \in 1 .. l PROVE c2[i] = c[i]
    OBVIOUS
  <2>1. i \in 1 .. l + 1 /\ i + 1 \in 1 .. l + 1 /\ i \in 1 .. Len(b2) + 1 /\ l + 1 \in 1 .. l + 1
        /\ i < l + 1
    BY <1>1, <1>4
  <2>2. /\ c2[i] = ScopeAt(ls2, fr, e[i], e[i + 1]) /\ c[i] = ScopeAt(ls, fr, e[i], e[i + 1])
        /\ e[i] \in Nat /\ e[i + 1] \in Nat
    BY <1>9, <1>10, <1>11, <2>1
  <2>3. e[i + 1] <= b
    BY <1>9, <1>12, <2>1
  <2>4. \A p \in e[i] + 1 .. e[i + 1] : ls2[p] = ls[p] /\ fr[p] = fr[p]
    <3> SUFFICES ASSUME NEW p \in e[i] + 1 .. e[i + 1] PROVE ls2[p] = ls[p]
      OBVIOUS
    <3>1. p \in 1 .. b
      BY <1>3, <2>2, <2>3
    <3> QED BY <1>5, <3>1
  <2>5. ASSUME NEW a \in Nat, NEW z \in Nat, \A p \in a + 1 .. z : ls2[p] = ls[p] /\ fr[p] = fr[p]
        PROVE  ScopeAt(ls2, fr, a, z) = ScopeAt(ls, fr, a, z)
    BY ONLY <2>5, a \in Nat, z \in Nat, ScopeSame
  <2> QED BY <2>2, <2>4, <2>5
<1>14. Listed(c, l + 1) /\ Listed(c2, l) /\ l \in Nat
  BY <1>1, <1>4, <1>9, <1>10
<1>15. c2 = SubSeq(c, 1, l) /\ Len(c) = l + 1
  BY ONLY <1>13, <1>14, ListFront
<1>16. Len(c) - 1 = l
  BY <1>1, <1>15
<1> QED BY <1>15, <1>16 DEF c, c2

(* A declaration goes to the innermost scope.                              *)
LEMMA CutsDeclared ==
  ASSUME NEW ls, NEW fr, NEW bs, WellCut(ls, fr, bs),
         NEW ls2, NEW fr2, WellCut(ls2, fr2, bs), NEW x, NEW d,
         WithDeclaration(ls, fr, bs, ls2, fr2, x, d)
  PROVE  Cuts(ls2, fr2, bs) = InnermostExtended(Cuts(ls, fr, bs), x, d)
<1> DEFINE c == Cuts(ls, fr, bs)
           e == Edges(bs, Len(ls))
           c2 == Cuts(ls2, fr2, bs)
           e2 == Edges(bs, Len(ls2))
           l == Len(bs)
           m == Len(ls)
           s == c[l + 1]
           g == Extended(s, x, d)
<1>0. /\ ls2 = Append(ls, x) /\ \A p \in 1 .. m : fr2[p] = fr[p]
      /\ fr2[m + 1] = d /\ x \notin DOMAIN s
  BY DEF WithDeclaration
<1>1. /\ bs \in Seq(Nat) /\ ls \in Seq(Names \cup {Dummy}) /\ m \in Nat /\ l \in Nat
      /\ \A i \in 1 .. l : bs[i] <= m
      /\ \A i, j \in 1 .. l : i <= j => bs[i] <= bs[j]
      /\ ls2 \in Seq(Names \cup {Dummy})
  BY DEF WellCut
<1>2. /\ Len(ls2) = m + 1 /\ ls2[m + 1] = x /\ \A p \in 1 .. m : ls2[p] = ls[p]
  BY <1>0, <1>1
<1>3. /\ \A i \in 1 .. l : bs[i] <= Len(ls2)
      /\ Len(ls2) \in Nat
  BY DEF WellCut
<1>4. /\ e[1] = 0 /\ e[l + 2] = m /\ \A i \in 1 .. l : e[i + 1] = bs[i]
  BY <1>1, EdgeFacts
<1>5. /\ e2[1] = 0 /\ e2[l + 2] = Len(ls2) /\ \A i \in 1 .. l : e2[i + 1] = bs[i]
  BY <1>1, <1>3, EdgeFacts
<1>6. /\ Listed(c, l + 1)
      /\ \A i \in 1 .. l + 1 : c[i] = ScopeAt(ls, fr, e[i], e[i + 1])
      /\ \A i \in 1 .. l + 1 : e[i] \in Nat /\ e[i + 1] \in Nat /\ e[i] <= e[i + 1]
      /\ \A i \in 1 .. l + 1 : e[i + 1] <= m
  BY CutFacts
<1>7. /\ Listed(c2, l + 1)
      /\ \A i \in 1 .. l + 1 : c2[i] = ScopeAt(ls2, fr2, e2[i], e2[i + 1])
  BY ONLY WellCut(ls2, fr2, bs), CutFacts
<1>8. s = c[l + 1]
  OBVIOUS
<1> HIDE DEF s, c, e, c2, e2, l, m, g
<1>9. \A i \in 1 .. l + 1 : e2[i] = e[i]
  <2> SUFFICES ASSUME NEW i \in 1 .. l + 1 PROVE e2[i] = e[i]
    OBVIOUS
  <2>1. CASE i = 1
    BY <1>4, <1>5, <2>1
  <2>2. CASE i # 1
    <3>1. i - 1 \in 1 .. l /\ (i - 1) + 1 = i
      BY <1>1, <2>2
    <3> QED BY <1>4, <1>5, <3>1
  <2> QED BY <2>1, <2>2
<1>10. \A p \in 1 .. m : ls2[p] = ls[p] /\ fr2[p] = fr[p]
  BY <1>0, <1>2
<1>11. \A i \in 1 .. l : c2[i] = c[i]
  <2> SUFFICES ASSUME NEW i \in 1 .. l PROVE c2[i] = c[i]
    OBVIOUS
  <2>1. i \in 1 .. l + 1 /\ i + 1 \in 1 .. l + 1
    BY <1>1
  <2>2. /\ c2[i] = ScopeAt(ls2, fr2, e[i], e[i + 1]) /\ c[i] = ScopeAt(ls, fr, e[i], e[i + 1])
        /\ e[i] \in Nat /\ e[i + 1] \in Nat /\ e[i + 1] <= m
    BY <1>6, <1>7, <1>9, <2>1
  <2>3. \A p \in e[i] + 1 .. e[i + 1] : ls2[p] = ls[p] /\ fr2[p] = fr[p]
    <3> SUFFICES ASSUME NEW p \in e[i] + 1 .. e[i + 1] PROVE ls2[p] = ls[p] /\ fr2[p] = fr[p]
      OBVIOUS
    <3>1. p \in 1 .. m
      BY <1>1, <2>2
    <3> QED BY <1>10, <3>1
  <2>4. ASSUME NEW a \in Nat, NEW z \in Nat, \A p \in a + 1 .. z : ls2[p] = ls[p] /\ fr2[p] = fr[p]
        PROVE  ScopeAt(ls2, fr2, a, z) = ScopeAt(ls, fr, a, z)
    BY ONLY <2>4, a \in Nat, z \in Nat, ScopeSame
  <2> QED BY <2>2, <2>3, <2>4
<1>12. c2[l + 1] = g
  <2> DEFINE a == e[l + 1]
  <2>1. l + 1 \in 1 .. l + 1 /\ (l + 1) + 1 = l + 2
    BY <1>1
  <2>2. /\ a \in Nat /\ a <= m /\ e[l + 2] = m /\ e2[l + 1] = a /\ e2[l + 2] = m + 1
    BY <1>2, <1>4, <1>5, <1>6, <1>9, <2>1
  <2>3. s = ScopeAt(ls, fr, a, m) /\ c2[l + 1] = ScopeAt(ls2, fr2, a, m + 1)
    BY <1>6, <1>7, <1>8, <2>1, <2>2
  <2> HIDE DEF a
  <2>4. \A p \in a + 1 .. m : ls2[p] = ls[p] /\ fr2[p] = fr[p]
    <3> SUFFICES ASSUME NEW p \in a + 1 .. m PROVE ls2[p] = ls[p] /\ fr2[p] = fr[p]
      OBVIOUS
    <3>1. p \in 1 .. m
      BY <1>1, <2>2
    <3> QED BY <1>10, <3>1
  <2>5. ls2[m + 1] = x /\ fr2[m + 1] = d
    BY <1>0, <1>2
  <2>6. x \notin DOMAIN ScopeAt(ls, fr, a, m)
    BY <1>0, <2>3
  <2>7. ScopeAt(ls2, fr2, a, Len(ls2)) = Extended(s, x, d)
    <3> DEFINE z == Len(ls2)
    <3>1. z = m + 1 /\ ls2[z] = x /\ fr2[z] = d /\ ls2[z] \notin DOMAIN s
      BY <1>0, <1>2, <2>5
    <3> HIDE DEF z
    <3>2. Longer(ls, fr, a, m, ls2, fr2, z)
      BY <2>2, <2>3, <2>4, <3>1 DEF Longer
    <3>3. ScopeAt(ls2, fr2, a, z) = Extended(ScopeAt(ls, fr, a, m), ls2[z], fr2[z])
      BY ONLY <1>1, <2>2, <3>2, ScopeMore
    <3> QED BY <2>3, <3>1, <3>3 DEF z
  <2> QED BY <1>2, <2>3, <2>7 DEF g
<1>13. c2 = [c EXCEPT ![l + 1] = g]
  <2>1. c = [i \in 1 .. l + 1 |-> c[i]] /\ c2 = [i \in 1 .. l + 1 |-> c2[i]]
    BY <1>6, <1>7 DEF Listed
  <2>2. \A i \in 1 .. l + 1 : c2[i] = IF i = l + 1 THEN g ELSE c[i]
    <3>1. \A i \in 1 .. l + 1 : i = l + 1 \/ i \in 1 .. l
      BY <1>1
    <3> QED BY <1>11, <1>12, <3>1
  <2> QED BY <2>1, <2>2
<1>14. Len(c) = l + 1
  <2>1. c = [i \in 1 .. l + 1 |-> c[i]] /\ l + 1 \in Nat
    BY <1>1, <1>6 DEF Listed
  <2> QED BY ONLY <2>1
<1>15. c2 = [c EXCEPT ![Len(c)] = Extended(c[Len(c)], x, d)]
  BY <1>8, <1>13, <1>14 DEF g
<1> QED BY <1>15 DEF c, c2, InnermostExtended

(* A name means what its last place in the whole list has: the scope with  *)
(* that place is the innermost that has the name.                          *)
LEMMA CutsUse ==
  ASSUME NEW ls, NEW fr, NEW bs, WellCut(ls, fr, bs),
         NEW x, NEW p, Newest(ls, 0, Len(ls), x, p)
  PROVE  LET c == Cuts(ls, fr, bs)
         IN  \E i \in DOMAIN c : /\ x \in DOMAIN c[i] /\ c[i][x] = fr[p]
                                 /\ \A j \in DOMAIN c : x \in DOMAIN c[j] => j <= i
<1> DEFINE c == Cuts(ls, fr, bs)
           e == Edges(bs, Len(ls))
           n == Len(bs) + 1
           m == Len(ls)
           T == {i \in 1 .. n : e[i] < p}
<1>1. /\ n \in Nat /\ n > 1 /\ Listed(c, n)
      /\ \A i \in 1 .. n : c[i] = ScopeAt(ls, fr, e[i], e[i + 1])
      /\ \A i \in 1 .. n : e[i] \in Nat /\ e[i + 1] \in Nat /\ e[i] <= e[i + 1]
      /\ \A i \in 1 .. n : e[i + 1] <= m
      /\ \A i, j \in 1 .. n : i < j => e[i + 1] <= e[j]
  BY CutFacts
<1>2. e[1] = 0 /\ e[n + 1] = m /\ m \in Nat
  <2>1. /\ bs \in Seq(Nat) /\ m \in Nat /\ \A i \in 1 .. Len(bs) : bs[i] <= m
        /\ \A i, j \in 1 .. Len(bs) : i <= j => bs[i] <= bs[j]
    BY DEF WellCut
  <2>2. e[1] = 0 /\ e[Len(bs) + 2] = m
    BY <2>1, EdgeFacts
  <2>3. (Len(bs) + 1) + 1 = Len(bs) + 2
    BY <2>1
  <2> QED BY <2>1, <2>2, <2>3
<1>3. DOMAIN c = 1 .. n
  BY <1>1 DEF Listed
<1>4. p \in 1 .. m /\ ls[p] = x /\ \A q \in 1 .. m : ls[q] = x => q <= p
  <2>1. 0 + 1 = 1
    OBVIOUS
  <2> QED BY <2>1 DEF Newest
<1> HIDE DEF c, e, n, m
<1>5. PICK i \in T : \A j \in T : j <= i
  <2>1. 1 \in T
    BY <1>1, <1>2, <1>4
  <2>2. T \in SUBSET (1 .. n) /\ T # {}
    BY <2>1
  <2> HIDE DEF T
  <2> QED BY <1>1, <2>2, Largest
<1>6. i \in 1 .. n /\ e[i] < p /\ p <= e[i + 1]
  <2>1. CASE i = n
    BY <1>1, <1>2, <1>4, <1>5, <2>1
  <2>2. CASE i # n
    <3>1. i + 1 \in 1 .. n /\ ~(i + 1 <= i)
      BY <1>1, <1>5, <2>2
    <3>2. ~(e[i + 1] < p)
      BY <1>5, <3>1
    <3> QED BY <1>1, <1>4, <1>5, <3>1, <3>2
  <2> QED BY <2>1, <2>2
<1>7. /\ e[i] \in Nat /\ e[i + 1] \in Nat /\ e[i] <= e[i + 1] /\ e[i + 1] <= m
      /\ c[i] = ScopeAt(ls, fr, e[i], e[i + 1])
  BY <1>1, <1>6
<1>8. Newest(ls, e[i], e[i + 1], x, p)
  <2>1. p \in e[i] + 1 .. e[i + 1]
    BY <1>4, <1>6, <1>7
  <2>2. ASSUME NEW q \in e[i] + 1 .. e[i + 1], ls[q] = x PROVE q <= p
    <3>1. q \in 1 .. m
      BY <1>2, <1>7
    <3> QED BY <1>4, <2>2, <3>1
  <2> QED BY <1>4, <2>1, <2>2 DEF Newest
<1>9. x \in DOMAIN c[i] /\ c[i][x] = fr[p]
  <2>1. ASSUME NEW a \in Nat, NEW z \in Nat, Newest(ls, a, z, x, p)
        PROVE  x \in DOMAIN ScopeAt(ls, fr, a, z) /\ ScopeAt(ls, fr, a, z)[x] = fr[p]
    BY ONLY <2>1, a \in Nat, z \in Nat, ScopeMeaning
  <2> QED BY <1>7, <1>8, <2>1
<1>10. ASSUME NEW j \in 1 .. n, x \in DOMAIN c[j] PROVE j <= i
  <2>1. /\ e[j] \in Nat /\ e[j + 1] \in Nat /\ e[j + 1] <= m
        /\ c[j] = ScopeAt(ls, fr, e[j], e[j + 1])
    BY <1>1
  <2>2. x \in Named(ls, e[j], e[j + 1])
    <3>1. DOMAIN ScopeAt(ls, fr, e[j], e[j + 1]) = Named(ls, e[j], e[j + 1])
      BY ONLY <2>1, ScopeNames
    <3> QED BY <1>10, <2>1, <3>1
  <2>3. PICK q \in e[j] + 1 .. e[j + 1] : ls[q] = x
    BY <2>2 DEF Named
  <2>4. q \in 1 .. m /\ q > e[j] /\ q \in Int
    BY <1>2, <2>1, <2>3
  <2>5. q <= p
    BY <1>4, <2>3, <2>4
  <2>6. SUFFICES ASSUME i < j PROVE FALSE
    BY <1>6
  <2>7. e[i + 1] <= e[j]
    BY <1>1, <1>6, <2>6
  <2> QED BY <1>4, <1>6, <1>7, <2>1, <2>4, <2>5, <2>7
<1> QED BY <1>3, <1>6, <1>9, <1>10 DEF c

(* A name that is not in the list is in no scope.                          *)
LEMMA CutsMiss ==
  ASSUME NEW ls, NEW fr, NEW bs, WellCut(ls, fr, bs),
         NEW x, \A p \in 1 .. Len(ls) : ls[p] # x
  PROVE  LET c == Cuts(ls, fr, bs)
         IN  \A i \in DOMAIN c : x \notin DOMAIN c[i]
<1> DEFINE c == Cuts(ls, fr, bs)
           e == Edges(bs, Len(ls))
           n == Len(bs) + 1
           m == Len(ls)
<1>1. /\ n \in Nat /\ Listed(c, n)
      /\ \A i \in 1 .. n : c[i] = ScopeAt(ls, fr, e[i], e[i + 1])
      /\ \A i \in 1 .. n : e[i] \in Nat /\ e[i + 1] \in Nat /\ e[i + 1] <= m
  BY CutFacts
<1>2. DOMAIN c = 1 .. n /\ m \in Nat
  BY <1>1 DEF Listed, WellCut
<1> HIDE DEF c, e, n
<1>3. ASSUME NEW i \in 1 .. n PROVE x \notin DOMAIN c[i]
  <2>1. /\ e[i] \in Nat /\ e[i + 1] \in Nat /\ e[i + 1] <= m
        /\ c[i] = ScopeAt(ls, fr, e[i], e[i + 1])
    BY <1>1
  <2>2. DOMAIN ScopeAt(ls, fr, e[i], e[i + 1]) = Named(ls, e[i], e[i + 1])
    BY ONLY <2>1, ScopeNames
  <2>3. \A q \in e[i] + 1 .. e[i + 1] : q \in 1 .. m
    BY <1>2, <2>1
  <2>4. x \notin Named(ls, e[i], e[i + 1])
    BY <2>3 DEF Named
  <2> QED BY <2>1, <2>2, <2>4
<1> QED BY <1>2, <1>3 DEF c

(* The parameters of a function, and the scope of its body.                *)
LEMMA CutsEntered ==
  ASSUME NEW ps \in Seq(Names \cup {Dummy}), NEW fr, fr = [i \in 1 .. Len(ps) |-> i]
  PROVE  Cuts(ps, fr, <<Len(ps)>>) = <<Promise!Parameters(ps), Promise!None>>
<1> DEFINE m == Len(ps)
           bs == <<m>>
           c == Cuts(ps, fr, bs)
           e == Edges(bs, m)
           g == Promise!Parameters(ps)
           D == Named(ps, 0, m)
<1>1. m \in Nat /\ DOMAIN ps = 1 .. m
  OBVIOUS
<1>2. bs \in Seq(Nat) /\ Len(bs) = 1 /\ bs[1] = m
  BY <1>1
<1>3. /\ \A i \in 1 .. Len(bs) : bs[i] <= m
      /\ \A i, j \in 1 .. Len(bs) : i <= j => bs[i] <= bs[j]
  BY <1>1, <1>2
<1>4. e[1] = 0 /\ e[2] = m /\ e[3] = m
  <2>1. /\ e[1] = 0 /\ e[Len(bs) + 2] = m /\ \A i \in 1 .. Len(bs) : e[i + 1] = bs[i]
    BY <1>1, <1>2, <1>3, EdgeFacts
  <2> HIDE DEF e, bs
  <2>2. Len(bs) + 2 = 3 /\ 1 \in 1 .. Len(bs) /\ 1 + 1 = 2
    BY <1>2
  <2> QED BY <1>2, <2>1, <2>2
<1>5. Listed(c, 2) /\ c[1] = ScopeAt(ps, fr, 0, m) /\ c[2] = ScopeAt(ps, fr, m, m)
  <2>1. Len(bs) + 1 = 2
    BY <1>2
  <2>2. c = [i \in 1 .. 2 |-> ScopeAt(ps, fr, e[i], e[i + 1])]
    BY <2>1 DEF Cuts
  <2> HIDE DEF c, e, m
  <2>3. c[1] = ScopeAt(ps, fr, e[1], e[2]) /\ c[2] = ScopeAt(ps, fr, e[2], e[3])
    BY <2>2
  <2> QED BY <1>4, <2>2, <2>3 DEF Listed
<1>6. D = {ps[i] : i \in DOMAIN ps}
  BY <1>1 DEF Named
<1>7. ASSUME NEW x \in D, NEW p, Newest(ps, 0, m, x, p) PROVE g[x] = fr[p]
  <2> DEFINE q == CHOOSE i \in DOMAIN ps :
                    ps[i] = x /\ \A j \in i + 1 .. Len(ps) : ps[j] # x
  <2>1. p \in 1 .. m /\ ps[p] = x /\ \A i \in 1 .. m : ps[i] = x => i <= p
    <3>1. 0 + 1 = 1
      OBVIOUS
    <3> QED BY <1>7, <3>1 DEF Newest
  <2>2. \A j \in p + 1 .. Len(ps) : ps[j] # x
    BY <1>1, <2>1
  <2>3. q \in DOMAIN ps /\ ps[q] = x /\ \A j \in q + 1 .. Len(ps) : ps[j] # x
    BY <1>1, <2>1, <2>2
  <2> HIDE DEF q
  <2>4. q = p
    BY <1>1, <2>1, <2>3
  <2>5. g[x] = q
    BY <1>6 DEF q, Promise!Parameters
  <2> QED BY <2>1, <2>4, <2>5
<1>8. g = [x \in D |-> g[x]]
  BY <1>6 DEF Promise!Parameters
<1>9. ScopeAt(ps, fr, 0, m) = g
  <2>1. D = Named(ps, 0, m)
    OBVIOUS
  <2> HIDE DEF g, D, m
  <2> QED BY ONLY <1>1, <1>7, <1>8, <2>1, ScopeEqual
<1>10. ScopeAt(ps, fr, m, m) = Promise!None
  BY <1>1, ScopeEmpty DEF Promise!None
<1> HIDE DEF c, g, m, D, bs
<1>11. c = <<c[1], c[2]>>
  BY <1>5 DEF Listed
<1> QED BY <1>5, <1>9, <1>10, <1>11 DEF c, bs, m, g

-----------------------------------------------------------------------------
(* The invariant.                                                          *)

(* Functions and exports grow together, and are forgotten together.        *)
LEMMA RegisteredNext ==
  ASSUME Kept, [SymbolsNext]_symbolsVars
  PROVE  Registered'
<1>1. Registered /\ functions \in Seq(Functions) /\ \A f \in DOMAIN exports : exports[f] \in Nat
  BY DEF Kept, Inductive, TablesTyped
<1>2. CASE UNCHANGED <<functions, exports>>
  BY <1>1, <1>2 DEF Registered
<1>3. CASE Leave
  <2> DEFINE left == [name |-> symbol, arity |-> monitor.arity,
                      calls |-> monitor.calls, operands |-> monitor.operands]
             n == Len(functions)
  <2>1. functions' = Append(functions, left) /\ exports' = With(exports, symbol, n + 1)
    BY <1>3 DEF Leave
  <2>2. left.name = symbol /\ left \in Functions
    BY <1>3 DEF Leave, Kept, Inductive, TablesTyped, SymbolFresh, Functions
  <2> HIDE DEF left
  <2>3. /\ n \in Nat /\ DOMAIN functions = 1 .. n /\ DOMAIN functions' = 1 .. n + 1
        /\ \A i \in 1 .. n : functions'[i] = functions[i]
        /\ functions'[n + 1] = left
    BY <1>1, <2>1, <2>2
  <2> HIDE DEF n
  <2>4. /\ DOMAIN exports' = DOMAIN exports \cup {symbol}
        /\ \A f \in DOMAIN exports' : exports'[f] = IF f = symbol THEN n + 1 ELSE exports[f]
    BY <2>1 DEF With
  <2>5. ASSUME NEW f \in DOMAIN exports'
        PROVE  exports'[f] \in DOMAIN functions' /\ functions'[exports'[f]].name = f
    <3>1. CASE f = symbol
      BY <2>2, <2>3, <2>4, <3>1
    <3>2. CASE f # symbol
      <4>1. f \in DOMAIN exports /\ exports'[f] = exports[f]
        BY <2>4, <3>2
      <4>2. exports[f] \in 1 .. n /\ functions[exports[f]].name = f
        BY <1>1, <2>3, <4>1 DEF Registered
      <4> QED BY <2>3, <4>1, <4>2
    <3> QED BY <3>1, <3>2
  <2> QED BY <2>5 DEF Registered
<1>4. CASE Clear
  <2>1. exports' = NoMap
    BY <1>4 DEF Clear
  <2> QED BY <2>1 DEF Registered, NoMap
<1>5. UNCHANGED <<functions, exports>> \/ Leave \/ Clear
  BY DEF SymbolsNext, symbolsVars, tables, AddGlobal, Enter, EnterRefused, InBody, Bra, Ket,
         UseDummy, Refuse, Translate, Alloca, UseLocal, UseGlobal, UseConstant, NewLiteral,
         OldLiteral, Call
<1> QED BY <1>2, <1>3, <1>4, <1>5

(* What alloca_ does to the list and to the frame.                         *)
LEMMA AllocaFields ==
  ASSUME Kept, NEW x, x \in Names, Alloca(x)
  PROVE  /\ locals' = Append(locals, x) /\ Len(locals') = Len(locals) + 1
         /\ frame' \in Seq(Nat) /\ Len(locals') <= Len(frame')
         /\ \A p \in 1 .. Len(locals) : frame'[p] = frame[p]
         /\ frame'[Len(locals) + 1] = declared + 1 /\ declared' = declared + 1
         /\ status = "body"
<1> DEFINE m == Len(locals)
           n == Len(frame)
           a == SubSeq(frame, 1, m)
           z == SubSeq(frame, m + 2, n)
           d == <<declared + 1>>
<1>1. /\ locals' = Append(locals, x) /\ declared' = declared + 1 /\ status = "body"
      /\ frame' = a \o d \o z
  BY DEF Alloca, InBody
<1>2. /\ locals \in Seq(Names \cup {Dummy}) /\ frame \in Seq(Nat) /\ declared \in Nat
      /\ m <= n /\ m \in Nat /\ n \in Nat
  BY <1>1 DEF Kept, Scopes, ScopesTyped, FrameKept
<1>3. Len(locals') = m + 1
  BY <1>1, <1>2
<1>4. a \in Seq(Nat) /\ Len(a) = m /\ \A p \in 1 .. m : a[p] = frame[p]
  BY <1>2
<1>5. z \in Seq(Nat)
  BY <1>2
<1>6. d \in Seq(Nat) /\ Len(d) = 1 /\ d[1] = declared + 1
  BY <1>2
<1> HIDE DEF a, z, d, m, n
<1>7. /\ frame' \in Seq(Nat) /\ Len(frame') = m + 1 + Len(z)
      /\ \A p \in 1 .. m : frame'[p] = a[p]
      /\ frame'[m + 1] = d[1]
  <2> DEFINE ad == a \o d
  <2>0. declared + 1 \in Nat /\ a \o <<declared + 1>> = Append(a, declared + 1)
    <3>1. declared + 1 \in Nat
      BY <1>2
    <3> QED BY ONLY <1>4, <3>1, AppendIsConcat
  <2>1. /\ ad \in Seq(Nat) /\ Len(ad) = m + 1 /\ ad[m + 1] = declared + 1
        /\ \A p \in 1 .. m : ad[p] = a[p]
    BY <1>4, <2>0, AppendProperties DEF d
  <2>4. frame' = ad \o z
    BY <1>1
  <2> HIDE DEF ad
  <2>5. /\ frame' \in Seq(Nat) /\ Len(frame') = m + 1 + Len(z)
        /\ \A p \in 1 .. m + 1 : frame'[p] = ad[p]
    <3>1. /\ ad \o z \in Seq(Nat) /\ Len(ad \o z) = Len(ad) + Len(z)
          /\ \A p \in 1 .. Len(ad) + Len(z) :
               (ad \o z)[p] = IF p <= Len(ad) THEN ad[p] ELSE z[p - Len(ad)]
      BY ONLY <1>5, <2>1, ConcatProperties
    <3>2. Len(z) \in Nat
      BY <1>5
    <3>3. \A p \in 1 .. m + 1 : p \in 1 .. (m + 1) + Len(z) /\ p <= m + 1
      BY <1>2, <3>2
    <3> QED BY <2>1, <2>4, <3>1, <3>3
  <2>6. m + 1 \in 1 .. m + 1 /\ \A p \in 1 .. m : p \in 1 .. m + 1
    BY <1>2
  <2> QED BY <1>6, <2>1, <2>5, <2>6
<1>8. Len(z) \in Nat
  BY <1>5
<1> QED BY <1>1, <1>2, <1>3, <1>4, <1>6, <1>7, <1>8 DEF m

(* Every local variable has its slot.                                      *)
LEMMA FrameKeptNext ==
  ASSUME Kept, [SymbolsNext]_symbolsVars
  PROVE  FrameKept'
<1>1. /\ FrameKept /\ locals \in Seq(Names \cup {Dummy})
      /\ DOMAIN monitor = {"locals", "arity", "recorded", "calls", "operands"}
      /\ status = "body" => monitor.recorded = TRUE
  BY DEF Kept, Inductive, TablesTyped, Scopes, ScopesTyped
<1>2. CASE /\ locals' = locals /\ frame' = frame /\ monitor'.recorded = monitor.recorded
           /\ status' = "body" => status = "body"
  BY <1>1, <1>2 DEF FrameKept
<1>3. ASSUME NEW f \in Names, NEW params \in Lists, Enter(f, params), Clean
      PROVE  FrameKept'
  <2>1. /\ locals' = params /\ frame' = [i \in 1 .. Len(params) |-> i]
        /\ monitor'.recorded = TRUE
    BY <1>3 DEF Enter, Begin, Cleared
  <2>2. params \in Seq(Names \cup {Dummy}) /\ Len(params) \in Nat
    BY NamesAssumption
  <2>3. frame' \in Seq(Nat) /\ Len(frame') = Len(params)
    <3>1. frame' \in [1 .. Len(params) -> Nat]
      BY <2>1, <2>2
    <3> QED BY <2>2, <3>1, ListTyped
  <2>4. monitor'.recorded = TRUE /\ frame' \in Seq(Nat) /\ Len(locals') <= Len(frame')
    BY <2>1, <2>2, <2>3
  <2> QED BY ONLY <2>4 DEF FrameKept
<1>4. CASE Ket
  <2>1. /\ locals' = SubSeq(locals, 1, Last(brackets)) /\ frame' = frame /\ status = "body"
        /\ monitor'.recorded = monitor.recorded
    BY <1>1, <1>4 DEF Ket, InBody, Outside
  <2>2. Last(brackets) \in Nat /\ Last(brackets) <= Len(locals)
    <3>1. brackets \in Seq(Nat) /\ brackets # <<>> /\ Last(brackets) <= Len(locals)
      BY <2>1 DEF Kept, Scopes, ScopesTyped, NamesFollowMonitor
    <3>2. Last(brackets) \in Nat
      BY <3>1 DEF Last
    <3> QED BY <3>1, <3>2
  <2>3. Len(locals') <= Len(locals)
    BY <1>1, <2>1, <2>2
  <2>4. /\ Len(locals) <= Len(frame) /\ Len(frame) \in Nat /\ Len(locals) \in Nat
        /\ Len(locals') \in Nat /\ monitor.recorded = TRUE /\ frame \in Seq(Nat)
    <3>1. locals' \in Seq(Names \cup {Dummy})
      BY <1>1, <2>1, <2>2
    <3> QED BY <1>1, <2>1, <3>1 DEF FrameKept
  <2>6. Len(locals') <= Len(frame)
    BY ONLY <2>3, <2>4
  <2>5. monitor'.recorded = TRUE /\ frame' \in Seq(Nat) /\ Len(locals') <= Len(frame')
    BY ONLY <2>1, <2>4, <2>6
  <2> QED BY ONLY <2>5 DEF FrameKept
<1>5. ASSUME NEW x \in Names, Alloca(x) PROVE FrameKept'
  <2>1. frame' \in Seq(Nat) /\ Len(locals') <= Len(frame') /\ status = "body"
    BY <1>5, AllocaFields
  <2>2. monitor'.recorded = TRUE
    BY <1>1, <1>5, <2>1 DEF Alloca
  <2> QED BY <2>1, <2>2 DEF FrameKept
<1>6. CASE Leave \/ Clear
  <2>1. locals' = <<>> /\ frame' = <<>> /\ monitor' = Cleared /\ status' # "body"
    BY <1>6 DEF Leave, Clear
  <2> QED BY <2>1 DEF FrameKept, Cleared
<1>7. \/ /\ locals' = locals /\ frame' = frame /\ monitor'.recorded = monitor.recorded
         /\ status' = "body" => status = "body"
      \/ \E f \in Names, params \in Lists : Enter(f, params) /\ Clean
      \/ Ket \/ (\E x \in Names : Alloca(x)) \/ Leave \/ Clear
  <2>1. ASSUME NEW x \in Names, AddGlobal(x) \/ UseLocal(x) \/ Call(x)
        PROVE  /\ locals' = locals /\ frame' = frame /\ monitor'.recorded = monitor.recorded
               /\ status' = status
    BY <1>1, <2>1 DEF AddGlobal, UseLocal, Call, InBody, current
  <2>2. ASSUME NEW x \in Names, NEW op \in {"fld", "fstp"}, UseGlobal(x, op)
        PROVE  /\ locals' = locals /\ frame' = frame /\ monitor'.recorded = monitor.recorded
               /\ status' = status
    BY <1>1, <2>2 DEF UseGlobal, InBody, Recorded
  <2>3. ASSUME NEW v \in Literals, UseConstant(v) \/ NewLiteral(v) \/ OldLiteral(v)
        PROVE  /\ locals' = locals /\ frame' = frame /\ monitor'.recorded = monitor.recorded
               /\ status' = status
    BY <1>1, <2>3 DEF UseConstant, NewLiteral, OldLiteral, InBody, Recorded
  <2>4. ASSUME \/ \E f \in Names \cup {Dummy} : EnterRefused(f)
               \/ \E f \in Names, params \in Lists : Enter(f, params) /\ ~Clean
               \/ Bra \/ UseDummy \/ Refuse \/ Translate \/ UNCHANGED symbolsVars
        PROVE  /\ locals' = locals /\ frame' = frame /\ monitor'.recorded = monitor.recorded
               /\ status' = "body" => status = "body"
    BY <2>4 DEF EnterRefused, Enter, Bra, UseDummy, Refuse, Translate, symbolsVars, current, InBody
  <2> QED BY <2>1, <2>2, <2>3, <2>4 DEF SymbolsNext
<1> QED BY <1>2, <1>3, <1>4, <1>5, <1>6, <1>7

(* The invariant holds of an assembler just made, and every step keeps it. *)
LEMMA KeptHolds ==
  ASSUME ProperLiterals
  PROVE  SymbolsSpec => []Kept
<1>1. SymbolsInit => Kept
  <2> SUFFICES ASSUME SymbolsInit PROVE Kept
    OBVIOUS
  <2>1. Inductive
    BY InitInductive
  <2>2. Scopes
    BY DEF SymbolsInit, Cleared, NoMap, Scopes, ScopesTyped, NamesFollowMonitor
  <2>3. Registered /\ FrameKept
    BY DEF SymbolsInit, Cleared, NoMap, Registered, FrameKept
  <2> QED BY <2>1, <2>2, <2>3 DEF Kept
<1>2. Kept /\ [SymbolsNext]_symbolsVars => Kept'
  <2> SUFFICES ASSUME Kept, [SymbolsNext]_symbolsVars PROVE Kept'
    OBVIOUS
  <2>1. Inductive' /\ Scopes'
    BY NextInductive, ScopesNext DEF Kept
  <2>2. Registered' /\ FrameKept'
    BY RegisteredNext, FrameKeptNext
  <2> QED BY <2>1, <2>2 DEF Kept
<1> QED BY <1>1, <1>2, PTL DEF SymbolsSpec

-----------------------------------------------------------------------------
(* The state that Scoping sees.                                            *)

(* In a function, the open scopes are those that its brackets make.        *)
LEMMA CutState ==
  Kept /\ status = "body" =>
    WellCut(locals, frame, brackets) /\ OpenScopes = Cuts(locals, frame, brackets)
<1> SUFFICES ASSUME Kept, status = "body"
             PROVE  WellCut(locals, frame, brackets)
                    /\ OpenScopes = Cuts(locals, frame, brackets)
  OBVIOUS
<1>1. WellCut(locals, frame, brackets)
  BY DEF Kept, Scopes, ScopesTyped, NamesFollowMonitor, FrameKept, WellCut
<1>2. \A i : ScopeOf(i) = ScopeAt(locals, frame, Edges(brackets, Len(locals))[i],
                                  Edges(brackets, Len(locals))[i + 1])
  BY DEF ScopeOf, ScopeAt, Named, Bounds, Edges
<1>3. OpenScopes = [i \in 1 .. Len(brackets) + 1 |-> ScopeOf(i)]
  BY DEF OpenScopes, InFunction
<1> QED BY <1>1, <1>2, <1>3 DEF Cuts

(* The same after a step.                                                  *)
LEMMA CutNext ==
  Kept' /\ (status = "body")' =>
    WellCut(locals, frame, brackets)' /\ (OpenScopes = Cuts(locals, frame, brackets))'
  BY CutState, PTL

(* In a function Scoping sees the assembler as it is.                      *)
LEMMA BodySeen ==
  ASSUME InBody
  PROVE  /\ Promise!InBody /\ status = "body" /\ status' = "body"
         /\ declared' = declared <=> (InFunction(declared, 0))' = InFunction(declared, 0)
  BY DEF InBody, tables, Promise!InBody, Stage, InFunction

(* Between functions there are no scopes.                                  *)
LEMMA BetweenSeen ==
  ASSUME status' # "body", found' = Nothing
  PROVE  Promise!Between
  BY DEF InFunction, OpenScopes, Promise!Between, Promise!NoFunction, Promise!Nothing, NoName, Nothing

-----------------------------------------------------------------------------
(* Every step of the assembler is one of Scoping.                          *)

(* bra                                                                     *)
LEMMA BraMaps ==
  ASSUME Kept, Kept', Bra
  PROVE  Promise!Open
<1>1. /\ InBody /\ brackets' = Append(brackets, Len(locals)) /\ locals' = locals
      /\ frame' = frame /\ declared' = declared /\ found' = Nothing
  BY DEF Bra
<1>2. Promise!InBody /\ status = "body" /\ status' = "body"
      /\ (InFunction(declared, 0))' = InFunction(declared, 0)
  BY <1>1, BodySeen
<1>3. WellCut(locals, frame, brackets) /\ OpenScopes = Cuts(locals, frame, brackets)
  BY <1>2, CutState
<1>4. /\ WellCut(locals, frame, Append(brackets, Len(locals)))
      /\ OpenScopes' = Cuts(locals, frame, Append(brackets, Len(locals)))
  BY <1>1, <1>2, CutNext
<1>5. OpenScopes' = Append(OpenScopes, Promise!None)
  BY <1>3, <1>4, CutsOpened DEF Promise!None
<1> QED BY <1>1, <1>2, <1>5 DEF Promise!Open, Nothing, Promise!Nothing

(* ket of a block                                                          *)
LEMMA KetMaps ==
  ASSUME Kept, Kept', Ket
  PROVE  Promise!Close
<1>1. /\ InBody /\ brackets' = SubSeq(brackets, 1, Len(brackets) - 1) /\ Len(brackets) > 1
      /\ locals' = SubSeq(locals, 1, brackets[Len(brackets)])
      /\ frame' = frame /\ declared' = declared /\ found' = Nothing
  BY DEF Ket, Outside, Front, Last
<1>2. Promise!InBody /\ status = "body" /\ status' = "body"
      /\ (InFunction(declared, 0))' = InFunction(declared, 0)
  BY <1>1, BodySeen
<1>3. WellCut(locals, frame, brackets) /\ OpenScopes = Cuts(locals, frame, brackets)
  BY <1>2, CutState
<1>4. WellCut(locals', frame, brackets') /\ OpenScopes' = Cuts(locals', frame, brackets')
  BY <1>1, <1>2, CutNext
<1>5. OpenScopes' = SubSeq(OpenScopes, 1, Len(OpenScopes) - 1)
  <2>1. WithoutBlock(locals, brackets, locals', brackets')
    BY <1>1 DEF WithoutBlock
  <2> QED BY ONLY <1>3, <1>4, <2>1, CutsClosed
<1>6. Len(OpenScopes) > 2
  <2>1. Listed(OpenScopes, Len(brackets) + 1) /\ Len(brackets) + 1 \in Nat
    BY <1>3, CutFacts
  <2>2. DOMAIN OpenScopes = 1 .. Len(brackets) + 1
    BY <2>1 DEF Listed
  <2>3. Len(brackets) \in Nat
    BY <1>3 DEF WellCut
  <2>4. \E s : OpenScopes = [i \in 1 .. Len(brackets) + 1 |-> s[i]]
    BY <2>1 DEF Listed
  <2>5. Len(OpenScopes) = Len(brackets) + 1
    BY <2>2, <2>3, <2>4
  <2> QED BY <1>1, <2>3, <2>5
<1> QED BY <1>1, <1>2, <1>5, <1>6 DEF Promise!Close, Nothing, Promise!Nothing

(* alloca_                                                                 *)
LEMMA AllocaMaps ==
  ASSUME Kept, Kept', NEW x \in Names, Alloca(x)
  PROVE  Promise!Declare(x)
<1> DEFINE l == Len(brackets)
           m == Len(locals)
           s == Cuts(locals, frame, brackets)[l + 1]
<1>1. InBody /\ brackets' = brackets /\ ~IsTopLevel(x) /\ found' = Nothing
  BY DEF Alloca
<1>2. Promise!InBody /\ status = "body" /\ status' = "body"
  BY <1>1, BodySeen
<1>3. /\ locals' = Append(locals, x) /\ declared' = declared + 1
      /\ \A p \in 1 .. m : frame'[p] = frame[p]
      /\ frame'[m + 1] = declared + 1
  BY AllocaFields
<1>4. WellCut(locals, frame, brackets) /\ OpenScopes = Cuts(locals, frame, brackets)
  BY <1>2, CutState
<1>5. WellCut(locals', frame', brackets) /\ OpenScopes' = Cuts(locals', frame', brackets)
  BY <1>1, <1>2, CutNext
<1>6. /\ brackets \in Seq(Nat) /\ brackets # <<>> /\ l \in Nat /\ m \in Nat
      /\ locals \in Seq(Names \cup {Dummy})
      /\ \A i \in 1 .. l : brackets[i] <= m
      /\ \A i, j \in 1 .. l : i <= j => brackets[i] <= brackets[j]
  BY <1>4 DEF WellCut
<1>7. DOMAIN s = Named(locals, brackets[l], m)
  <2> DEFINE e == Edges(brackets, m)
  <2>1. l \in 1 .. l /\ l + 1 \in 1 .. l + 1 /\ (l + 1) + 1 = l + 2 /\ brackets[l] \in Nat
    BY <1>6
  <2>2. e[l + 2] = m /\ \A i \in 1 .. l : e[i + 1] = brackets[i]
    BY <1>6, EdgeFacts
  <2>3. \A i \in 1 .. l + 1 :
          Cuts(locals, frame, brackets)[i] = ScopeAt(locals, frame, e[i], e[i + 1])
    BY <1>4, CutFacts
  <2> HIDE DEF e, l, m
  <2>4. s = ScopeAt(locals, frame, brackets[l], m)
    BY <2>1, <2>2, <2>3
  <2>5. DOMAIN ScopeAt(locals, frame, brackets[l], m) = Named(locals, brackets[l], m)
    BY ONLY <1>6, <2>1, ScopeNames
  <2> HIDE DEF s
  <2> QED BY <2>4, <2>5
<1>8. x \notin DOMAIN s
  <2> DEFINE b == brackets[l]
             part == SubSeq(locals, b + 1, m)
  <2>1. b \in Nat /\ b <= m
    BY <1>6
  <2>2. x \notin ToSet(part)
    BY <1>1 DEF IsTopLevel, Last
  <2> HIDE DEF b, s, m
  <2>3. /\ DOMAIN part = 1 .. m - b
        /\ \A i \in 1 .. m - b : part[i] = locals[b + i]
    BY <1>6, <2>1 DEF m
  <2> HIDE DEF part
  <2>4. ASSUME NEW p \in b + 1 .. m, locals[p] = x PROVE FALSE
    <3>1. p - b \in 1 .. m - b /\ b + (p - b) = p
      BY <1>6, <2>1
    <3>2. part[p - b] = x /\ p - b \in DOMAIN part
      BY <2>3, <2>4, <3>1
    <3> QED BY <2>2, <3>2 DEF ToSet
  <2>5. x \notin Named(locals, b, m)
    BY <2>4 DEF Named
  <2> QED BY <1>7, <2>5 DEF b
<1>9. OpenScopes' = InnermostExtended(OpenScopes, x, declared + 1)
  <2>1. WithDeclaration(locals, frame, brackets, locals', frame', x, declared + 1)
    BY <1>3, <1>8 DEF WithDeclaration
  <2> QED BY ONLY <1>4, <1>5, <2>1, CutsDeclared
<1>10. Len(OpenScopes) = l + 1
  <2>1. Listed(OpenScopes, l + 1) /\ l + 1 \in Nat
    BY <1>4, <1>6, CutFacts
  <2> QED BY <2>1 DEF Listed
<1>11. (InFunction(declared, 0))' = InFunction(declared, 0) + 1 /\ InFunction(declared, 0) = declared
  BY <1>2, <1>3 DEF InFunction
<1> HIDE DEF l
<1>12. s = OpenScopes[Len(OpenScopes)]
  BY <1>4, <1>10 DEF l
<1> HIDE DEF s
<1> QED BY <1>1, <1>2, <1>8, <1>9, <1>11, <1>12
        DEF Promise!Declare, InnermostExtended, Extended, Nothing, Promise!Nothing

(* A step that names something leaves the scopes as they are.              *)
LEMMA NamingSeen ==
  ASSUME InBody, UNCHANGED <<locals, brackets, frame, declared>>
  PROVE  /\ Promise!InBody /\ status = "body" /\ OpenScopes' = OpenScopes
         /\ (InFunction(declared, 0))' = InFunction(declared, 0)
<1>1. /\ Promise!InBody /\ status = "body" /\ status' = "body"
      /\ (InFunction(declared, 0))' = InFunction(declared, 0)
  BY BodySeen
<1>2. OpenScopes' = OpenScopes
  BY <1>1 DEF OpenScopes, InFunction, ScopeOf, Bounds
<1> QED BY <1>1, <1>2

(* An access to a local variable: the newest of its name in the list.      *)
LEMMA UseLocalMaps ==
  ASSUME Kept, NEW x \in Names, UseLocal(x)
  PROVE  Promise!Use(x)
<1> DEFINE m == Len(locals)
           p == LocalOffset(x) + 1
           c == OpenScopes
<1>1. /\ InBody /\ UNCHANGED <<locals, brackets, frame, declared>> /\ IsLocal(x)
      /\ found' = Variable(frame[p])
  BY DEF UseLocal
<1>2. /\ Promise!InBody /\ status = "body" /\ OpenScopes' = OpenScopes
      /\ (InFunction(declared, 0))' = InFunction(declared, 0)
  BY <1>1, NamingSeen
<1>3. WellCut(locals, frame, brackets) /\ OpenScopes = Cuts(locals, frame, brackets)
  BY <1>2, CutState
<1>4. m \in Nat /\ DOMAIN locals = 1 .. m
  BY <1>3 DEF WellCut
<1>5. Newest(locals, 0, m, x, p)
  <2> DEFINE P(i) == locals[i] = x /\ \A j \in i + 1 .. Len(locals) : locals[j] # x
             q == CHOOSE i \in DOMAIN locals : P(i)
             T == {i \in 1 .. m : locals[i] = x}
  <2>1. T \in SUBSET (1 .. m) /\ T # {}
    BY <1>1, <1>4 DEF IsLocal, ToSet
  <2>2. PICK i \in T : \A j \in T : j <= i
    <3> HIDE DEF T
    <3> QED BY <1>4, <2>1, Largest
  <2>3. i \in DOMAIN locals /\ P(i)
    BY <1>4, <2>2
  <2>4. q \in DOMAIN locals /\ P(q)
    BY <2>3
  <2>5. p = (q - 1) + 1
    BY DEF LocalOffset
  <2> HIDE DEF q
  <2>6. p = q /\ q \in 1 .. m
    BY <1>4, <2>4, <2>5
  <2>7. \A j \in 1 .. m : locals[j] = x => j <= q
    BY <1>4, <2>4, <2>6
  <2> HIDE DEF p, m
  <2> QED BY <2>4, <2>6, <2>7 DEF Newest
<1>6. \E i \in DOMAIN c : /\ x \in DOMAIN c[i] /\ c[i][x] = frame[p]
                          /\ \A j \in DOMAIN c : x \in DOMAIN c[j] => j <= i
  <2> HIDE DEF p
  <2> QED BY <1>3, <1>5, CutsUse
<1> HIDE DEF p
<1>7. PICK i \in Promise!Declaring(x) : /\ OpenScopes[i][x] = frame[p]
                                        /\ \A j \in Promise!Declaring(x) : j <= i
  BY <1>6 DEF Promise!Declaring
<1>8. found' = Promise!Variable(OpenScopes[i][x])
  BY <1>1, <1>7 DEF Promise!Variable, Variable
<1> QED BY <1>2, <1>7, <1>8 DEF Promise!Use

(* An access to a global variable, which no local variable hides.          *)
LEMMA UseGlobalMaps ==
  ASSUME Kept, NEW x \in Names, NEW op \in {"fld", "fstp"}, UseGlobal(x, op)
  PROVE  Promise!Use(x)
<1>1. /\ InBody /\ UNCHANGED <<locals, brackets, frame, declared>>
      /\ ~IsLocal(x) /\ IsGlobal(x) /\ found' = Global(heap[globals[x] + 1])
  BY DEF UseGlobal
<1>2. /\ Promise!InBody /\ status = "body" /\ OpenScopes' = OpenScopes
      /\ (InFunction(declared, 0))' = InFunction(declared, 0)
  BY <1>1, NamingSeen
<1>3. WellCut(locals, frame, brackets) /\ OpenScopes = Cuts(locals, frame, brackets)
  BY <1>2, CutState
<1>4. \A p \in 1 .. Len(locals) : locals[p] # x
  BY <1>1, <1>3 DEF WellCut, IsLocal, ToSet
<1>5. \A i \in DOMAIN OpenScopes : x \notin DOMAIN OpenScopes[i]
  BY ONLY <1>3, <1>4, CutsMiss
<1>6. Promise!Declaring(x) = {}
  BY <1>5 DEF Promise!Declaring
<1>7. heap[globals[x] + 1] = x
  BY <1>1 DEF IsGlobal, Kept, Inductive, CellsOwned
<1>8. found' = Promise!Global(x) /\ x \in DOMAIN globals
  BY <1>1, <1>7 DEF Global, Promise!Global, IsGlobal
<1> QED BY <1>2, <1>6, <1>8 DEF Promise!Use

(* A literal: 0 for both zeros, 1, and every other one itself.             *)
LEMMA LiteralMaps ==
  ASSUME ProperLiterals, Kept, NEW v \in Literals,
         UseConstant(v) \/ NewLiteral(v) \/ OldLiteral(v)
  PROVE  Promise!UseLiteral(v)
<1>1. InBody /\ UNCHANGED <<locals, brackets, frame, declared>>
  BY DEF UseConstant, NewLiteral, OldLiteral
<1>2. /\ Promise!InBody /\ OpenScopes' = OpenScopes
      /\ (InFunction(declared, 0))' = InFunction(declared, 0)
  BY <1>1, NamingSeen
<1>3. \E w \in Literals \cup {0} : Same(v, w) /\ found' = Literal(w)
  <2>1. CASE UseConstant(v) /\ IsZero(v)
    BY <2>1 DEF UseConstant, IsZero, Same
  <2>2. CASE UseConstant(v) /\ ~IsZero(v)
    BY <2>2 DEF UseConstant, Same
  <2>3. CASE NewLiteral(v)
    BY <2>3 DEF NewLiteral, Same
  <2>4. CASE OldLiteral(v)
    <3>1. PICK w \in Matches(v) : found' = Literal(heap[literals[w] + 1])
      BY <2>4 DEF OldLiteral
    <3>2. w = v /\ v \in DOMAIN literals
      BY <3>1, MatchesItself DEF Kept, Inductive
    <3>3. found' = Literal(v)
      BY <3>1, <3>2 DEF Kept, Inductive, CellsOwned
    <3> QED BY <3>3 DEF Same
  <2> QED BY <2>1, <2>2, <2>3, <2>4
<1>4. \A w : Literal(w) = Promise!Literal(w)
  BY DEF Literal, Promise!Literal
<1> QED BY <1>2, <1>3, <1>4 DEF Promise!UseLiteral

(* A call, which reaches the function of that name.                        *)
LEMMA CallMaps ==
  ASSUME Kept, NEW f \in Names, Call(f)
  PROVE  Promise!Call(f)
<1>1. /\ InBody /\ UNCHANGED <<locals, brackets, frame, declared>>
      /\ f \in DOMAIN exports /\ found' = Callee(functions[exports[f]].name)
  BY DEF Call, IsFunction
<1>2. functions[exports[f]].name = f
  BY <1>1 DEF Kept, Registered
<1>3. found' = Promise!Callee(f)
  BY <1>1, <1>2 DEF Callee, Promise!Callee
<1> QED BY <1>1, <1>3, NamingSeen DEF Promise!Call

(* A statement of "_"                                                      *)
LEMMA DummyMaps ==
  ASSUME UseDummy
  PROVE  Promise!Skip
<1>1. InBody /\ UNCHANGED <<locals, brackets, frame, declared>> /\ found' = Nothing
  BY DEF UseDummy
<1> QED BY <1>1, NamingSeen DEF Promise!Skip, Nothing, Promise!Nothing

(* ret, the last ket, and leave: the function is finished.                 *)
LEMMA LeaveMaps ==
  ASSUME Kept, Leave
  PROVE  Promise!Finish
<1>1. /\ status = "body" /\ Len(brackets) = 1 /\ status' = "idle" /\ found' = Nothing
      /\ monitor'.recorded = FALSE /\ globals' = globals
      /\ exports' = With(exports, symbol, Len(functions) + 1)
  BY DEF Leave, Cleared
<1>2. Promise!Between
  BY <1>1, BetweenSeen
<1>3. Len(OpenScopes) = 2
  <2>1. OpenScopes = Cuts(locals, frame, brackets) /\ WellCut(locals, frame, brackets)
    BY <1>1, CutState
  <2>2. Listed(OpenScopes, Len(brackets) + 1)
    BY <2>1, CutFacts
  <2>3. Listed(OpenScopes, 2)
    BY <1>1, <2>2
  <2> QED BY <2>3 DEF Listed
<1>4. DOMAIN exports' = DOMAIN exports \cup {InFunction(symbol, NoName)}
  BY <1>1 DEF With, InFunction
<1>5. Stage = "body" /\ Stage' = "idle"
  BY <1>1 DEF Stage
<1> QED BY <1>1, <1>2, <1>3, <1>4, <1>5 DEF Promise!Finish

(* A request refused: of the function begun nothing is seen any more.      *)
LEMMA RefuseMaps ==
  ASSUME Kept, Refuse
  PROVE  Promise!Break
<1>1. /\ status = "body" /\ status' = "idle" /\ found' = Nothing
      /\ monitor' = monitor /\ globals' = globals /\ exports' = exports
  BY DEF Refuse, tables, current
<1>2. Promise!Between
  BY <1>1, BetweenSeen
<1>3. monitor.recorded = TRUE
  BY <1>1 DEF Kept, Scopes, ScopesTyped
<1>4. Stage = "body" /\ Stage' = "broken"
  BY <1>1, <1>3 DEF Stage
<1> QED BY <1>1, <1>2, <1>4 DEF Promise!Break

(* Without a function the assembler is idle, whole or broken.              *)
LEMMA IdleSeen ==
  ASSUME status = "idle"
  PROVE  Stage \in {"idle", "broken"}
  BY DEF Stage

(* clear                                                                   *)
LEMMA ClearMaps ==
  ASSUME Clear
  PROVE  Promise!Clear
<1>1. /\ status = "idle" /\ status' = "idle" /\ found' = Nothing /\ monitor'.recorded = FALSE
      /\ DOMAIN globals' = {} /\ DOMAIN exports' = {}
  BY DEF Clear, Forgotten, NoMap, Cleared
<1>2. Promise!Between
  BY <1>1, BetweenSeen
<1>3. Stage \in {"idle", "broken"} /\ Stage' = "idle"
  BY <1>1 DEF Stage
<1> QED BY <1>1, <1>2, <1>3 DEF Promise!Clear

(* enter in an assembler with nothing left in it                           *)
LEMMA EnterMaps ==
  ASSUME Kept, Kept', NEW f \in Names, NEW params \in Lists, Enter(f, params), Clean
  PROVE  Promise!Define(f, params)
<1>1. /\ status = "idle" /\ status' = "body" /\ found' = Nothing
      /\ f \notin DOMAIN globals /\ f \notin DOMAIN exports
      /\ globals' = globals /\ exports' = exports
      /\ symbol' = f /\ locals' = params /\ brackets' = Append(brackets, Len(params))
      /\ frame' = [i \in 1 .. Len(params) |-> i] /\ declared' = Len(params)
      /\ ~monitor.recorded
  BY DEF Enter, Begin, IsGlobal, IsFunction, tables, Clean
<1>2. params \in Seq(Names \cup {Dummy})
  BY NamesAssumption
<1>3. brackets' = <<Len(params)>>
  <2>1. brackets = <<>>
    BY <1>1 DEF Kept, Scopes, ScopesTyped
  <2> QED BY <1>1, <2>1
<1>4. OpenScopes' = Cuts(locals', frame', brackets')
  BY <1>1, CutNext
<1>5. Cuts(params, frame', <<Len(params)>>) = <<Promise!Parameters(params), Promise!None>>
  BY ONLY <1>1, <1>2, CutsEntered
<1>6. OpenScopes' = <<Promise!Parameters(params), Promise!None>>
  BY ONLY <1>1, <1>3, <1>4, <1>5
<1>7. Stage = "idle" /\ Stage' = "body"
  BY <1>1 DEF Stage
<1>8. (InFunction(declared, 0))' = Len(params) /\ (InFunction(symbol, NoName))' = f
  BY <1>1 DEF InFunction
<1> QED BY <1>1, <1>6, <1>7, <1>8 DEF Promise!Define, Nothing, Promise!Nothing

(* enter after a function that was refused: the assertions end it.         *)
LEMMA AbortMaps ==
  ASSUME Kept, NEW f \in Names, NEW params \in Lists, Enter(f, params), ~Clean
  PROVE  Promise!Abort
<1>1. /\ status = "idle" /\ status' = "aborted" /\ found' = Nothing
      /\ globals' = globals /\ exports' = exports
  BY DEF Enter, tables
<1>2. Promise!Between
  BY <1>1, BetweenSeen
<1>3. monitor.recorded = TRUE
  BY DEF Clean, Kept, FrameKept
<1>4. Stage = "broken" /\ Stage' = "aborted"
  BY <1>1, <1>3 DEF Stage
<1> QED BY <1>1, <1>2, <1>4 DEF Promise!Abort

(* A definition whose name is taken, and a translation                     *)
LEMMA RestMaps ==
  ASSUME Translate \/ \E f \in Names \cup {Dummy} : EnterRefused(f)
  PROVE  Promise!Rest
<1>1. /\ status = "idle" /\ status' = "idle" /\ found' = Nothing
      /\ globals' = globals /\ exports' = exports /\ monitor' = monitor
  BY DEF Translate, EnterRefused, tables, current
<1>2. Promise!Between
  BY <1>1, BetweenSeen
<1>3. Stage' = Stage
  BY <1>1 DEF Stage
<1> QED BY <1>1, <1>2, <1>3, IdleSeen DEF Promise!Rest

(* add_global_variable                                                     *)
LEMMA AddGlobalMaps ==
  ASSUME NEW x \in Names, AddGlobal(x)
  PROVE  Promise!AddGlobal
<1>1. /\ status = "idle" /\ status' = "idle" /\ found' = Nothing
      /\ x \notin DOMAIN globals /\ x \notin DOMAIN exports
      /\ globals' = With(globals, x, Len(heap)) /\ exports' = exports /\ monitor' = monitor
  BY DEF AddGlobal, IsGlobal, IsFunction, current
<1>2. Promise!Between
  BY <1>1, BetweenSeen
<1>3. Stage' = Stage
  BY <1>1 DEF Stage
<1>4. DOMAIN globals' = DOMAIN globals \cup {x}
  BY <1>1 DEF With
<1> QED BY <1>1, <1>2, <1>3, <1>4, IdleSeen DEF Promise!AddGlobal

(* No step, no step.                                                       *)
LEMMA StutterMaps ==
  ASSUME UNCHANGED symbolsVars
  PROVE  UNCHANGED Promise!vars
  BY DEF symbolsVars, tables, current, Promise!vars, OpenScopes, Stage, InFunction, ScopeOf, Bounds

-----------------------------------------------------------------------------
(* The first state is the first of Scoping: no scopes, no names.           *)
LEMMA InitMaps == SymbolsInit => Promise!Init
  BY DEF SymbolsInit, Cleared, NoMap, NoName, Nothing, OpenScopes, Stage, InFunction,
         Promise!Init, Promise!NoFunction, Promise!Nothing

(* A step of the assembler, in any order of declarations, blocks, uses,    *)
(* refusals and clears, is a step of Scoping or none.                      *)
THEOREM StepsAreScoped ==
  ASSUME ProperLiterals, Kept, Kept', [SymbolsNext]_symbolsVars
  PROVE  [Promise!Next]_(Promise!vars)
<1>1. CASE \E x \in Names : AddGlobal(x)
  BY <1>1, AddGlobalMaps DEF Promise!Next
<1>2. CASE \E f \in Names, params \in Lists : Enter(f, params)
  BY <1>2, EnterMaps, AbortMaps DEF Promise!Next
<1>3. CASE Translate \/ \E f \in Names \cup {Dummy} : EnterRefused(f)
  BY <1>3, RestMaps DEF Promise!Next
<1>4. CASE Bra \/ Ket \/ UseDummy \/ Refuse \/ Leave \/ Clear
  BY <1>4, BraMaps, KetMaps, DummyMaps, RefuseMaps, LeaveMaps, ClearMaps DEF Promise!Next
<1>5. CASE \E x \in Names : Alloca(x) \/ UseLocal(x) \/ Call(x)
  BY <1>5, AllocaMaps, UseLocalMaps, CallMaps DEF Promise!Next
<1>6. CASE \E x \in Names, op \in {"fld", "fstp"} : UseGlobal(x, op)
  BY <1>6, UseGlobalMaps DEF Promise!Next
<1>7. CASE \E v \in Literals : UseConstant(v) \/ NewLiteral(v) \/ OldLiteral(v)
  BY <1>7, LiteralMaps DEF Promise!Next
<1>8. CASE UNCHANGED symbolsVars
  BY <1>8, StutterMaps
<1> QED BY <1>1, <1>2, <1>3, <1>4, <1>5, <1>6, <1>7, <1>8 DEF SymbolsNext

(* Names mean what the scopes of the text say: a name in a program reaches *)
(* the variable of the innermost open scope that declares it, or else the  *)
(* global variable, a call the function of that name, and what is left of  *)
(* a function that was refused is never seen by a later one.               *)
THEOREM AssemblerKeepsPromise ==
  ASSUME ProperLiterals
  PROVE  SymbolsSpec => NamesAsWritten
<1>1. SymbolsSpec => []Kept
  BY KeptHolds
<1>2. Kept /\ Kept' /\ [SymbolsNext]_symbolsVars => [Promise!Next]_(Promise!vars)
  BY StepsAreScoped
<1> QED BY <1>1, <1>2, InitMaps, PTL DEF SymbolsSpec, NamesAsWritten, Promise!Spec

=============================================================================
