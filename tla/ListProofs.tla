------------------------------ MODULE ListProofs ------------------------------
(***************************************************************************)
(* Parties and functions called later: two parts that keep lists which     *)
(* change while somebody goes over them.                                   *)
(*                                                                         *)
(* For any players and any number of parties: who points to a party is     *)
(* listed there once, and as long as no script has refused to let somebody *)
(* go, nobody is in two parties and no party is too small or too large.    *)
(*                                                                         *)
(* For any objects, functions and number of ticks in a second: a function  *)
(* is called when its time is over, not sooner, and later only if the list *)
(* it is in was changed under the tick; and never once it was stopped.     *)
(***************************************************************************)
EXTENDS Party, TimedFunctions, WellFoundedInduction, FiniteSetTheorems, TLAPS

-----------------------------------------------------------------------------
(* The invariant, of any lists, pointers and parties: with the ones that a
   call has made half way, too. *)

Has(s, c) == \E i \in DOMAIN s : s[i] = c
NoTwice(s) == \A i, j \in DOMAIN s : s[i] = s[j] => i = j

Points(lists, pointers, ps) ==
    \A p \in ps, c \in Chars : pointers[c] = p => Has(lists[p], c)
Agree(lists, pointers, ps) ==
    \A p \in ps : /\ \A c \in Chars : Has(lists[p], c) => pointers[c] = p
                  /\ Len(lists[p]) \in 2..MaxInParty
Once(lists) == \A p \in Parties : NoTwice(lists[p])

IInv ==
    /\ TypeOK
    /\ Points(list, party, Alive)
    /\ Once(list)
    /\ refused = 0 => Agree(list, party, Alive)

-----------------------------------------------------------------------------
(* Without *)

\* A set of numbers that is not empty has a least one.
LEMMA Least ==
  ASSUME NEW S \in SUBSET Nat, S # {}
  PROVE  \E s \in S : \A r \in S : s <= r
<1> DEFINE R == OpToRel(<, Nat)
<1>1. IsWellFoundedOn(R, Nat)
  BY NatLessThanWellFounded
<1>2. \A r, q \in Nat : r < q => <<r, q>> \in R
  BY DEF OpToRel
<1> HIDE DEF R
<1>3. PICK s \in S : \A r \in S : ~(<<r, s>> \in R)
  BY <1>1, WFMin
<1>4. ASSUME NEW r \in S PROVE s <= r
  <2>1. ~(r < s)
    BY <1>2, <1>3
  <2>2. QED
    BY <2>1
<1>5. QED
  BY <1>4

\* What is left of the first n of s
Step(s, G, f, n) ==
    IF n = 0 THEN <<>>
    ELSE IF s[n] \in G THEN f[n - 1] ELSE Append(f[n - 1], s[n])
Filters(s, G, f, m) == f = [n \in 0..m |-> Step(s, G, f, n)]

LEMMA FilterExists ==
  ASSUME NEW S, NEW s \in Seq(S), NEW G, NEW m \in Nat
  PROVE  \E f : Filters(s, G, f, m)
<1> DEFINE Bad == {n \in Nat : ~\E f : Filters(s, G, f, n)}
<1>1. SUFFICES ASSUME Bad # {} PROVE FALSE
  OBVIOUS
<1>2. PICK n \in Bad : \A k \in Bad : n <= k
  <2>1. Bad \in SUBSET Nat
    OBVIOUS
  <2> HIDE DEF Bad
  <2>2. QED
    BY <1>1, <2>1, Least
<1>3. CASE n = 0
  <2> DEFINE g == [k \in 0..0 |-> <<>>]
  <2>1. Filters(s, G, g, 0)
    BY DEF Filters, Step
  <2>2. QED
    BY <1>2, <1>3, <2>1
<1>4. CASE n # 0
  <2>1. n - 1 \in Nat /\ n - 1 \notin Bad
    BY <1>2, <1>4
  <2>2. PICK f : Filters(s, G, f, n - 1)
    BY <2>1
  <2> DEFINE g == [k \in 0..n |-> IF k = n THEN Step(s, G, f, n) ELSE f[k]]
  <2>3. \A k \in 0..n : g[k] = Step(s, G, g, k)
    <3>1. ASSUME NEW k \in 0..n PROVE g[k] = Step(s, G, g, k)
      <4>1. k # 0 => k - 1 \in 0..n - 1 /\ g[k - 1] = f[k - 1]
        BY <2>1
      <4>2. Step(s, G, g, k) = Step(s, G, f, k)
        BY <4>1 DEF Step
      <4>3. k # n => f[k] = Step(s, G, f, k)
        <5>1. SUFFICES ASSUME k # n PROVE f[k] = Step(s, G, f, k)
          OBVIOUS
        <5>2. k \in 0..n - 1
          BY <2>1, <5>1
        <5>3. QED
          BY <2>2, <5>2 DEF Filters
      <4>4. QED
        BY <4>2, <4>3
    <3>2. QED
      BY <3>1
  <2>4. Filters(s, G, g, n)
    BY <2>3 DEF Filters
  <2>5. QED
    BY <1>2, <2>4
<1>5. QED
  BY <1>3, <1>4

LEMMA Filtering ==
  ASSUME NEW S, NEW s \in Seq(S), NEW G
  PROVE  \E f : /\ Filters(s, G, f, Len(s))
                /\ Without(s, G) = f[Len(s)]
<1> DEFINE upTo[n \in 0..Len(s)] ==
          IF n = 0 THEN <<>>
          ELSE IF s[n] \in G THEN upTo[n - 1] ELSE Append(upTo[n - 1], s[n])
<1>1. Without(s, G) = upTo[Len(s)]
  BY DEF Without
<1>2. Filters(s, G, upTo, Len(s))
  <2>1. \E f : f = [n \in 0..Len(s) |->
          IF n = 0 THEN <<>>
          ELSE IF s[n] \in G THEN f[n - 1] ELSE Append(f[n - 1], s[n])]
    <3>1. Len(s) \in Nat
      OBVIOUS
    <3>2. PICK f : Filters(s, G, f, Len(s))
      BY <3>1, FilterExists
    <3>3. QED
      BY <3>2 DEF Filters, Step
  <2>2. QED
    BY <2>1 DEF Filters, Step
<1>3. QED
  BY <1>1, <1>2

LEMMA FilterSteps ==
  ASSUME NEW S, NEW s \in Seq(S), NEW G, NEW f, Filters(s, G, f, Len(s))
  PROVE  f[0] = <<>> /\ \A n \in 1..Len(s) :
             f[n] = IF s[n] \in G THEN f[n - 1] ELSE Append(f[n - 1], s[n])
<1>1. Len(s) \in Nat
  OBVIOUS
<1>2. \A n \in 0..Len(s) : f[n] = Step(s, G, f, n)
  BY DEF Filters
<1>3. f[0] = Step(s, G, f, 0)
  BY <1>1, <1>2
<1>4. \A n \in 1..Len(s) : n \in 0..Len(s) /\ n # 0
  BY <1>1
<1>5. QED
  BY <1>2, <1>3, <1>4 DEF Step

\* What t has, which is left of the first n of s
Members(s, G, t, n) ==
    \A x : (\E j \in 1..Len(t) : t[j] = x)
             <=> x \notin G /\ \E i \in 1..n : s[i] = x
Distinct(s, n) == \A i, j \in 1..n : s[i] = s[j] => i = j
Single(s, G, k) ==
    \A i \in 1..Len(s) : s[i] \in G <=> i = k
Rest(S, s, G, t, n) ==
    /\ t \in Seq(S)
    /\ Members(s, G, t, n)
    /\ Distinct(s, n) => Distinct(t, Len(t))
    /\ (\A i \in 1..n : s[i] \notin G) =>
          Len(t) = n /\ \A i \in 1..n : t[i] = s[i]
    /\ \A k \in 1..Len(s) :
          Single(s, G, k) => Len(t) = IF n < k THEN n ELSE n - 1

LEMMA RestStep ==
  ASSUME NEW S, NEW s \in Seq(S), NEW G, NEW n \in 1..Len(s),
         NEW t, Rest(S, s, G, t, n - 1),
         NEW u, u = IF s[n] \in G THEN t ELSE Append(t, s[n])
  PROVE  Rest(S, s, G, u, n)
<1>0. /\ n \in Nat /\ n - 1 \in Nat /\ s[n] \in S /\ t \in Seq(S)
      /\ Len(t) \in Nat /\ Len(s) \in Nat
      /\ \A i : i \in 1..n <=> i \in 1..n - 1 \/ i = n
  BY DEF Rest
<1>1. u \in Seq(S)
  BY <1>0
<1>2. s[n] \notin G => /\ Len(u) = Len(t) + 1 /\ u[Len(t) + 1] = s[n]
                       /\ \A i \in 1..Len(t) : u[i] = t[i]
  BY <1>0
<1>3. Members(s, G, u, n)
  <2>1. Members(s, G, t, n - 1)
    BY DEF Rest
  <2>2. CASE s[n] \in G
    BY <1>0, <2>1, <2>2 DEF Members
  <2>3. CASE s[n] \notin G
    <3>1. \A j : j \in 1..Len(u) <=> j \in 1..Len(t) \/ j = Len(t) + 1
      BY <1>0, <1>2, <2>3
    <3>2. ASSUME NEW x
          PROVE  (\E j \in 1..Len(u) : u[j] = x)
                   <=> (\E j \in 1..Len(t) : t[j] = x) \/ x = s[n]
      BY <1>2, <2>3, <3>1
    <3>3. QED
      BY <1>0, <2>1, <2>3, <3>2 DEF Members
  <2>4. QED
    BY <2>2, <2>3
<1>4. ASSUME Distinct(s, n) PROVE Distinct(u, Len(u))
  <2>1. Distinct(t, Len(t))
    BY <1>0, <1>4 DEF Rest, Distinct
  <2>2. CASE s[n] \in G
    BY <2>1, <2>2
  <2>3. CASE s[n] \notin G
    <3>1. \A j \in 1..Len(t) : t[j] # s[n]
      BY <1>0, <1>4 DEF Rest, Members, Distinct
    <3>2. \A j : j \in 1..Len(u) <=> j \in 1..Len(t) \/ j = Len(t) + 1
      BY <1>0, <1>2, <2>3
    <3>3. QED
      BY <1>2, <2>1, <2>3, <3>1, <3>2 DEF Distinct
  <2>4. QED
    BY <2>2, <2>3
<1>5. ASSUME \A i \in 1..n : s[i] \notin G
      PROVE  Len(u) = n /\ \A i \in 1..n : u[i] = s[i]
  BY <1>0, <1>2, <1>5 DEF Rest
<1>6. ASSUME NEW k \in 1..Len(s), Single(s, G, k)
      PROVE  Len(u) = IF n < k THEN n ELSE n - 1
  <2>1. Len(t) = IF n - 1 < k THEN n - 1 ELSE n - 1 - 1
    BY <1>6 DEF Rest
  <2>2. s[n] \in G <=> n = k
    BY <1>6 DEF Single
  <2>3. QED
    BY <1>0, <1>2, <2>1, <2>2
<1>7. QED
  BY <1>1, <1>3, <1>4, <1>5, <1>6 DEF Rest

LEMMA WithoutRest ==
  ASSUME NEW S, NEW s \in Seq(S), NEW G
  PROVE  Rest(S, s, G, Without(s, G), Len(s))
<1>1. PICK f : Filters(s, G, f, Len(s)) /\ Without(s, G) = f[Len(s)]
  BY Filtering
<1>2. Len(s) \in Nat
  OBVIOUS
<1>3. f[0] = <<>> /\ \A n \in 1..Len(s) :
            f[n] = IF s[n] \in G THEN f[n - 1] ELSE Append(f[n - 1], s[n])
  BY <1>1, FilterSteps
<1> DEFINE Bad == {n \in 0..Len(s) : ~Rest(S, s, G, f[n], n)}
<1>4. SUFFICES ASSUME Bad # {} PROVE FALSE
  BY <1>1, <1>2
<1>5. PICK n \in Bad : \A k \in Bad : n <= k
  <2>1. Bad \in SUBSET Nat
    BY <1>2
  <2> HIDE DEF Bad
  <2>2. QED
    BY <1>4, <2>1, Least
<1>6. CASE n = 0
  <2>1. Rest(S, s, G, f[0], 0)
    BY <1>2, <1>3 DEF Rest, Members, Distinct
  <2>2. QED
    BY <1>5, <1>6, <2>1
<1>7. CASE n # 0
  <2>1. n \in 1..Len(s) /\ n - 1 \in 0..Len(s) /\ n - 1 \notin Bad
    BY <1>2, <1>5, <1>7
  <2>2. Rest(S, s, G, f[n - 1], n - 1)
    BY <2>1
  <2>3. Rest(S, s, G, f[n], n)
    BY <1>3, <2>1, <2>2, RestStep
  <2>4. QED
    BY <1>5, <2>3
<1>8. QED
  BY <1>6, <1>7

\* What Without() does to a list
LEMMA WithoutDoes ==
  ASSUME NEW S, NEW s \in Seq(S), NEW G
  PROVE  /\ Without(s, G) \in Seq(S)
         /\ \A x : Has(Without(s, G), x) <=> Has(s, x) /\ x \notin G
         /\ NoTwice(s) => NoTwice(Without(s, G))
         /\ (\A x \in G : ~Has(s, x)) => Without(s, G) = s
<1> DEFINE t == Without(s, G)
<1>1. Rest(S, s, G, t, Len(s))
  BY WithoutRest
<1> HIDE DEF t
<1>2. t \in Seq(S) /\ DOMAIN t = 1..Len(t) /\ DOMAIN s = 1..Len(s)
  BY <1>1 DEF Rest
<1>3. \A x : Has(t, x) <=> Has(s, x) /\ x \notin G
  BY <1>1, <1>2 DEF Rest, Members, Has
<1>4. NoTwice(s) => NoTwice(t)
  BY <1>1, <1>2 DEF Rest, Distinct, NoTwice
<1>5. ASSUME \A x \in G : ~Has(s, x) PROVE t = s
  <2>1. \A i \in 1..Len(s) : s[i] \notin G
    BY <1>2, <1>5 DEF Has
  <2>2. Len(t) = Len(s) /\ \A i \in 1..Len(s) : t[i] = s[i]
    BY <1>1, <2>1 DEF Rest
  <2>3. QED
    BY <1>2, <2>2
<1>6. QED
  BY <1>2, <1>3, <1>4, <1>5 DEF t

\* When one is taken out, the list is shorter by one.
LEMMA WithoutOne ==
  ASSUME NEW S, NEW s \in Seq(S), NEW x, Has(s, x), NoTwice(s)
  PROVE  Len(Without(s, {x})) = Len(s) - 1
<1> DEFINE t == Without(s, {x})
<1>1. Rest(S, s, {x}, t, Len(s))
  BY WithoutRest
<1>2. PICK k \in 1..Len(s) : s[k] = x
  BY DEF Has
<1>3. Single(s, {x}, k)
  BY <1>2 DEF Single, NoTwice
<1>4. Len(t) = IF Len(s) < k THEN Len(s) ELSE Len(s) - 1
  BY <1>1, <1>3 DEF Rest
<1>5. QED
  BY <1>4

\* Where the elements of t come from, which is left of the first n of s
Picks(s, G, t, from, n) ==
    /\ from \in [1..Len(t) -> 1..n]
    /\ \A j \in 1..Len(t) :
          t[j] = s[from[j]] /\ t[j] \notin G /\ j <= from[j]
    /\ \A j, k \in 1..Len(t) : from[j] = from[k] => j = k
    /\ \A m \in 0..n :
          (\A i \in 1..m : s[i] \notin G) =>
              m <= Len(t) /\ \A j \in 1..m : from[j] = j

LEMMA PickStep ==
  ASSUME NEW S, NEW s \in Seq(S), NEW G, NEW n \in 1..Len(s),
         NEW t \in Seq(S), Len(t) <= n - 1,
         NEW from, Picks(s, G, t, from, n - 1),
         NEW u, u = IF s[n] \in G THEN t ELSE Append(t, s[n])
  PROVE  u \in Seq(S) /\ Len(u) <= n /\ \E g : Picks(s, G, u, g, n)
<1>0. /\ n \in Nat /\ n - 1 \in Nat /\ s[n] \in S /\ Len(t) \in Nat
      /\ \A i : i \in 1..n <=> i \in 1..n - 1 \/ i = n
  OBVIOUS
<1>1. u \in Seq(S) /\ Len(u) <= n
  BY <1>0
<1>2. CASE s[n] \in G
  <2>1. from \in [1..Len(t) -> 1..n]
    BY <1>0 DEF Picks
  <2>2. ASSUME NEW m \in 0..n, \A i \in 1..m : s[i] \notin G
        PROVE  m <= Len(t) /\ \A j \in 1..m : from[j] = j
    <3>1. m \in 0..n - 1
      BY <1>0, <1>2, <2>2
    <3>2. QED
      BY <2>2, <3>1 DEF Picks
  <2>3. Picks(s, G, t, from, n)
    BY <2>1, <2>2 DEF Picks
  <2>4. QED
    BY <1>1, <1>2, <2>3
<1>3. CASE s[n] \notin G
  <2> DEFINE g == [j \in 1..Len(t) + 1 |-> IF j = Len(t) + 1 THEN n
                                          ELSE from[j]]
  <2>1. /\ Len(u) = Len(t) + 1 /\ u[Len(t) + 1] = s[n]
        /\ \A j \in 1..Len(t) : u[j] = t[j]
        /\ \A j : j \in 1..Len(u) <=> j \in 1..Len(t) \/ j = Len(t) + 1
    BY <1>0, <1>3
  <2>2. \A j \in 1..Len(t) : from[j] \in 1..n - 1 /\ g[j] = from[j]
    <3>1. \A j \in 1..Len(t) : j \in 1..Len(t) + 1 /\ j # Len(t) + 1
      BY <1>0
    <3>2. QED
      BY <3>1 DEF Picks
  <2>3. g[Len(t) + 1] = n
    BY <1>0
  <2>4. g \in [1..Len(u) -> 1..n]
    BY <1>0, <2>1, <2>2
  <2> HIDE DEF g
  <2>5. \A j \in 1..Len(u) :
            u[j] = s[g[j]] /\ u[j] \notin G /\ j <= g[j]
    BY <1>0, <1>3, <2>1, <2>2, <2>3 DEF Picks
  <2>6. \A j, k \in 1..Len(u) : g[j] = g[k] => j = k
    BY <1>0, <2>1, <2>2, <2>3 DEF Picks
  <2>7. ASSUME NEW m \in 0..n, \A i \in 1..m : s[i] \notin G
        PROVE  m <= Len(u) /\ \A j \in 1..m : g[j] = j
    <3>1. CASE m # n
      <4>1. m \in 0..n - 1
        BY <1>0, <3>1
      <4>2. m <= Len(t) /\ \A j \in 1..m : from[j] = j
        BY <2>7, <4>1 DEF Picks
      <4>3. QED
        BY <1>0, <2>1, <2>2, <4>1, <4>2
    <3>2. CASE m = n
      <4>1. n - 1 \in 0..n - 1 /\ \A i \in 1..n - 1 : s[i] \notin G
        BY <1>0, <2>7, <3>2
      <4>2. n - 1 <= Len(t) /\ \A j \in 1..n - 1 : from[j] = j
        BY <4>1 DEF Picks
      <4>3. Len(t) = n - 1
        BY <1>0, <4>2
      <4>4. QED
        BY <1>0, <2>1, <2>2, <2>3, <3>2, <4>2, <4>3
    <3>3. QED
      BY <3>1, <3>2
  <2>8. Picks(s, G, u, g, n)
    BY <2>4, <2>5, <2>6, <2>7 DEF Picks
  <2>9. QED
    BY <1>1, <2>8
<1>4. QED
  BY <1>2, <1>3

\* Without() picks elements of a list, in their places as far as none is taken
\* out.
LEMMA WithoutPicks ==
  ASSUME NEW S, NEW s \in Seq(S), NEW G
  PROVE  /\ Without(s, G) \in Seq(S)
         /\ \E from : Picks(s, G, Without(s, G), from, Len(s))
<1>1. PICK f : Filters(s, G, f, Len(s)) /\ Without(s, G) = f[Len(s)]
  BY Filtering
<1>2. Len(s) \in Nat
  OBVIOUS
<1>3. f[0] = <<>> /\ \A n \in 1..Len(s) :
            f[n] = IF s[n] \in G THEN f[n - 1] ELSE Append(f[n - 1], s[n])
  BY <1>1, FilterSteps
<1> DEFINE Good(n) == /\ f[n] \in Seq(S) /\ Len(f[n]) <= n
                      /\ \E from : Picks(s, G, f[n], from, n)
           Bad == {n \in 0..Len(s) : ~Good(n)}
<1> HIDE DEF Good
<1>4. SUFFICES ASSUME Bad # {} PROVE FALSE
  BY <1>1, <1>2 DEF Good
<1>5. PICK n \in Bad : \A k \in Bad : n <= k
  <2>1. Bad \in SUBSET Nat
    BY <1>2
  <2> HIDE DEF Bad
  <2>2. QED
    BY <1>4, <2>1, Least
<1>6. CASE n = 0
  <2>1. f[0] \in Seq(S) /\ Len(f[0]) = 0
    BY <1>3
  <2>2. Picks(s, G, f[0], [j \in 1..0 |-> 0], 0)
    BY <2>1 DEF Picks
  <2>3. Good(0)
    BY <2>1, <2>2 DEF Good
  <2>4. QED
    BY <1>5, <1>6, <2>3
<1>7. CASE n # 0
  <2>1. n \in 1..Len(s) /\ n - 1 \in 0..Len(s) /\ n - 1 \notin Bad
    BY <1>2, <1>5, <1>7
  <2>2. Good(n - 1)
    BY <2>1
  <2>3. f[n] = IF s[n] \in G THEN f[n - 1] ELSE Append(f[n - 1], s[n])
    BY <1>3, <2>1
  <2>4. PICK from : Picks(s, G, f[n - 1], from, n - 1)
    BY <2>2 DEF Good
  <2>5. Good(n)
    BY <2>1, <2>2, <2>3, <2>4, PickStep DEF Good
  <2>6. QED
    BY <1>5, <2>5
<1>8. QED
  BY <1>6, <1>7

-----------------------------------------------------------------------------
(* What the calls do to lists and pointers *)

Detachments == [Parties -> SUBSET Chars]

LEMMA Numbers ==
  ASSUME TypeOK
  PROVE  /\ MaxParties \in Nat /\ made \in 0..MaxParties
         /\ Alive \subseteq Parties /\ NoParty \notin Parties
         /\ MaxInParty \in Nat \ {0, 1}
  BY BoundsAssumption DEF TypeOK, Alive, Parties, NoParty

LEMMA DetachDoes ==
  ASSUME TypeOK, Once(list), NEW D \in Detachments
  PROVE  /\ Lists(D) \in [Parties -> Seq(Chars)]
         /\ Pointers(D) \in [Chars -> 0..made]
         /\ Once(Lists(D))
         /\ \A p \in Parties, c \in Chars :
               Has(Lists(D)[p], c) <=> In(c, p) /\ c \notin D[p]
         /\ \A p \in Parties :
               (\A c \in D[p] : ~In(c, p)) => Lists(D)[p] = list[p]
         /\ \A c \in Chars :
               Pointers(D)[c] = IF \E p \in Parties : c \in D[p] /\ In(c, p)
                                THEN NoParty ELSE party[c]
<1>1. list \in [Parties -> Seq(Chars)] /\ party \in [Chars -> 0..made]
  BY DEF TypeOK
<1>2. ASSUME NEW p \in Parties
      PROVE  /\ Lists(D)[p] \in Seq(Chars)
             /\ NoTwice(Lists(D)[p])
             /\ \A c \in Chars : Has(Lists(D)[p], c)
                                   <=> In(c, p) /\ c \notin D[p]
             /\ (\A c \in D[p] : ~In(c, p)) => Lists(D)[p] = list[p]
  <2>1. Lists(D)[p] = Without(list[p], D[p])
    BY DEF Lists
  <2>2. list[p] \in Seq(Chars) /\ NoTwice(list[p])
    BY <1>1 DEF Once
  <2>3. \A c : In(c, p) <=> Has(list[p], c)
    BY DEF In, Has
  <2>4. QED
    BY <2>1, <2>2, <2>3, WithoutDoes
<1>3. Lists(D) \in [Parties -> Seq(Chars)] /\ Once(Lists(D))
  BY <1>2 DEF Lists, Once
<1>4. \A c \in Chars :
         Pointers(D)[c] = IF \E p \in Parties : c \in D[p] /\ In(c, p)
                          THEN NoParty ELSE party[c]
  BY DEF Pointers, Loose
<1>5. Pointers(D) \in [Chars -> 0..made]
  <2>1. NoParty \in 0..made
    BY Numbers DEF NoParty
  <2>2. QED
    BY <1>1, <2>1 DEF Pointers
<1>6. QED
  BY <1>2, <1>3, <1>4, <1>5

\* Who is detached points to no party, and who is not stays in the list.
LEMMA DetachPoints ==
  ASSUME TypeOK, Once(list), NEW D \in Detachments,
         NEW ps \in SUBSET Parties, Points(list, party, ps)
  PROVE  Points(Lists(D), Pointers(D), ps)
<1> SUFFICES ASSUME NEW p \in ps, NEW c \in Chars, Pointers(D)[c] = p
             PROVE  Has(Lists(D)[p], c)
  BY DEF Points
<1>1. p \in Parties /\ p # NoParty
  BY Numbers
<1>2. party[c] = p /\ ~(c \in D[p] /\ In(c, p))
  BY <1>1, DetachDoes
<1>3. In(c, p)
  BY <1>2 DEF Points, In, Has
<1>4. QED
  BY <1>1, <1>2, <1>3, DetachDoes

\* A character that points to no party instead is no harm.
LEMMA PointsLess ==
  ASSUME NEW lists, NEW f \in [Chars -> Nat], NEW g \in [Chars -> Nat],
         NEW ps \in SUBSET Parties, NoParty \notin ps,
         \A c \in Chars : g[c] \in {f[c], NoParty},
         Points(lists, f, ps)
  PROVE  Points(lists, g, ps)
  BY DEF Points

\* The parties whose lists nobody is taken from agree as before.
LEMMA DetachAgrees ==
  ASSUME TypeOK, Once(list), NEW D \in Detachments,
         NEW ps \in SUBSET Parties, Agree(list, party, ps),
         \A p \in ps : \A c \in D[p] : ~In(c, p),
         \A p \in Parties \ ps : \A c \in D[p] : In(c, p) => party[c] \notin ps
  PROVE  Agree(Lists(D), Pointers(D), ps)
<1> SUFFICES ASSUME NEW p \in ps
             PROVE  /\ Lists(D)[p] = list[p]
                    /\ \A c \in Chars : In(c, p) => Pointers(D)[c] = p
  BY DEF Agree, Has, In
<1>1. Lists(D)[p] = list[p]
  BY DetachDoes
<1>2. ASSUME NEW c \in Chars, In(c, p) PROVE Pointers(D)[c] = p
  <2>1. party[c] = p
    BY <1>2 DEF Agree, Has, In
  <2>2. ~\E q \in Parties : c \in D[q] /\ In(c, q)
    BY <2>1
  <2>3. QED
    BY <2>1, <2>2, DetachDoes
<1>3. QED
  BY <1>1, <1>2

LEMMA FromDoes ==
  ASSUME NEW p \in Parties \cup {NoParty}, NEW G \in SUBSET Chars
  PROVE  /\ From(p, G) \in Detachments
         /\ \A q \in Parties : From(p, G)[q] = IF q = p THEN G ELSE {}
  BY DEF From, Detachments

\* Who is gone when nobody refused: one of three or more, or the party ends.
LEMMA Results ==
  ASSUME TypeOK, NEW p \in Parties, NEW c \in Chars, In(c, p),
         NEW r \in RemoveMember(c, p) \cup Disband(p)
  PROVE  /\ r.gone \in SUBSET Chars /\ r.ends \in BOOLEAN /\ r.no \in BOOLEAN
         /\ r.no \/ r.ends \/ (r.gone = {c} /\ Len(list[p]) > 2)
<1>1. list[p] \in Seq(Chars)
  BY DEF TypeOK
<1>2. ASSUME r \in Disband(p) PROVE r = Refusal \/ r = Disbanded(p)
  BY <1>2 DEF Disband
<1>3. CASE r = Refusal
  BY <1>3 DEF Refusal, Result
<1>4. CASE r = Disbanded(p)
  <2> DEFINE n == Len(list[p])
             G == {list[p][i] : i \in {j \in 1..n : j % 2 = 1 \/ j = n}}
  <2>1. G \in SUBSET Chars
    BY <1>1
  <2>2. r = Result(G, TRUE, FALSE)
    BY <1>4 DEF Disbanded
  <2> HIDE DEF G
  <2>3. QED
    BY <2>1, <2>2 DEF Result
<1>5. CASE r \in RemoveMember(c, p) /\ ~IsMaster(c, p)
  <2>1. CASE Len(list[p]) > 2
    <3>1. r \in {Refusal, Result({c}, FALSE, FALSE)}
      BY <1>5, <2>1 DEF RemoveMember
    <3>2. r = Result({c}, FALSE, FALSE)
             => r.gone = {c} /\ r.ends = FALSE /\ r.no = FALSE
      BY DEF Result
    <3>3. QED
      BY <1>3, <2>1, <3>1, <3>2
  <2>2. CASE ~(Len(list[p]) > 2)
    <3>1. \/ r = Refusal
          \/ r = Result({c}, FALSE, TRUE)
          \/ r = Result({d \in Chars : In(d, p)}, TRUE, FALSE)
      BY <1>5, <2>2 DEF RemoveMember
    <3>2. CASE r = Result({c}, FALSE, TRUE)
      BY <3>2 DEF Result
    <3>3. CASE r = Result({d \in Chars : In(d, p)}, TRUE, FALSE)
      <4> DEFINE G == {d \in Chars : In(d, p)}
      <4>1. G \in SUBSET Chars
        OBVIOUS
      <4>2. r = Result(G, TRUE, FALSE)
        BY <3>3
      <4> HIDE DEF G
      <4>3. QED
        BY <4>1, <4>2 DEF Result
    <3>4. QED
      BY <1>3, <3>1, <3>2, <3>3
  <2>3. QED
    BY <2>1, <2>2
<1>6. CASE r \in RemoveMember(c, p) /\ IsMaster(c, p)
  BY <1>2, <1>3, <1>4, <1>6 DEF RemoveMember
<1>7. QED
  BY <1>2, <1>3, <1>4, <1>5, <1>6

\* Whoever is gone, the other parties agree as before, and so does this one if
\* it does not end.
LEMMA LeaveAgrees ==
  ASSUME TypeOK, Once(list), Agree(list, party, Alive),
         NEW p \in Alive, NEW c \in Chars, In(c, p),
         NEW G \in SUBSET Chars, NEW D, D = From(p, G), NEW ps,
         \/ ps = Alive \ {p}
         \/ ps = Alive /\ G = {c} /\ Len(list[p]) > 2
  PROVE  Agree(Lists(D), Pointers(D), ps) /\ Pointers(D)[c] \notin ps
<1> DEFINE others == Alive \ {p}
<1>1. /\ p \in Parties /\ Alive \subseteq Parties /\ NoParty \notin Parties
      /\ D \in Detachments
      /\ \A q \in Parties : D[q] = IF q = p THEN G ELSE {}
  BY Numbers, FromDoes
<1>2. \A d \in Chars : In(d, p) => party[d] = p
  BY DEF Agree, Has, In
<1>3. Agree(Lists(D), Pointers(D), others)
  <2>1. Agree(list, party, others)
    BY DEF Agree
  <2>2. \A q \in others : \A d \in D[q] : ~In(d, q)
    BY <1>1
  <2>3. \A q \in Parties \ others : \A d \in D[q] :
           In(d, q) => party[d] \notin others
    BY <1>1, <1>2
  <2>4. QED
    BY <1>1, <2>1, <2>2, <2>3, DetachAgrees
<1>4. Pointers(D)[c] \in {NoParty, p} /\ (c \in G => Pointers(D)[c] = NoParty)
  BY <1>1, <1>2, DetachDoes
<1>5. CASE ps = Alive \ {p}
  BY <1>1, <1>3, <1>4, <1>5
<1>6. CASE ps = Alive /\ G = {c} /\ Len(list[p]) > 2
  <2>1. G = {c} /\ Len(list[p]) > 2
    BY <1>6
  <2>2. Len(Lists(D)[p]) = Len(list[p]) - 1
    <3>1. Lists(D)[p] = Without(list[p], {c})
      BY <1>1, <2>1 DEF Lists
    <3>2. list[p] \in Seq(Chars) /\ NoTwice(list[p]) /\ Has(list[p], c)
      BY <1>1 DEF TypeOK, Once, In, Has
    <3>3. QED
      BY <3>1, <3>2, WithoutOne
  <2>3. Len(Lists(D)[p]) \in 2..MaxInParty
    <3>1. Len(list[p]) \in 2..MaxInParty
      BY DEF Agree
    <3>2. QED
      BY <2>1, <2>2, <3>1, Numbers
  <2>4. ASSUME NEW d \in Chars, Has(Lists(D)[p], d) PROVE Pointers(D)[d] = p
    <3>1. In(d, p) /\ d # c
      BY <1>1, <2>1, <2>4, DetachDoes
    <3>2. ~\E q \in Parties : d \in D[q] /\ In(d, q)
      BY <1>1, <2>1, <3>1
    <3>3. QED
      BY <1>1, <1>2, <3>1, <3>2, DetachDoes
  <2>5. Agree(Lists(D), Pointers(D), Alive)
    BY <1>3, <2>3, <2>4 DEF Agree
  <2>6. QED
    BY <1>1, <1>4, <1>6, <2>1, <2>5
<1>7. QED
  BY <1>5, <1>6

\* A character who points to none of these parties may point anywhere instead.
LEMMA AgreeElse ==
  ASSUME NEW lists, NEW f \in [Chars -> Nat], NEW c \in Chars, NEW x,
         NEW ps \in SUBSET Parties, f[c] \notin ps, Agree(lists, f, ps)
  PROVE  Agree(lists, [f EXCEPT ![c] = x], ps)
  BY DEF Agree

LEMMA InvitedTyped ==
  ASSUME TypeOK, NEW G
  PROVE  Invitations(G) \in [Chars -> Chars \cup {NoOne}]
  BY DEF TypeOK, Invitations

LEMMA Applied ==
  ASSUME TypeOK, NEW p, NEW r, r.ends \in BOOLEAN, r.no \in BOOLEAN,
         Apply(r, p), p \in Alive \/ ~r.ends
  PROVE  /\ deleted' = IF r.ends THEN deleted \cup {p} ELSE deleted
         /\ deleted' \subseteq 1..made /\ deleted \subseteq deleted'
         /\ refused' \in 0..MaxRefusals
         /\ refused' = 0 => refused = 0 /\ ~r.no
<1>1. refused \in 0..MaxRefusals /\ MaxRefusals \in Nat
  BY BoundsAssumption DEF TypeOK
<1>2. refused' = IF r.no THEN refused + 1 ELSE refused
  BY DEF Apply
<1>3. r.no => refused < MaxRefusals
  BY DEF Apply
<1>4. deleted' = IF r.ends THEN deleted \cup {p} ELSE deleted
  BY DEF Apply
<1>5. deleted' \subseteq 1..made /\ deleted \subseteq deleted'
  BY <1>4 DEF TypeOK, Alive
<1>6. QED
  BY <1>1, <1>2, <1>3, <1>4, <1>5

\* A member has left, or a party ended, and nothing else was done.
LEMMA LeaveDoes ==
  ASSUME IInv, NEW p \in Alive, NEW c \in Chars, In(c, p),
         NEW r \in RemoveMember(c, p) \cup Disband(p), Apply(r, p),
         NEW D, D = From(p, r.gone), NEW ps, ps = Alive \ deleted'
  PROVE  /\ D \in Detachments
         /\ \A q \in Parties \ {p} : D[q] = {}
         /\ deleted' \subseteq 1..made /\ deleted \subseteq deleted'
         /\ deleted' \subseteq deleted \cup {p}
         /\ refused' \in 0..MaxRefusals
         /\ Points(Lists(D), Pointers(D), ps)
         /\ refused' = 0 => refused = 0
         /\ refused' = 0 => Agree(Lists(D), Pointers(D), ps)
         /\ refused' = 0 => Pointers(D)[c] \notin ps
<1>1. TypeOK /\ Once(list) /\ Points(list, party, Alive)
  BY DEF IInv
<1>2. p \in Parties /\ Alive \subseteq Parties
  BY <1>1, Numbers
<1>3. /\ r.gone \in SUBSET Chars /\ r.ends \in BOOLEAN /\ r.no \in BOOLEAN
      /\ r.no \/ r.ends \/ (r.gone = {c} /\ Len(list[p]) > 2)
  BY <1>1, <1>2, Results
<1>4. /\ deleted' = IF r.ends THEN deleted \cup {p} ELSE deleted
      /\ deleted' \subseteq 1..made /\ deleted \subseteq deleted'
      /\ refused' \in 0..MaxRefusals
      /\ refused' = 0 => refused = 0 /\ ~r.no
  BY <1>1, <1>3, Applied
<1>5. D \in Detachments /\ \A q \in Parties \ {p} : D[q] = {}
  BY <1>2, <1>3, FromDoes
<1>6. ps = IF r.ends THEN Alive \ {p} ELSE Alive
  BY <1>4 DEF Alive
<1>7. Points(Lists(D), Pointers(D), ps)
  <2>1. Points(list, party, ps) /\ ps \in SUBSET Parties
    BY <1>1, <1>2 DEF Points
  <2>2. QED
    BY <1>1, <1>5, <2>1, DetachPoints
<1>8. ASSUME refused' = 0
      PROVE  /\ refused = 0
             /\ Agree(Lists(D), Pointers(D), ps)
             /\ Pointers(D)[c] \notin ps
  <2>1. refused = 0 /\ (r.ends \/ (r.gone = {c} /\ Len(list[p]) > 2))
    BY <1>3, <1>4, <1>8
  <2>2. Agree(list, party, Alive)
    BY <2>1 DEF IInv
  <2>3. \/ ps = Alive \ {p}
        \/ ps = Alive /\ r.gone = {c} /\ Len(list[p]) > 2
    BY <1>6, <2>1
  <2>4. PICK G \in SUBSET Chars : G = r.gone
    BY <1>3
  <2>5. QED
    BY <1>1, <2>1, <2>2, <2>3, <2>4, LeaveAgrees
<1>9. deleted' \subseteq deleted \cup {p}
  BY <1>4
<1>10. QED
  BY <1>4, <1>5, <1>7, <1>8, <1>9

\* A party is founded.
LEMMA Founds ==
  ASSUME TypeOK, Once(list), NEW a \in Chars, NEW b \in Chars, a # b,
         NEW D \in Detachments, NEW G, Join(b, a, D, G), party[a] = NoParty,
         NEW ps \in SUBSET Alive, Points(list, party, ps)
  PROVE  /\ made' = made + 1 /\ made' \in 0..MaxParties
         /\ list' \in [Parties -> Seq(Chars)]
         /\ party' \in [Chars -> 0..made']
         /\ invited' \in [Chars -> Chars \cup {NoOne}]
         /\ Once(list')
         /\ Points(list', party', ps \cup {made + 1})
         /\ Agree(Lists(D), Pointers(D), ps) /\ Pointers(D)[b] \notin ps
               => Agree(list', party', ps \cup {made + 1})
<1> DEFINE m == made + 1
<1>1. /\ made < MaxParties /\ made' = m
      /\ list' = [Lists(D) EXCEPT ![m] = <<a, b>>]
      /\ party' = [Pointers(D) EXCEPT ![a] = m, ![b] = m]
      /\ invited' = Invitations(Loose(D) \cup G)
  BY DEF Join
<1>2. /\ Lists(D) \in [Parties -> Seq(Chars)]
      /\ Pointers(D) \in [Chars -> 0..made]
      /\ Once(Lists(D))
      /\ Pointers(D)[a] = NoParty
  BY DetachDoes
<1>3. /\ m \in Nat /\ m \in Parties /\ m \in 0..MaxParties
      /\ 0..made \subseteq 0..m
      /\ m \notin 0..made
      /\ ps \subseteq 0..made /\ ps \subseteq Parties /\ NoParty \notin ps
      /\ 2 \in 2..MaxInParty
  BY <1>1, Numbers DEF TypeOK, Parties, NoParty, Alive
<1> DEFINE s == <<a, b>>
<1>4. /\ s \in Seq(Chars) /\ Len(s) = 2 /\ NoTwice(s)
      /\ \A c : Has(s, c) <=> c \in {a, b}
  BY DEF NoTwice, Has
<1>5. Points(Lists(D), Pointers(D), ps)
  BY <1>3, DetachPoints
<1>6. invited' \in [Chars -> Chars \cup {NoOne}]
  BY <1>1, InvitedTyped
<1> HIDE DEF m, s
<1>7. /\ list' \in [Parties -> Seq(Chars)]
      /\ list'[m] = s
      /\ \A q \in Parties \ {m} : list'[q] = Lists(D)[q]
  BY <1>1, <1>2, <1>3, <1>4 DEF s
<1>8. /\ party' \in [Chars -> 0..m]
      /\ party'[a] = m /\ party'[b] = m
      /\ \A c \in Chars \ {a, b} : party'[c] = Pointers(D)[c]
  BY <1>1, <1>2, <1>3
<1>9. Once(list')
  BY <1>2, <1>4, <1>7 DEF Once
<1>10. Points(list', party', ps \cup {m})
  <2> SUFFICES ASSUME NEW p \in ps \cup {m}, NEW c \in Chars, party'[c] = p
               PROVE  Has(list'[p], c)
    BY DEF Points
  <2>1. CASE c \in {a, b}
    BY <1>4, <1>7, <1>8, <2>1
  <2>2. CASE c \notin {a, b}
    <3>1. Pointers(D)[c] = p /\ p \in ps /\ p # m
      BY <1>2, <1>3, <1>8, <2>2
    <3>2. QED
      BY <1>3, <1>5, <1>7, <3>1 DEF Points
  <2>3. QED
    BY <2>1, <2>2
<1>11. ASSUME Agree(Lists(D), Pointers(D), ps), Pointers(D)[b] \notin ps
       PROVE  Agree(list', party', ps \cup {m})
  <2> SUFFICES ASSUME NEW p \in ps \cup {m}
               PROVE  /\ \A c \in Chars : Has(list'[p], c) => party'[c] = p
                      /\ Len(list'[p]) \in 2..MaxInParty
    BY DEF Agree
  <2>1. CASE p = m
    BY <1>3, <1>4, <1>7, <1>8, <2>1
  <2>2. CASE p # m
    <3>1. p \in ps /\ list'[p] = Lists(D)[p]
      BY <1>3, <1>7, <2>2
    <3>2. \A c \in Chars : Has(Lists(D)[p], c) => Pointers(D)[c] = p
      BY <1>11, <3>1 DEF Agree
    <3>3. Len(Lists(D)[p]) \in 2..MaxInParty
      BY <1>11, <3>1 DEF Agree
    <3>4. \A c \in Chars : Has(list'[p], c) => c \notin {a, b}
      BY <1>2, <1>3, <1>11, <3>1, <3>2
    <3>5. QED
      BY <1>8, <3>1, <3>2, <3>3, <3>4
  <2>3. QED
    BY <2>1, <2>2
<1>12. QED
  BY <1>1, <1>3, <1>6, <1>7, <1>8, <1>9, <1>10, <1>11 DEF m

\* One more comes to a party there is.
LEMMA Enters ==
  ASSUME TypeOK, Once(list), NEW a \in Chars, NEW b \in Chars, a # b,
         NEW D \in Detachments, NEW G, Join(b, a, D, G),
         NEW p \in Parties, p = party[a],
         NEW ps \in SUBSET Alive, Points(list, party, ps)
  PROVE  /\ made' = made
         /\ list' \in [Parties -> Seq(Chars)]
         /\ party' \in [Chars -> 0..made]
         /\ invited' \in [Chars -> Chars \cup {NoOne}]
         /\ Once(list')
         /\ Points(list', party', ps)
         /\ /\ Agree(Lists(D), Pointers(D), ps) /\ Pointers(D)[b] \notin ps
            /\ p \in ps /\ D[p] = {} /\ ~Full(p)
            => Agree(list', party', ps)
<1>0. p # NoParty /\ NoParty \notin Parties /\ ps \subseteq Parties
      /\ p \in 0..made /\ list[p] \in Seq(Chars)
  BY Numbers DEF TypeOK
<1> DEFINE pointers == [Pointers(D) EXCEPT ![b] = p]
           S == Strays(p, pointers)
           all == [D EXCEPT ![p] = S]
<1>1. /\ list' = [Lists(all) EXCEPT ![p] = IF In(b, p) THEN @
                                           ELSE Append(@, b)]
      /\ party' = [Pointers(all) EXCEPT ![b] = p]
      /\ invited' = Invitations(Loose(all) \cup G)
      /\ made' = made
  BY <1>0 DEF Join
<1>2. Pointers(D) \in [Chars -> 0..made]
  BY DetachDoes
<1>3. \A c : c \in S <=> c \in Chars /\ In(c, p)
                           /\ (IF c = b THEN p ELSE Pointers(D)[c]) # p
  BY <1>2 DEF Strays
<1> HIDE DEF S
<1>4. /\ all \in Detachments /\ all[p] = S
      /\ \A q \in Parties \ {p} : all[q] = D[q]
  BY <1>3 DEF Detachments
<1> HIDE DEF all
<1>5. /\ Lists(all) \in [Parties -> Seq(Chars)]
      /\ Pointers(all) \in [Chars -> 0..made]
      /\ Once(Lists(all))
  BY <1>4, DetachDoes
<1>6. Has(Lists(all)[p], b) <=> In(b, p)
  BY <1>3, <1>4, DetachDoes
<1>7. invited' \in [Chars -> Chars \cup {NoOne}]
  BY <1>1, InvitedTyped
<1> DEFINE t == Lists(all)[p]
           u == IF In(b, p) THEN t ELSE Append(t, b)
<1>8. t \in Seq(Chars) /\ NoTwice(t)
  BY <1>5 DEF Once
<1>9. /\ list' \in [Parties -> Seq(Chars)]
      /\ list'[p] = u
      /\ \A q \in Parties \ {p} : list'[q] = Lists(all)[q]
  BY <1>1, <1>5, <1>8
<1>10. /\ party' \in [Chars -> 0..made]
       /\ party'[b] = p
       /\ \A c \in Chars \ {b} : party'[c] = Pointers(all)[c]
  BY <1>0, <1>1, <1>5
<1> HIDE DEF t, u
<1>11. /\ \A c : Has(u, c) <=> Has(t, c) \/ c = b
       /\ NoTwice(u)
       /\ ~In(b, p) => Len(u) = Len(t) + 1
  <2>0. Has(t, b) <=> In(b, p)
    BY <1>6 DEF t
  <2>1. CASE In(b, p)
    BY <1>8, <2>0, <2>1 DEF u
  <2>2. CASE ~In(b, p)
    <3>1. /\ u \in Seq(Chars) /\ Len(u) = Len(t) + 1 /\ u[Len(t) + 1] = b
          /\ \A i \in 1..Len(t) : u[i] = t[i]
      BY <1>8, <2>2 DEF u
    <3>2. /\ DOMAIN t = 1..Len(t) /\ DOMAIN u = 1..Len(u) /\ Len(t) \in Nat
          /\ \A i : i \in DOMAIN u <=> i \in DOMAIN t \/ i = Len(t) + 1
      BY <1>8, <3>1
    <3>3. \A c : Has(u, c) <=> Has(t, c) \/ c = b
      BY <3>1, <3>2 DEF Has
    <3>4. \A i \in DOMAIN t : t[i] # b
      BY <2>0, <2>2 DEF Has
    <3>5. NoTwice(u)
      BY <1>8, <3>1, <3>2, <3>4 DEF NoTwice
    <3>6. QED
      BY <3>1, <3>3, <3>5
  <2>3. QED
    BY <2>1, <2>2
<1>12. Once(list')
  BY <1>5, <1>9, <1>11 DEF Once
<1>13. Points(list', party', ps)
  <2>1. Points(Lists(all), Pointers(all), ps)
    BY <1>0, <1>4, DetachPoints
  <2> SUFFICES ASSUME NEW q \in ps, NEW c \in Chars, party'[c] = q
               PROVE  Has(list'[q], c)
    BY DEF Points
  <2>2. CASE c = b
    BY <1>9, <1>10, <1>11, <2>2
  <2>3. CASE c # b
    <3>1. Has(Lists(all)[q], c)
      BY <1>10, <2>1, <2>3 DEF Points
    <3>2. QED
      BY <1>0, <1>9, <1>11, <3>1 DEF t
  <2>4. QED
    BY <2>2, <2>3
<1>14. ASSUME Agree(Lists(D), Pointers(D), ps), Pointers(D)[b] \notin ps,
              p \in ps, D[p] = {}, ~Full(p)
       PROVE  Agree(list', party', ps)
  <2>1. \A q \in ps, c \in Chars : Has(Lists(D)[q], c) => Pointers(D)[c] = q
    BY <1>14 DEF Agree
  <2>2. \A q \in ps : Len(Lists(D)[q]) \in 2..MaxInParty
    BY <1>14 DEF Agree
  <2>3. \A c \in Chars : In(c, p) => Pointers(D)[c] = p
    BY <1>14, <2>1, DetachDoes
  <2>4. S = {} /\ ~In(b, p)
    BY <1>3, <1>14, <2>3
  <2>5. all = D
    BY <1>4, <1>14, <2>4 DEF Detachments
  <2>6. t = list[p]
    BY <1>14, <2>5, DetachDoes DEF t
  <2> SUFFICES ASSUME NEW q \in ps
               PROVE  /\ \A c \in Chars : Has(list'[q], c) => party'[c] = q
                      /\ Len(list'[q]) \in 2..MaxInParty
    BY DEF Agree
  <2>7. CASE q = p
    <3>1. Len(t) \in 2..MaxInParty /\ Len(t) < MaxInParty
      BY <1>0, <1>14, <2>2, <2>5, <2>6, Numbers DEF t, Full
    <3>2. Len(u) \in 2..MaxInParty
      BY <1>11, <2>4, <3>1, Numbers
    <3>3. \A c \in Chars : Has(t, c) => Pointers(D)[c] = p
      BY <1>14, <2>1, <2>5 DEF t
    <3>4. QED
      BY <1>9, <1>10, <1>11, <2>5, <2>7, <3>2, <3>3
  <2>8. CASE q # p
    <3>1. list'[q] = Lists(D)[q]
      BY <1>0, <1>9, <2>5, <2>8
    <3>2. \A c \in Chars : Has(Lists(D)[q], c) => Pointers(D)[c] = q /\ c # b
      BY <1>14, <2>1
    <3>3. QED
      BY <1>10, <2>2, <2>5, <3>1, <3>2
  <2>9. QED
    BY <2>7, <2>8
<1>15. QED
  BY <1>1, <1>7, <1>9, <1>10, <1>12, <1>13, <1>14

-----------------------------------------------------------------------------
(* The invariant is kept: what the actions have in common. *)

Client == client' \in [Chars -> BOOLEAN]

\* Neither lists nor pointers change.
LEMMA Quiet ==
  ASSUME IInv, UNCHANGED <<made, deleted, list, party, refused>>, Client,
         invited' \in [Chars -> Chars \cup {NoOne}]
  PROVE  IInv'
<1>1. TypeOK'
  BY DEF IInv, TypeOK, Client
<1>2. Alive' = Alive
  BY DEF Alive
<1>3. QED
  BY <1>1, <1>2 DEF IInv

\* Some are detached, and one of them or another forgets his party.
LEMMA Moves ==
  ASSUME TypeOK, Once(list), NEW D \in Detachments, NEW c \in Chars, NEW G,
         list' = Lists(D), invited' = Invitations(G), made' = made, Client,
         deleted' \subseteq 1..made, deleted \subseteq deleted',
         refused' \in 0..MaxRefusals,
         NEW ps, ps = Alive \ deleted',
         Points(Lists(D), Pointers(D), ps),
         refused' = 0 => Agree(Lists(D), Pointers(D), ps),
         \/ party' = Pointers(D)
         \/ /\ party' = [Pointers(D) EXCEPT ![c] = NoParty]
            /\ refused' = 0 => Pointers(D)[c] \notin ps
  PROVE  IInv'
<1>1. /\ Lists(D) \in [Parties -> Seq(Chars)]
      /\ Pointers(D) \in [Chars -> 0..made]
      /\ Once(Lists(D))
  BY DetachDoes
<1>2. made \in 0..MaxParties /\ NoParty \in 0..made /\ 0..made \subseteq Nat
  BY Numbers DEF TypeOK, NoParty
<1>3. party' \in [Chars -> 0..made]
  BY <1>1, <1>2
<1>4. TypeOK'
  BY <1>1, <1>2, <1>3, InvitedTyped DEF TypeOK, Client
<1>5. Alive' = ps
  BY DEF Alive
<1>6. ps \in SUBSET Parties /\ NoParty \notin ps
  BY Numbers
<1>7. \A x \in Chars : party'[x] \in {Pointers(D)[x], NoParty}
  BY <1>1
<1>8. PICK g : g = party'
  OBVIOUS
<1>9. Points(Lists(D), party', ps)
  <2>1. Pointers(D) \in [Chars -> Nat] /\ g \in [Chars -> Nat]
    BY <1>1, <1>2, <1>3, <1>8
  <2>2. Points(Lists(D), g, ps)
    BY <1>6, <1>7, <1>8, <2>1, PointsLess
  <2>3. QED
    BY <1>8, <2>2
<1>10. ASSUME refused' = 0 PROVE Agree(Lists(D), party', ps)
  <2>1. Pointers(D) \in [Chars -> Nat]
    BY <1>1, <1>2
  <2>2. CASE party' = Pointers(D)
    BY <1>10, <2>2
  <2>3. CASE party' # Pointers(D)
    <3>1. Pointers(D)[c] \notin ps
      BY <1>10, <2>3
    <3>2. Agree(Lists(D), [Pointers(D) EXCEPT ![c] = NoParty], ps)
      BY <1>6, <1>10, <2>1, <3>1, AgreeElse
    <3>3. QED
      BY <2>3, <3>2
  <2>4. QED
    BY <2>2, <2>3
<1>11. QED
  BY <1>1, <1>4, <1>5, <1>9, <1>10 DEF IInv

\* One joins.
LEMMA Joined ==
  ASSUME TypeOK, Once(list), Points(list, party, Alive),
         NEW a \in Chars, NEW b \in Chars, a # b, Usable(a),
         NEW D \in Detachments, NEW G, Join(b, a, D, G), Client,
         deleted' \subseteq 1..made, deleted \subseteq deleted',
         refused' \in 0..MaxRefusals,
         NEW ps, ps = Alive \ deleted',
         refused' = 0 => Agree(Lists(D), Pointers(D), ps),
         refused' = 0 => Pointers(D)[b] \notin ps,
         party[a] # NoParty => /\ party[a] \notin deleted'
                               /\ D[party[a]] = {}
                               /\ ~Full(party[a])
  PROVE  IInv'
<1>1. /\ made \in 0..MaxParties /\ made \in Nat
      /\ Alive \subseteq Parties
      /\ ps \in SUBSET Alive /\ Points(list, party, ps)
  BY Numbers DEF Points
<1>2. CASE party[a] = NoParty
  <2>1. /\ made' = made + 1 /\ made' \in 0..MaxParties
        /\ list' \in [Parties -> Seq(Chars)]
        /\ party' \in [Chars -> 0..made']
        /\ invited' \in [Chars -> Chars \cup {NoOne}]
        /\ Once(list')
        /\ Points(list', party', ps \cup {made + 1})
        /\ Agree(Lists(D), Pointers(D), ps) /\ Pointers(D)[b] \notin ps
               => Agree(list', party', ps \cup {made + 1})
    BY <1>1, <1>2, Founds
  <2>2. deleted' \subseteq 1..made'
    BY <1>1, <2>1
  <2>3. TypeOK'
    BY <2>1, <2>2 DEF TypeOK, Client
  <2>4. Alive' = ps \cup {made + 1}
    BY <1>1, <2>1 DEF Alive
  <2>5. QED
    BY <2>1, <2>3, <2>4 DEF IInv
<1>3. CASE party[a] # NoParty
  <2>1. PICK p \in Alive : p = party[a]
    BY <1>3 DEF Usable
  <2>2. /\ made' = made
        /\ list' \in [Parties -> Seq(Chars)]
        /\ party' \in [Chars -> 0..made]
        /\ invited' \in [Chars -> Chars \cup {NoOne}]
        /\ Once(list')
        /\ Points(list', party', ps)
        /\ /\ Agree(Lists(D), Pointers(D), ps) /\ Pointers(D)[b] \notin ps
           /\ p \in ps /\ D[p] = {} /\ ~Full(p)
           => Agree(list', party', ps)
    BY <1>1, <2>1, Enters
  <2>3. p \in ps /\ D[p] = {} /\ ~Full(p)
    BY <1>3, <2>1
  <2>4. TypeOK'
    BY <1>1, <2>2 DEF TypeOK, Client
  <2>5. Alive' = ps
    BY <2>2 DEF Alive
  <2>6. QED
    BY <2>2, <2>3, <2>4, <2>5 DEF IInv
<1>4. QED
  BY <1>2, <1>3

\* Who points to no party is asked in by one who has room: the part of the
\* calls in which nobody leaves
LEMMA IdleDoes ==
  ASSUME IInv, NEW D, D = Nobody \/ D = From(NoParty, {})
  PROVE  /\ D \in Detachments
         /\ \A q \in Parties : D[q] = {}
         /\ Points(Lists(D), Pointers(D), Alive)
         /\ refused = 0 => Agree(Lists(D), Pointers(D), Alive)
         /\ \A c \in Chars : Pointers(D)[c] = party[c]
<1>1. D \in Detachments /\ \A q \in Parties : D[q] = {}
  BY DEF Nobody, From, Detachments
<1>2. TypeOK /\ Once(list) /\ Points(list, party, Alive)
      /\ Alive \in SUBSET Parties
  BY Numbers DEF IInv
<1>3. Points(Lists(D), Pointers(D), Alive)
  BY <1>1, <1>2, DetachPoints
<1>4. ASSUME refused = 0 PROVE Agree(Lists(D), Pointers(D), Alive)
  <2>1. Agree(list, party, Alive)
    BY <1>4 DEF IInv
  <2>2. /\ \A p \in Alive : \A c \in D[p] : ~In(c, p)
        /\ \A p \in Parties \ Alive : \A c \in D[p] :
              In(c, p) => party[c] \notin Alive
    BY <1>1, <1>2
  <2>3. QED
    BY <1>1, <1>2, <2>1, <2>2, DetachAgrees
<1>5. \A c \in Chars : Pointers(D)[c] = party[c]
  BY <1>1, <1>2, DetachDoes
<1>6. QED
  BY <1>1, <1>3, <1>4, <1>5

\* While nobody has refused, SendMemberMsg() has nothing to mend.
LEMMA NoStrays ==
  ASSUME IInv, refused = 0, NEW p \in Alive
  PROVE  Strays(p, party) = {}
  BY DEF IInv, Agree, Has, Strays, In

\* The characters whom SendMemberMsg() takes out
LEMMA MendDoes ==
  ASSUME IInv, NEW p \in Alive, NEW D, D = From(p, Strays(p, party))
  PROVE  /\ D \in Detachments
         /\ Points(Lists(D), Pointers(D), Alive)
         /\ refused = 0 => Agree(Lists(D), Pointers(D), Alive)
<1>1. TypeOK /\ Once(list) /\ Points(list, party, Alive)
      /\ Alive \in SUBSET Parties
  BY Numbers DEF IInv
<1>2. /\ D \in Detachments
      /\ \A q \in Parties : D[q] = IF q = p THEN Strays(p, party) ELSE {}
  <2>1. Strays(p, party) \in SUBSET Chars
    BY DEF Strays
  <2>2. QED
    BY <1>1, <2>1, FromDoes
<1>3. Points(Lists(D), Pointers(D), Alive)
  BY <1>1, <1>2, DetachPoints
<1>4. ASSUME refused = 0 PROVE Agree(Lists(D), Pointers(D), Alive)
  <2>1. Agree(list, party, Alive)
    BY <1>4 DEF IInv
  <2>2. \A q \in Parties : D[q] = {}
    BY <1>2, <1>4, NoStrays
  <2>3. /\ \A q \in Alive : \A c \in D[q] : ~In(c, q)
        /\ \A q \in Parties \ Alive : \A c \in D[q] :
              In(c, q) => party[c] \notin Alive
    BY <1>1, <2>2
  <2>4. QED
    BY <1>1, <1>2, <2>1, <2>3, DetachAgrees
<1>5. QED
  BY <1>2, <1>3, <1>4

-----------------------------------------------------------------------------
(* The invariant is kept: the actions. *)

LEMMA InitInv == Init => IInv
<1> SUFFICES ASSUME Init PROVE IInv
  OBVIOUS
<1>1. MaxParties \in Nat /\ MaxRefusals \in Nat
  BY BoundsAssumption
<1>2. Alive = {}
  BY DEF Init, Alive
<1>3. TypeOK
  BY <1>1 DEF Init, TypeOK, NoParty
<1>4. Once(list)
  BY DEF Init, Once, NoTwice
<1>5. QED
  BY <1>2, <1>3, <1>4 DEF IInv, Points, Agree

\* A member goes, or all do.
LEMMA Left ==
  ASSUME IInv, NEW c \in Chars, NEW p \in Alive, In(c, p),
         NEW r \in RemoveMember(c, p) \cup Disband(p),
         Detach(From(p, r.gone)), Apply(r, p), made' = made, Client
  PROVE  IInv'
<1>1. PICK D : D = From(p, r.gone)
  OBVIOUS
<1>2. PICK ps : ps = Alive \ deleted'
  OBVIOUS
<1>3. /\ D \in Detachments
      /\ deleted' \subseteq 1..made /\ deleted \subseteq deleted'
      /\ refused' \in 0..MaxRefusals
      /\ Points(Lists(D), Pointers(D), ps)
      /\ refused' = 0 => Agree(Lists(D), Pointers(D), ps)
  BY <1>1, <1>2, LeaveDoes
<1>4. PICK G : G = Loose(D)
  OBVIOUS
<1>5. list' = Lists(D) /\ party' = Pointers(D) /\ invited' = Invitations(G)
  BY <1>1, <1>4 DEF Detach
<1>6. TypeOK /\ Once(list)
  BY DEF IInv
<1>7. QED
  BY <1>2, <1>3, <1>5, <1>6, Moves

\* He goes, and forgets his party whether he has left it or not.
LEMMA Forgets ==
  ASSUME IInv, NEW c \in Chars, NEW p \in Alive, In(c, p),
         NEW r \in RemoveMember(c, p) \cup Disband(p),
         NEW D, D = From(p, r.gone),
         list' = Lists(D), party' = [Pointers(D) EXCEPT ![c] = NoParty],
         invited' = Invitations(Loose(D)),
         Apply(r, p), made' = made, Client
  PROVE  IInv'
<1>1. PICK ps : ps = Alive \ deleted'
  OBVIOUS
<1>2. /\ D \in Detachments
      /\ deleted' \subseteq 1..made /\ deleted \subseteq deleted'
      /\ refused' \in 0..MaxRefusals
      /\ Points(Lists(D), Pointers(D), ps)
      /\ refused' = 0 => Agree(Lists(D), Pointers(D), ps)
      /\ refused' = 0 => Pointers(D)[c] \notin ps
  BY <1>1, LeaveDoes
<1>3. PICK G : G = Loose(D)
  OBVIOUS
<1>4. TypeOK /\ Once(list)
  BY DEF IInv
<1>5. QED
  BY <1>1, <1>2, <1>3, <1>4, Moves

\* Who points to a party may leave it.
LEMMA Member ==
  ASSUME IInv, NEW c \in Chars, Usable(c), party[c] # NoParty
  PROVE  party[c] \in Alive /\ In(c, party[c])
  BY DEF IInv, Usable, Points, Has, In

LEMMA ClientKept ==
  ASSUME IInv, UNCHANGED client
  PROVE  Client
  BY DEF IInv, TypeOK, Client

LEMMA RemoveInv ==
  ASSUME IInv, NEW c \in Chars, NEW p \in Parties, Remove(c, p)
  PROVE  IInv'
<1>1. PICK r \in RemoveMember(c, p) : Detach(From(p, r.gone)) /\ Apply(r, p)
  BY DEF Remove
<1>2. p \in Alive /\ In(c, p) /\ made' = made /\ Client
  BY ClientKept DEF Remove
<1>3. QED
  BY <1>1, <1>2, Left

LEMMA DisbandPartyInv ==
  ASSUME IInv, NEW p \in Parties, DisbandParty(p)
  PROVE  IInv'
<1>1. PICK r \in Disband(p) : Detach(From(p, r.gone)) /\ Apply(r, p)
  BY DEF DisbandParty
<1>2. p \in Alive /\ list[p] # <<>> /\ made' = made /\ Client
  BY ClientKept DEF DisbandParty
<1>3. PICK c \in Chars : In(c, p)
  <2>1. list[p] \in Seq(Chars)
    BY DEF IInv, TypeOK
  <2>2. 1 \in DOMAIN list[p] /\ list[p][1] \in Chars
    BY <1>2, <2>1
  <2>3. QED
    BY <2>2 DEF In
<1>4. QED
  BY <1>1, <1>2, <1>3, Left

LEMMA SetMasterInv ==
  ASSUME IInv, NEW c \in Chars, NEW p \in Parties, SetMaster(c, p)
  PROVE  IInv'
<1>1. PICK D : D = From(p, Strays(p, party))
  OBVIOUS
<1>2. PICK H : H = Strays(p, party)
  OBVIOUS
<1>3. PICK G : G = Loose(D)
  OBVIOUS
<1> DEFINE others == Without(list[p], {c})
           s == <<c>> \o others
           t == Without(s, H)
<1>4. /\ p \in Alive /\ In(c, p)
      /\ list' = [list EXCEPT ![p] = t]
      /\ party' = Pointers(D) /\ invited' = Invitations(G)
      /\ made' = made /\ deleted' = deleted /\ refused' = refused
      /\ Client
  BY <1>1, <1>2, <1>3, ClientKept DEF SetMaster
<1>5. /\ TypeOK /\ Once(list) /\ Points(list, party, Alive)
      /\ list \in [Parties -> Seq(Chars)]
      /\ list[p] \in Seq(Chars) /\ NoTwice(list[p])
  BY DEF IInv, TypeOK, Once
<1>6. /\ D \in Detachments
      /\ Points(Lists(D), Pointers(D), Alive)
      /\ refused = 0 => Agree(Lists(D), Pointers(D), Alive)
  BY <1>1, <1>4, MendDoes
<1>7. /\ others \in Seq(Chars) /\ NoTwice(others)
      /\ \A x : Has(others, x) <=> Has(list[p], x) /\ x \notin {c}
  BY <1>5, WithoutDoes
<1>8. Len(others) = Len(list[p]) - 1
  <2>1. Has(list[p], c)
    BY <1>4 DEF In, Has
  <2>2. QED
    BY <1>5, <2>1, WithoutOne
<1> HIDE DEF others
<1>9. /\ s \in Seq(Chars) /\ NoTwice(s) /\ Len(s) = Len(list[p])
      /\ \A x : Has(s, x) <=> Has(list[p], x)
  <2>1. /\ s \in Seq(Chars) /\ Len(s) = Len(others) + 1 /\ s[1] = c
        /\ \A i \in 1..Len(others) : s[i + 1] = others[i]
    BY <1>7
  <2>2. /\ Len(others) \in Nat /\ Len(list[p]) \in Nat
        /\ DOMAIN others = 1..Len(others) /\ DOMAIN s = 1..Len(s)
    BY <1>5, <1>7, <2>1
  <2>3. \A i \in DOMAIN s : \/ i = 1
                            \/ i - 1 \in DOMAIN others /\ s[i] = others[i - 1]
    <3>1. ASSUME NEW i \in DOMAIN s, i # 1
          PROVE  i - 1 \in DOMAIN others /\ s[i] = others[i - 1]
      <4>1. i - 1 \in 1..Len(others) /\ i - 1 + 1 = i
        BY <2>1, <2>2, <3>1
      <4>2. QED
        BY <2>1, <2>2, <4>1
    <3>2. QED
      BY <3>1
  <2>4. 1 \in DOMAIN s /\ \A i \in DOMAIN others : i + 1 \in DOMAIN s
    BY <2>1, <2>2
  <2>5. \A x : Has(s, x) <=> x = c \/ Has(others, x)
    <3>1. ASSUME NEW x, Has(s, x) PROVE x = c \/ Has(others, x)
      BY <2>1, <2>3, <3>1 DEF Has
    <3>2. ASSUME NEW x, x = c \/ Has(others, x) PROVE Has(s, x)
      BY <2>1, <2>2, <2>4, <3>2 DEF Has
    <3>3. QED
      BY <3>1, <3>2
  <2>6. Has(list[p], c)
    BY <1>4 DEF In, Has
  <2>7. \A x : Has(s, x) <=> Has(list[p], x)
    BY <1>7, <2>5, <2>6
  <2>8. NoTwice(s)
    <3>1. \A i \in DOMAIN others : others[i] # c
      BY <1>7 DEF Has
    <3> SUFFICES ASSUME NEW i \in DOMAIN s, NEW j \in DOMAIN s, s[i] = s[j]
                 PROVE  i = j
      BY DEF NoTwice
    <3>2. i \in Nat /\ j \in Nat
      BY <2>1, <2>2
    <3>3. CASE i = 1 \/ j = 1
      BY <2>1, <2>3, <3>1, <3>3
    <3>4. CASE i # 1 /\ j # 1
      <4>1. i - 1 = j - 1
        BY <1>7, <2>3, <3>4 DEF NoTwice
      <4>2. QED
        BY <3>2, <4>1
    <3>5. QED
      BY <3>3, <3>4
  <2>9. QED
    BY <1>8, <2>1, <2>2, <2>7, <2>8
<1> HIDE DEF s
<1>10. /\ t \in Seq(Chars) /\ NoTwice(t)
       /\ \A x : Has(t, x) <=> Has(list[p], x) /\ x \notin H
       /\ H = {} => t = s
  BY <1>9, WithoutDoes
<1> HIDE DEF t
<1>11. /\ list' \in [Parties -> Seq(Chars)] /\ list'[p] = t
       /\ \A q \in Parties \ {p} : list'[q] = list[q]
  BY <1>4, <1>5, <1>10
<1>12. Once(list')
  BY <1>5, <1>10, <1>11 DEF Once
<1>13. Alive' = Alive /\ Alive \subseteq Parties
  BY <1>4, <1>5, Numbers DEF Alive
<1>14. /\ Pointers(D) \in [Chars -> 0..made]
       /\ \A q \in Parties, x \in Chars :
             Has(Lists(D)[q], x) <=> In(x, q) /\ x \notin D[q]
  BY <1>5, <1>6, DetachDoes
<1>15. TypeOK'
  BY <1>4, <1>5, <1>11, <1>14, InvitedTyped DEF TypeOK, Client
<1>16. \A q \in Parties, x \in Chars :
          Has(Lists(D)[q], x) <=> Has(list'[q], x)
  <2>1. \A q \in Parties : D[q] = IF q = p THEN H ELSE {}
    BY <1>1, <1>2 DEF From
  <2>2. \A q, x : In(x, q) <=> Has(list[q], x)
    BY DEF In, Has
  <2>3. ASSUME NEW q \in Parties, NEW x \in Chars
        PROVE  Has(Lists(D)[q], x) <=> Has(list'[q], x)
    <3>1. CASE q = p
      BY <1>10, <1>11, <1>14, <2>1, <2>2, <3>1
    <3>2. CASE q # p
      BY <1>11, <1>14, <2>1, <2>2, <3>2
    <3>3. QED
      BY <3>1, <3>2
  <2>4. QED
    BY <2>3
<1>17. Points(list', party', Alive')
  BY <1>4, <1>6, <1>13, <1>16 DEF Points
<1>18. ASSUME refused = 0 PROVE Agree(list', party', Alive')
  <2>1. H = {}
    BY <1>2, <1>4, <1>18, NoStrays
  <2>2. /\ Agree(Lists(D), Pointers(D), Alive)
        /\ \A q \in Alive : Len(list[q]) \in 2..MaxInParty
    BY <1>6, <1>18 DEF IInv, Agree
  <2>3. \A q \in Alive : Len(list'[q]) \in 2..MaxInParty
    BY <1>9, <1>10, <1>11, <1>13, <2>1, <2>2
  <2>4. QED
    BY <1>4, <1>13, <1>16, <2>2, <2>3 DEF Agree
<1>19. QED
  BY <1>4, <1>12, <1>15, <1>17, <1>18 DEF IInv

\* AcceptEvent() that is not forced
LEMMA AcceptEventInv ==
  ASSUME IInv, NEW a \in Chars, NEW b \in Chars, a # b, AcceptEvent(b, a)
  PROVE  IInv'
<1>1. TypeOK /\ Once(list) /\ Points(list, party, Alive)
  BY DEF IInv
<1>2. CASE /\ Usable(a) /\ party[b] = NoParty
           /\ party[a] # NoParty => ~Full(party[a]) /\ IsMaster(a, party[a])
           /\ Join(b, a, Nobody, {a})
           /\ UNCHANGED <<deleted, client, refused>>
  <2>1. PICK D : D = Nobody
    OBVIOUS
  <2>2. PICK ps : ps = Alive \ deleted'
    OBVIOUS
  <2>3. /\ D \in Detachments
        /\ \A q \in Parties : D[q] = {}
        /\ refused = 0 => Agree(Lists(D), Pointers(D), Alive)
        /\ \A c \in Chars : Pointers(D)[c] = party[c]
    BY <2>1, IdleDoes
  <2>4. ps = Alive /\ NoParty \notin ps /\ Alive \subseteq Parties
    BY <1>1, <1>2, <2>2, Numbers DEF Alive
  <2>5. /\ deleted' \subseteq 1..made /\ deleted \subseteq deleted'
        /\ refused' \in 0..MaxRefusals /\ Client
    BY <1>1, <1>2, ClientKept DEF TypeOK
  <2>6. /\ refused' = 0 => Agree(Lists(D), Pointers(D), ps)
        /\ refused' = 0 => Pointers(D)[b] \notin ps
    BY <1>2, <2>3, <2>4
  <2>7. party[a] # NoParty => /\ party[a] \notin deleted'
                              /\ D[party[a]] = {}
                              /\ ~Full(party[a])
    BY <1>2, <2>3, <2>4 DEF Usable, Alive
  <2>8. Join(b, a, D, {a}) /\ Usable(a)
    BY <1>2, <2>1
  <2>9. QED
    BY <1>1, <2>2, <2>3, <2>5, <2>6, <2>7, <2>8, Joined
<1>3. CASE /\ invited' = Invitations({a})
           /\ UNCHANGED <<made, deleted, list, party, client, refused>>
  <2>1. invited' \in [Chars -> Chars \cup {NoOne}]
    BY <1>1, <1>3, InvitedTyped
  <2>2. Client
    BY <1>3, ClientKept
  <2>3. QED
    BY <1>3, <2>1, <2>2, Quiet
<1>4. QED
  BY <1>2, <1>3 DEF AcceptEvent

LEMMA AddMemberInv ==
  ASSUME IInv, NEW b \in Chars, NEW p \in Parties, AddMember(b, p)
  PROVE  IInv'
<1>1. TypeOK /\ p \in Alive /\ list[p] # <<>> /\ ~In(b, p)
  BY DEF IInv, AddMember
<1>2. PICK a \in Chars : a = Head(list[p]) /\ a # b
  <2>1. list[p] \in Seq(Chars)
    BY <1>1 DEF TypeOK
  <2>2. 1 \in DOMAIN list[p] /\ Head(list[p]) = list[p][1]
        /\ list[p][1] \in Chars
    BY <1>1, <2>1
  <2>3. QED
    BY <1>1, <2>2 DEF In
<1>3. CASE AcceptEvent(b, a)
  BY <1>2, <1>3, AcceptEventInv
<1>4. CASE /\ invited' = [invited EXCEPT ![a] = b]
           /\ UNCHANGED <<made, deleted, list, party, client, refused>>
  <2>1. invited' \in [Chars -> Chars \cup {NoOne}]
    BY <1>1, <1>4 DEF TypeOK
  <2>2. Client
    BY <1>4, ClientKept
  <2>3. QED
    BY <1>4, <2>1, <2>2, Quiet
<1>5. QED
  BY <1>2, <1>3, <1>4 DEF AddMember

\* Nobody joins or leaves: only invitations change.
LEMMA InviteInv ==
  ASSUME IInv, NEW a \in Chars, NEW b \in Chars, Invite(a, b) \/ Decline(b, a)
  PROVE  IInv'
<1>1. /\ UNCHANGED <<made, deleted, list, party, client, refused>>
      /\ \/ invited' = [invited EXCEPT ![a] = b]
         \/ invited' = [invited EXCEPT ![a] = NoOne]
  BY DEF Invite, Decline
<1>2. invited' \in [Chars -> Chars \cup {NoOne}]
  BY <1>1 DEF IInv, TypeOK
<1>3. Client
  BY <1>1, ClientKept
<1>4. QED
  BY <1>1, <1>2, <1>3, Quiet

LEMMA StutterInv ==
  ASSUME IInv, UNCHANGED vars
  PROVE  IInv'
<1>1. UNCHANGED <<made, deleted, list, party, invited, client, refused>>
  BY DEF vars, partyVars
<1>2. invited' \in [Chars -> Chars \cup {NoOne}]
  BY <1>1 DEF IInv, TypeOK
<1>3. Client
  BY <1>1, ClientKept
<1>4. QED
  BY <1>1, <1>2, <1>3, Quiet

\* AcceptEvent() that is forced
LEMMA ForceAcceptInv ==
  ASSUME IInv, NEW a \in Chars, NEW b \in Chars, ForceAccept(b, a)
  PROVE  IInv'
<1>1. /\ a # b /\ Usable(a) /\ Usable(b)
      /\ party[b] = NoParty \/ party[b] # party[a]
      /\ Client
  BY ClientKept DEF ForceAccept
<1>2. PICK r : /\ r \in IF party[b] = NoParty THEN {Result({}, FALSE, FALSE)}
                        ELSE RemoveMember(b, party[b])
               /\ Apply(r, party[b])
               /\ LET left == From(party[b], r.gone)
                  IN IF party[a] # NoParty /\ Full(party[a])
                     THEN /\ list' = Lists(left)
                          /\ party' = [Pointers(left) EXCEPT ![b] = NoParty]
                          /\ invited' = Invitations(Loose(left))
                          /\ UNCHANGED made
                     ELSE Join(b, a, left, {})
  BY DEF ForceAccept
<1>3. PICK D : D = From(party[b], r.gone)
  OBVIOUS
<1>4. PICK ps : ps = Alive \ deleted'
  OBVIOUS
<1>5. CASE party[a] # NoParty /\ Full(party[a])
           /\ list' = Lists(D)
           /\ party' = [Pointers(D) EXCEPT ![b] = NoParty]
           /\ invited' = Invitations(Loose(D))
           /\ made' = made
  <2>1. CASE party[b] = NoParty
    <3>1. r = Result({}, FALSE, FALSE)
      BY <1>2, <2>1
    <3>2. r.gone = {} /\ r.ends = FALSE /\ r.no = FALSE
      BY <3>1 DEF Result
    <3>3. /\ TypeOK /\ Once(list)
          /\ deleted' = deleted /\ refused' = refused
          /\ deleted' \subseteq 1..made /\ refused' \in 0..MaxRefusals
      BY <1>2, <3>2 DEF Apply, IInv, TypeOK
    <3>4. D = From(NoParty, {}) /\ ps = Alive
      BY <1>3, <1>4, <2>1, <3>2, <3>3 DEF Alive
    <3>5. /\ D \in Detachments
          /\ Points(Lists(D), Pointers(D), Alive)
          /\ refused = 0 => Agree(Lists(D), Pointers(D), Alive)
          /\ \A c \in Chars : Pointers(D)[c] = party[c]
      BY <3>4, IdleDoes
    <3>6. Pointers(D)[b] \notin ps
      BY <2>1, <3>3, <3>4, <3>5, Numbers
    <3>7. PICK G : G = Loose(D)
      OBVIOUS
    <3>8. QED
      BY <1>1, <1>4, <1>5, <3>3, <3>4, <3>5, <3>6, <3>7, Moves
  <2>2. CASE party[b] # NoParty
    <3>1. PICK p \in Alive : p = party[b] /\ In(b, p)
      BY <1>1, <2>2, Member
    <3>2. r \in RemoveMember(b, p)
      BY <1>2, <2>2, <3>1
    <3>3. QED
      BY <1>1, <1>2, <1>3, <1>5, <3>1, <3>2, Forgets
  <2>3. QED
    BY <2>1, <2>2
<1>6. CASE ~(party[a] # NoParty /\ Full(party[a])) /\ Join(b, a, D, {})
  <2>0. TypeOK /\ Once(list) /\ Points(list, party, Alive)
    BY DEF IInv
  <2>1. CASE party[b] = NoParty
    <3>1. r = Result({}, FALSE, FALSE)
      BY <1>2, <2>1
    <3>2. r.gone = {} /\ r.ends = FALSE /\ r.no = FALSE
      BY <3>1 DEF Result
    <3>3. /\ deleted' = deleted /\ refused' = refused
          /\ deleted' \subseteq 1..made /\ deleted \subseteq deleted'
          /\ refused' \in 0..MaxRefusals
      BY <1>2, <2>0, <3>2 DEF Apply, TypeOK
    <3>4. D = From(NoParty, {}) /\ ps = Alive
      BY <1>3, <1>4, <2>1, <3>2, <3>3 DEF Alive
    <3>5. /\ D \in Detachments
          /\ \A q \in Parties : D[q] = {}
          /\ refused = 0 => Agree(Lists(D), Pointers(D), Alive)
          /\ \A c \in Chars : Pointers(D)[c] = party[c]
      BY <3>4, IdleDoes
    <3>6. Pointers(D)[b] \notin ps
      BY <2>0, <2>1, <3>4, <3>5, Numbers
    <3>7. party[a] # NoParty => /\ party[a] \notin deleted'
                                /\ D[party[a]] = {}
                                /\ ~Full(party[a])
      BY <1>1, <1>6, <2>0, <3>3, <3>5, Numbers DEF Usable, Alive
    <3>8. /\ refused' = 0 => Agree(Lists(D), Pointers(D), ps)
          /\ refused' = 0 => Pointers(D)[b] \notin ps
      BY <3>3, <3>4, <3>5, <3>6
    <3>9. QED
      BY <1>1, <1>4, <1>6, <2>0, <3>3, <3>5, <3>7, <3>8, Joined
  <2>2. CASE party[b] # NoParty
    <3>1. PICK p \in Alive : p = party[b] /\ In(b, p)
      BY <1>1, <2>2, Member
    <3>2. /\ r \in RemoveMember(b, p) \cup Disband(p)
          /\ Apply(r, p) /\ D = From(p, r.gone)
      BY <1>2, <1>3, <2>2, <3>1
    <3>3. /\ D \in Detachments
          /\ \A q \in Parties \ {p} : D[q] = {}
          /\ deleted' \subseteq 1..made /\ deleted \subseteq deleted'
          /\ deleted' \subseteq deleted \cup {p}
          /\ refused' \in 0..MaxRefusals
          /\ refused' = 0 => Agree(Lists(D), Pointers(D), ps)
          /\ refused' = 0 => Pointers(D)[b] \notin ps
      <4>1. In(b, p)
        BY <3>1
      <4>2. /\ D \in Detachments
            /\ \A q \in Parties \ {p} : D[q] = {}
            /\ deleted' \subseteq 1..made /\ deleted \subseteq deleted'
            /\ deleted' \subseteq deleted \cup {p}
            /\ refused' \in 0..MaxRefusals
            /\ Points(Lists(D), Pointers(D), ps)
            /\ refused' = 0 => refused = 0
            /\ refused' = 0 => Agree(Lists(D), Pointers(D), ps)
            /\ refused' = 0 => Pointers(D)[b] \notin ps
        BY <1>4, <3>2, <4>1, LeaveDoes
      <4>3. QED
        BY <4>2
    <3>4. party[a] # NoParty => /\ party[a] \notin deleted'
                                /\ D[party[a]] = {}
                                /\ ~Full(party[a])
      <4>1. SUFFICES ASSUME party[a] # NoParty
                     PROVE  /\ party[a] \notin deleted'
                            /\ D[party[a]] = {}
                            /\ ~Full(party[a])
        OBVIOUS
      <4>2. party[a] \in Alive /\ party[a] \in Parties /\ party[a] # p
        BY <1>1, <2>0, <2>2, <3>1, <4>1, Numbers DEF Usable
      <4>3. QED
        BY <1>6, <3>3, <4>1, <4>2 DEF Alive
    <3>5. QED
      BY <1>1, <1>4, <1>6, <2>0, <3>3, <3>4, Joined
  <2>3. QED
    BY <2>1, <2>2
<1>7. QED
  BY <1>2, <1>3, <1>5, <1>6

LEMMA ClientDetachInv ==
  ASSUME IInv, NEW c \in Chars, ClientDetach(c)
  PROVE  IInv'
<1>1. Usable(c) /\ made' = made /\ Client
  <2>1. client' = [client EXCEPT ![c] = FALSE]
    BY DEF ClientDetach
  <2>2. Client
    BY <2>1 DEF IInv, TypeOK, Client
  <2>3. QED
    BY <2>2 DEF ClientDetach
<1>2. CASE party[c] # NoParty /\ IsMaster(c, party[c])
  <2>1. PICK r \in Disband(party[c]) :
           LET left == From(party[c], r.gone)
           IN  /\ list' = Lists(left)
               /\ party' = [Pointers(left) EXCEPT ![c] = NoParty]
               /\ invited' = Invitations(Loose(left))
               /\ Apply(r, party[c])
    BY <1>2 DEF ClientDetach
  <2>2. PICK p \in Alive : p = party[c] /\ In(c, p)
    BY <1>1, <1>2, Member
  <2>3. PICK D : D = From(p, r.gone)
    OBVIOUS
  <2>4. QED
    BY <1>1, <2>1, <2>2, <2>3, Forgets
<1>3. CASE ~(party[c] # NoParty /\ IsMaster(c, party[c]))
  <2>1. UNCHANGED <<made, deleted, list, party, refused>>
        /\ invited' = invited
    BY <1>3 DEF ClientDetach
  <2>2. invited' \in [Chars -> Chars \cup {NoOne}]
    BY <2>1 DEF IInv, TypeOK
  <2>3. QED
    BY <1>1, <2>1, <2>2, Quiet
<1>4. QED
  BY <1>2, <1>3

LEMMA SetDisconnectedInv ==
  ASSUME IInv, NEW c \in Chars, SetDisconnected(c)
  PROVE  IInv'
<1>1. Usable(c) /\ party[c] # NoParty /\ made' = made /\ Client
  BY ClientKept DEF SetDisconnected
<1>2. PICK r \in RemoveMember(c, party[c]) :
         LET left == From(party[c], r.gone)
         IN  /\ list' = Lists(left)
             /\ party' = [Pointers(left) EXCEPT ![c] = NoParty]
             /\ invited' = Invitations(Loose(left))
             /\ Apply(r, party[c])
  BY DEF SetDisconnected
<1>3. PICK p \in Alive : p = party[c] /\ In(c, p)
  BY <1>1, Member
<1>4. PICK D : D = From(p, r.gone)
  OBVIOUS
<1>5. QED
  BY <1>1, <1>2, <1>3, <1>4, Forgets

LEMMA ClientAttachInv ==
  ASSUME IInv, NEW c \in Chars, ClientAttach(c)
  PROVE  IInv'
<1>1. /\ Usable(c) /\ Client /\ TypeOK /\ Once(list)
      /\ made' = made /\ deleted' = deleted /\ refused' = refused
  <2>1. client' = [client EXCEPT ![c] = TRUE]
    BY DEF ClientAttach
  <2>2. Client
    BY <2>1 DEF IInv, TypeOK, Client
  <2>3. QED
    BY <2>2 DEF ClientAttach, IInv
<1>2. CASE party[c] = NoParty
  <2>1. list' = list /\ party' = party /\ invited' = invited
    BY <1>2 DEF ClientAttach
  <2>2. invited' \in [Chars -> Chars \cup {NoOne}]
    BY <2>1 DEF IInv, TypeOK
  <2>3. QED
    BY <1>1, <2>1, <2>2, Quiet
<1>3. CASE party[c] # NoParty
  <2>1. PICK p \in Alive : p = party[c]
    BY <1>1, <1>3, Member
  <2>2. PICK D : D = From(p, Strays(p, party))
    OBVIOUS
  <2>3. /\ D \in Detachments
        /\ Points(Lists(D), Pointers(D), Alive)
        /\ refused = 0 => Agree(Lists(D), Pointers(D), Alive)
    BY <2>2, MendDoes
  <2>4. PICK G : G = Loose(D)
    OBVIOUS
  <2>5. list' = Lists(D) /\ party' = Pointers(D) /\ invited' = Invitations(G)
    BY <1>3, <2>1, <2>2, <2>4 DEF ClientAttach, Detach
  <2>6. PICK ps : ps = Alive \ deleted'
    OBVIOUS
  <2>7. /\ ps = Alive
        /\ deleted' \subseteq 1..made /\ deleted \subseteq deleted'
        /\ refused' \in 0..MaxRefusals
    BY <1>1, <2>6 DEF Alive, TypeOK
  <2>8. QED
    BY <1>1, <2>3, <2>5, <2>6, <2>7, Moves
<1>4. QED
  BY <1>2, <1>3

LEMMA InvNext == IInv /\ [Next]_vars => IInv'
<1> SUFFICES ASSUME IInv, [Next]_vars PROVE IInv'
  OBVIOUS
<1>1. ASSUME NEW a \in Chars, NEW b \in Chars,
             Invite(a, b) \/ Decline(b, a) \/ Accept(b, a) \/ ForceAccept(b, a)
      PROVE  IInv'
  <2>1. CASE Invite(a, b) \/ Decline(b, a)
    BY <2>1, InviteInv
  <2>2. CASE Accept(b, a)
    BY <2>2, AcceptEventInv DEF Accept
  <2>3. CASE ForceAccept(b, a)
    BY <2>3, ForceAcceptInv
  <2>4. QED
    BY <1>1, <2>1, <2>2, <2>3
<1>2. ASSUME NEW c \in Chars, NEW p \in Parties,
             Remove(c, p) \/ SetMaster(c, p) \/ AddMember(c, p)
      PROVE  IInv'
  BY <1>2, RemoveInv, SetMasterInv, AddMemberInv
<1>3. ASSUME NEW p \in Parties, DisbandParty(p) PROVE IInv'
  BY <1>3, DisbandPartyInv
<1>4. ASSUME NEW c \in Chars,
             ClientDetach(c) \/ SetDisconnected(c) \/ ClientAttach(c)
      PROVE  IInv'
  BY <1>4, ClientDetachInv, SetDisconnectedInv, ClientAttachInv
<1>5. CASE UNCHANGED vars
  BY <1>5, StutterInv
<1>6. QED
  BY <1>1, <1>2, <1>3, <1>4, <1>5 DEF Next

LEMMA Invariance == Spec => []IInv
BY InitInv, InvNext, PTL DEF Spec

-----------------------------------------------------------------------------
(* What a reader should know of *)

\* Whoever plays, and however many parties there are: every list is one of
\* characters, nobody points to a party that was never made, and none is
\* deleted that was not made.
THEOREM TypeCorrect == Spec => []TypeOK
<1>1. IInv => TypeOK
  BY DEF IInv
<1>2. QED
  BY <1>1, Invariance, PTL

\* CParty.cpp keeps m_Chars and m_pParty in step: who points to a party is
\* listed there, nobody is listed twice, whatever scripts refuse; and as long
\* as they let everybody go, whom a party lists points to it, so that nobody is
\* in two.
THEOREM ListsAndPointersAgree == Spec => []MembersAgree
<1>1. IInv => MembersAgree
  <2> SUFFICES ASSUME IInv, NEW p \in Alive
               PROVE  /\ \A c \in Chars : party[c] = p => In(c, p)
                      /\ NoTwice(list[p])
                      /\ refused = 0 =>
                            \A c \in Chars : In(c, p) => party[c] = p
    BY DEF MembersAgree, NoTwice
  <2>1. p \in Parties
    BY Numbers DEF IInv
  <2>2. \A c \in Chars : party[c] = p => In(c, p)
    BY DEF IInv, Points, Has, In
  <2>3. NoTwice(list[p])
    BY <2>1 DEF IInv, Once
  <2>4. refused = 0 => \A c \in Chars : In(c, p) => party[c] = p
    BY DEF IInv, Agree, Has, In
  <2>5. QED
    BY <2>2, <2>3, <2>4
<1>2. QED
  BY <1>1, Invariance, PTL

\* As long as scripts let everybody go, a party that is not deleted has two
\* members or more, and never more than MAX_CHAR_IN_PARTY: RemoveMember() and
\* Disband() leave no party of one behind, and AcceptEvent() overfills none.
THEOREM NeverOneOrTooMany == Spec => []NeverAlone
<1>1. IInv => NeverAlone
  BY DEF IInv, Agree, NeverAlone
<1>2. QED
  BY <1>1, Invariance, PTL

-----------------------------------------------------------------------------
(* Functions called later: the invariant *)

\* How often OnTick() still comes to an entry before it finds it due, and in how
\* many ticks it comes to the entry at i of the list s for the first time.
Rounds(e) == IF e.elapsed = 0 THEN 0 ELSE e.elapsed - 1
Turn(s, i) ==
    IF s > curTick THEN s - curTick
    ELSE IF s < curTick THEN s - curTick + TicksPerSec
    ELSE IF pc = "idle" \/ i < it THEN TicksPerSec ELSE 0

\* An entry that OnTick() comes to in n ticks is called no sooner than it was
\* asked for, and not later if it was not delayed; it does not run now, and
\* nobody has stopped it.
OnCourse(e, n, late) ==
    /\ e.wait <= n + TicksPerSec * Rounds(e)
    /\ e.ask \notin late => e.wait = n + TicksPerSec * Rounds(e)
Fresh(ask, n, gone, now) == ask <= n /\ ask \notin gone /\ ask # now

WaitingInLists ==
    \A s \in Slots : \A i \in DOMAIN timedFunctions[s] :
        /\ OnCourse(timedFunctions[s][i], Turn(s, i), delayed)
        /\ Fresh(timedFunctions[s][i].ask, asked, stopped, running.ask)

\* Between two ticks nothing is in the queue but what a tick has left there
\* that was given up.
WaitingInQueue ==
    \A i \in DOMAIN queuedToBeAdded :
        /\ OnCourse(queuedToBeAdded[i], TicksPerSec, delayed)
        /\ Fresh(queuedToBeAdded[i].ask, asked, stopped, running.ask)
        /\ pc = "idle" => queuedToBeAdded[i].ask \in delayed

\* No number is in two places.
ListsApart ==
    \A s, t \in Slots :
        \A i \in DOMAIN timedFunctions[s], j \in DOMAIN timedFunctions[t] :
            timedFunctions[s][i].ask = timedFunctions[t][j].ask
                => s = t /\ i = j
QueueApart ==
    \A i, j \in DOMAIN queuedToBeAdded :
        queuedToBeAdded[i].ask = queuedToBeAdded[j].ask => i = j
ListsAndQueueApart ==
    \A s \in Slots : \A i \in DOMAIN timedFunctions[s] :
        \A j \in DOMAIN queuedToBeAdded :
            timedFunctions[s][i].ask # queuedToBeAdded[j].ask
Apart == ListsApart /\ QueueApart /\ ListsAndQueueApart

TickControl ==
    /\ pc = "idle" => it = 1 /\ ~theEnd
    /\ pc # "idle" => isBeingProcessed
    /\ theEnd => List = <<>>

RunsInTime ==
    pc = "run" =>
        /\ running.ask <= asked /\ running.ask \notin stopped
        /\ running.wait <= 0
        /\ running.ask \notin delayed => running.wait = 0

TimedInv ==
    /\ TimedTypeOK /\ TickControl
    /\ WaitingInLists /\ WaitingInQueue /\ Apart
    /\ RunsInTime

-----------------------------------------------------------------------------
LEMMA TickNumbers ==
  /\ TicksPerSec \in Nat \ {0} /\ MaxAsks \in Nat /\ MaxFaults \in Nat
  /\ Seconds \subseteq Nat
  /\ Slots = 0..TicksPerSec - 1 /\ Asks = 1..MaxAsks
  BY TicksAssumption, SecondsAssumption, AsksAssumption DEF Slots, Asks

\* One more round is a second.
LEMMA OneRound ==
  ASSUME NEW k \in Nat
  PROVE  /\ TicksPerSec * k \in Nat
         /\ TicksPerSec * (k + 1) = TicksPerSec * k + TicksPerSec
  BY TickNumbers

LEMMA RoundsDo ==
  ASSUME NEW e \in Entry
  PROVE  /\ Rounds(e) \in Nat /\ TicksPerSec * Rounds(e) \in Nat
         /\ e.elapsed - 1 <= 0 => TicksPerSec * Rounds(e) = 0
<1>1. Rounds(e) \in Nat
  BY DEF Rounds, Entry
<1>2. e.elapsed - 1 <= 0 => Rounds(e) = 0
  BY DEF Rounds, Entry
<1>3. TicksPerSec * 0 = 0
  BY TickNumbers
<1>4. QED
  BY <1>1, <1>2, <1>3, OneRound

LEMMA TurnDoes ==
  ASSUME TimedTypeOK, NEW s \in Slots, NEW i \in Nat
  PROVE  Turn(s, i) \in Nat
  BY TickNumbers DEF TimedTypeOK, Turn, Slots

\* An entry of a list
LEMMA EntryIn ==
  ASSUME TimedTypeOK, NEW s \in Slots, NEW i \in DOMAIN timedFunctions[s]
  PROVE  timedFunctions[s] \in Seq(Entry) /\ i \in Nat \ {0}
         /\ timedFunctions[s][i] \in Entry
         /\ timedFunctions[s][i].ask \in Nat
         /\ timedFunctions[s][i].wait \in Int
<1>1. timedFunctions[s] \in Seq(Entry)
  BY DEF TimedTypeOK
<1>2. timedFunctions[s][i] \in Entry /\ i \in Nat \ {0}
  BY <1>1
<1>3. QED
  BY <1>1, <1>2, TickNumbers DEF Entry

LEMMA QueuedIn ==
  ASSUME TimedTypeOK, NEW i \in DOMAIN queuedToBeAdded
  PROVE  queuedToBeAdded[i] \in Entry /\ i \in Nat \ {0}
         /\ queuedToBeAdded[i].ask \in Nat /\ queuedToBeAdded[i].wait \in Int
<1>1. queuedToBeAdded \in Seq(Entry)
  BY DEF TimedTypeOK
<1>2. queuedToBeAdded[i] \in Entry /\ i \in Nat \ {0}
  BY <1>1
<1>3. QED
  BY <1>1, <1>2, TickNumbers DEF Entry

\* There are no more entries in a list than were asked for.
LEMMA ListShort ==
  ASSUME TimedTypeOK, ListsApart, NEW s \in Slots
  PROVE  Len(timedFunctions[s]) \in 0..MaxAsks
<1> DEFINE L == timedFunctions[s]
<1>1. L \in Seq(Entry) /\ Len(L) \in Nat /\ DOMAIN L = 1..Len(L)
  BY DEF TimedTypeOK
<1>2. SUFFICES ASSUME Len(L) > MaxAsks PROVE FALSE
  BY <1>1, TickNumbers
<1> DEFINE f == [i \in 1..Len(L) |-> L[i].ask]
<1>3. f \in [1..Len(L) -> 1..MaxAsks]
  <2>1. \A i \in 1..Len(L) : L[i] \in Entry
    BY <1>1
  <2>2. \A i \in 1..Len(L) : L[i].ask \in 1..MaxAsks
    BY <2>1, TickNumbers DEF Entry
  <2>3. QED
    BY <2>2
<1>4. /\ IsFiniteSet(1..Len(L)) /\ Cardinality(1..Len(L)) = Len(L)
      /\ IsFiniteSet(1..MaxAsks) /\ Cardinality(1..MaxAsks) = MaxAsks
  <2>1. MaxAsks \in Int /\ Len(L) \in Int /\ 1 \in Int
    BY <1>1, TickNumbers
  <2>2. /\ IsFiniteSet(1..Len(L))
        /\ Cardinality(1..Len(L)) = IF 1 > Len(L) THEN 0 ELSE Len(L) - 1 + 1
    BY <2>1, FS_Interval
  <2>3. /\ IsFiniteSet(1..MaxAsks)
        /\ Cardinality(1..MaxAsks) = IF 1 > MaxAsks THEN 0
                                     ELSE MaxAsks - 1 + 1
    BY <2>1, FS_Interval
  <2>4. QED
    BY <1>1, <2>2, <2>3, TickNumbers
<1>5. PICK i, j \in 1..Len(L) : i # j /\ f[i] = f[j]
  <2> HIDE DEF f
  <2>1. Cardinality(1..MaxAsks) < Cardinality(1..Len(L))
    BY <1>1, <1>2, <1>4, TickNumbers
  <2>2. QED
    BY <1>3, <1>4, <2>1, FS_PigeonHole
<1>6. QED
  BY <1>1, <1>5 DEF ListsApart

LEMMA InitTimed == TimedInit => TimedInv
<1> SUFFICES ASSUME TimedInit PROVE TimedInv
  OBVIOUS
<1> USE DEF TimedInit
<1>1. TimedTypeOK
  <2>1. <<>> \in Seq(Entry)
    OBVIOUS
  <2>2. timedFunctions \in [Slots -> Seq(Entry)]
    BY <2>1
  <2>3. QED
    BY <2>1, <2>2, TickNumbers DEF TimedTypeOK
<1>2. \A s \in Slots : DOMAIN timedFunctions[s] = {}
  OBVIOUS
<1>3. DOMAIN queuedToBeAdded = {}
  OBVIOUS
<1>4. TickControl
  BY DEF TickControl
<1>5. QED
  BY <1>1, <1>2, <1>3, <1>4
     DEF TimedInv, WaitingInLists, WaitingInQueue, Apart, ListsApart,
         QueueApart, ListsAndQueueApart, RunsInTime

-----------------------------------------------------------------------------
(* The steps of OnTick() *)

\* Time passes for what waits.
LEMMA LessWait ==
  ASSUME NEW e \in Entry, NEW d, d = [e EXCEPT !.wait = @ - 1]
  PROVE  /\ d \in Entry /\ d.ask = e.ask /\ d.elapsed = e.elapsed
         /\ d.wait = e.wait - 1
  BY DEF Entry

LEMMA WaitedDoes ==
  ASSUME NEW s \in Seq(Entry)
  PROVE  /\ Waited(s) \in Seq(Entry) /\ DOMAIN Waited(s) = DOMAIN s
         /\ \A i \in DOMAIN s :
               /\ Waited(s)[i].ask = s[i].ask
               /\ Waited(s)[i].elapsed = s[i].elapsed
               /\ Waited(s)[i].wait = s[i].wait - 1
               /\ Rounds(Waited(s)[i]) = Rounds(s[i])
<1>1. DOMAIN Waited(s) = 1..Len(s) /\ Len(s) \in Nat
  BY DEF Waited
<1>2. ASSUME NEW i \in 1..Len(s)
      PROVE  /\ Waited(s)[i] \in Entry
             /\ Waited(s)[i].ask = s[i].ask
             /\ Waited(s)[i].elapsed = s[i].elapsed
             /\ Waited(s)[i].wait = s[i].wait - 1
  <2>1. s[i] \in Entry
    OBVIOUS
  <2>2. Waited(s)[i] = [s[i] EXCEPT !.wait = @ - 1]
    BY DEF Waited
  <2>3. QED
    BY <2>1, <2>2, LessWait
<1>3. Waited(s) \in Seq(Entry)
  BY <1>1, <1>2 DEF Waited
<1>4. QED
  BY <1>1, <1>2, <1>3 DEF Rounds

LEMMA BeginTickInv == TimedInv /\ BeginTick => TimedInv'
<1> SUFFICES ASSUME TimedInv, BeginTick PROVE TimedInv'
  OBVIOUS
<1> USE DEF BeginTick
<1>0. /\ TimedTypeOK /\ TickControl /\ WaitingInLists /\ WaitingInQueue
      /\ Apart /\ RunsInTime
  BY DEF TimedInv
<1>1. curTick \in Slots /\ curTick' \in Slots /\ it = 1 /\ it' = 1 /\ ~theEnd
  BY <1>0, TickNumbers DEF TimedTypeOK, TickControl
<1>2. ASSUME NEW s \in Slots
      PROVE  /\ timedFunctions[s] \in Seq(Entry)
             /\ timedFunctions'[s] = Waited(timedFunctions[s])
  BY <1>0 DEF TimedTypeOK
<1>3. ASSUME NEW s \in Slots
      PROVE  /\ timedFunctions'[s] \in Seq(Entry)
             /\ DOMAIN timedFunctions'[s] = DOMAIN timedFunctions[s]
             /\ \A i \in DOMAIN timedFunctions[s] :
                  /\ timedFunctions'[s][i].ask = timedFunctions[s][i].ask
                  /\ timedFunctions'[s][i].wait
                       = timedFunctions[s][i].wait - 1
                  /\ Rounds(timedFunctions'[s][i])
                       = Rounds(timedFunctions[s][i])
  BY <1>2, WaitedDoes
<1>4. /\ queuedToBeAdded' \in Seq(Entry)
      /\ DOMAIN queuedToBeAdded' = DOMAIN queuedToBeAdded
      /\ \A i \in DOMAIN queuedToBeAdded :
            /\ queuedToBeAdded'[i].ask = queuedToBeAdded[i].ask
            /\ queuedToBeAdded'[i].wait = queuedToBeAdded[i].wait - 1
            /\ Rounds(queuedToBeAdded'[i]) = Rounds(queuedToBeAdded[i])
  <2>1. queuedToBeAdded \in Seq(Entry)
    BY <1>0 DEF TimedTypeOK
  <2>2. QED
    BY <2>1, WaitedDoes
<1>5. TimedTypeOK'
  <2>1. timedFunctions' \in [Slots -> Seq(Entry)]
    BY <1>3
  <2>2. QED
    BY <1>0, <1>1, <1>4, <2>1 DEF TimedTypeOK, ghostVars
<1>6. TickControl'
  BY <1>1 DEF TickControl
<1>7. ASSUME NEW s \in Slots, NEW i \in Nat \ {0}
      PROVE  Turn(s, i)' = Turn(s, i) - 1
  BY <1>1, TickNumbers DEF Turn
<1>8. WaitingInLists'
  <2>1. SUFFICES ASSUME NEW s \in Slots, NEW i \in DOMAIN timedFunctions[s]
                 PROVE  /\ OnCourse(timedFunctions'[s][i], Turn(s, i)',
                                    delayed)
                        /\ Fresh(timedFunctions'[s][i].ask, asked, stopped,
                                 running.ask)
    BY <1>3 DEF WaitingInLists, ghostVars
  <2> DEFINE e == timedFunctions[s][i]
             d == timedFunctions'[s][i]
  <2>2. e \in Entry /\ i \in Nat \ {0} /\ e.ask \in Nat /\ e.wait \in Int
    BY <1>0, EntryIn
  <2>3. OnCourse(e, Turn(s, i), delayed) 
        /\ Fresh(e.ask, asked, stopped, running.ask)
    BY <1>0 DEF WaitingInLists
  <2>4. d.ask = e.ask /\ d.wait = e.wait - 1 /\ Rounds(d) = Rounds(e)
    BY <1>3
  <2> HIDE DEF e, d
  <2>5. TicksPerSec * Rounds(e) \in Nat /\ Turn(s, i) \in Nat
    BY <1>0, <2>2, RoundsDo, TurnDoes
  <2>6. OnCourse(d, Turn(s, i) - 1, delayed)
    BY <2>2, <2>3, <2>4, <2>5 DEF OnCourse
  <2>7. Fresh(d.ask, asked, stopped, running.ask)
    BY <2>3, <2>4
  <2>8. QED
    BY <1>7, <2>2, <2>6, <2>7 DEF d
<1>9. WaitingInQueue'
  <2>1. SUFFICES ASSUME NEW i \in DOMAIN queuedToBeAdded
                 PROVE  /\ OnCourse(queuedToBeAdded'[i], TicksPerSec, delayed)
                        /\ Fresh(queuedToBeAdded'[i].ask, asked, stopped,
                                 running.ask)
    BY <1>4 DEF WaitingInQueue, ghostVars
  <2> DEFINE e == queuedToBeAdded[i]
             d == queuedToBeAdded'[i]
  <2>2. e \in Entry /\ e.ask \in Nat /\ e.wait \in Int
    BY <1>0, QueuedIn
  <2>3. OnCourse(e, TicksPerSec, delayed) 
        /\ Fresh(e.ask, asked, stopped, running.ask) /\ e.ask \in delayed
    BY <1>0 DEF WaitingInQueue
  <2>4. d.ask = e.ask /\ d.wait = e.wait - 1 /\ Rounds(d) = Rounds(e)
    BY <1>4
  <2> HIDE DEF e, d
  <2>5. TicksPerSec * Rounds(e) \in Nat
    BY <2>2, RoundsDo
  <2>6. OnCourse(d, TicksPerSec, delayed)
    BY <2>2, <2>3, <2>4, <2>5, TickNumbers DEF OnCourse
  <2>7. Fresh(d.ask, asked, stopped, running.ask)
    BY <2>3, <2>4
  <2>8. QED
    BY <2>6, <2>7 DEF d
<1>10. Apart'
  BY <1>0, <1>3, <1>4
     DEF Apart, ListsApart, QueueApart, ListsAndQueueApart
<1>11. RunsInTime'
  BY DEF RunsInTime
<1>12. QED
  BY <1>5, <1>6, <1>8, <1>9, <1>10, <1>11 DEF TimedInv

\* Steps that leave the lists alone
LEMMA QuietInv ==
  ASSUME TimedInv, UNCHANGED listVars,
         UNCHANGED <<curTick, it, asked, stopped, delayed>>,
         pc' = "idle" <=> pc = "idle",
         running' \in {running, NoEntry}
  PROVE  WaitingInLists' /\ WaitingInQueue' /\ Apart'
<1>0. /\ TimedTypeOK /\ WaitingInLists /\ WaitingInQueue /\ Apart
  BY DEF TimedInv
<1>1. timedFunctions' = timedFunctions /\ queuedToBeAdded' = queuedToBeAdded
  BY DEF listVars
<1>2. ASSUME NEW n \in Asks, Fresh(n, asked, stopped, running.ask)
      PROVE  Fresh(n, asked', stopped', running'.ask)
  BY <1>2, TickNumbers DEF Fresh, NoEntry
<1>3. WaitingInLists'
  <2>1. ASSUME NEW s \in Slots, NEW i \in DOMAIN timedFunctions[s]
        PROVE  /\ OnCourse(timedFunctions[s][i], Turn(s, i)', delayed)
               /\ Fresh(timedFunctions[s][i].ask, asked', stopped',
                        running'.ask)
    <3>1. timedFunctions[s][i].ask \in Asks
      BY <1>0, EntryIn DEF Entry
    <3>2. Turn(s, i)' = Turn(s, i)
      BY DEF Turn
    <3>3. QED
      BY <1>0, <1>2, <3>1, <3>2 DEF WaitingInLists
  <2>2. QED
    BY <1>1, <2>1 DEF WaitingInLists
<1>4. WaitingInQueue'
  <2>1. ASSUME NEW i \in DOMAIN queuedToBeAdded
        PROVE  Fresh(queuedToBeAdded[i].ask, asked', stopped', running'.ask)
    <3>1. queuedToBeAdded[i].ask \in Asks
      BY <1>0, QueuedIn DEF Entry
    <3>2. QED
      BY <1>0, <1>2, <3>1 DEF WaitingInQueue
  <2>2. QED
    BY <1>0, <1>1, <2>1 DEF WaitingInQueue
<1>5. Apart'
  BY <1>0, <1>1 DEF Apart, ListsApart, QueueApart, ListsAndQueueApart
<1>6. QED
  BY <1>3, <1>4, <1>5

LEMMA ReturnInv == TimedInv /\ Return => TimedInv'
<1> SUFFICES ASSUME TimedInv, Return PROVE TimedInv'
  OBVIOUS
<1> USE DEF Return
<1>1. WaitingInLists' /\ WaitingInQueue' /\ Apart'
  BY QuietInv DEF ghostVars
<1>2. TimedTypeOK'
  BY DEF TimedInv, TimedTypeOK, listVars, ghostVars
<1>3. TickControl' /\ RunsInTime'
  BY DEF TimedInv, TickControl, RunsInTime, List, listVars
<1>4. QED
  BY <1>1, <1>2, <1>3 DEF TimedInv

LEMMA OverrunInv == TimedInv /\ Overrun => TimedInv'
<1> SUFFICES ASSUME TimedInv, Overrun PROVE TimedInv'
  OBVIOUS
<1> USE DEF Overrun
<1>1. WaitingInLists' /\ WaitingInQueue' /\ Apart'
  BY QuietInv DEF ghostVars
<1>2. TimedTypeOK'
  BY DEF TimedInv, TimedTypeOK, listVars, ghostVars
<1>3. TickControl' /\ RunsInTime'
  BY DEF TimedInv, TickControl, RunsInTime, List, listVars
<1>4. QED
  BY <1>1, <1>2, <1>3 DEF TimedInv

LEMMA CreateInv ==
  ASSUME TimedInv, NEW u \in Uids, Create(u)
  PROVE  TimedInv'
<1> USE DEF Create
<1>1. WaitingInLists' /\ WaitingInQueue' /\ Apart'
  BY QuietInv DEF tickVars, ghostVars
<1>2. TimedTypeOK'
  BY DEF TimedInv, TimedTypeOK, listVars, tickVars, ghostVars
<1>3. TickControl' /\ RunsInTime'
  BY DEF TimedInv, TickControl, RunsInTime, List, listVars, tickVars, ghostVars
<1>4. QED
  BY <1>1, <1>2, <1>3 DEF TimedInv

LEMMA DeleteAllInv == TimedInv /\ DeleteAll => TimedInv'
<1> SUFFICES ASSUME TimedInv, DeleteAll PROVE TimedInv'
  OBVIOUS
<1> USE DEF DeleteAll
<1>1. WaitingInLists' /\ WaitingInQueue' /\ Apart'
  BY QuietInv DEF tickVars, ghostVars
<1>2. TimedTypeOK'
  BY DEF TimedInv, TimedTypeOK, listVars, tickVars, ghostVars
<1>3. TickControl' /\ RunsInTime'
  BY DEF TimedInv, TickControl, RunsInTime, List, listVars, tickVars, ghostVars
<1>4. QED
  BY <1>1, <1>2, <1>3 DEF TimedInv

LEMMA LessElapsed ==
  ASSUME NEW e \in Entry, e.elapsed - 1 > 0,
         NEW d, d = [e EXCEPT !.elapsed = @ - 1]
  PROVE  /\ d \in Entry /\ d.ask = e.ask /\ d.wait = e.wait
         /\ Rounds(d) \in Nat /\ Rounds(e) = Rounds(d) + 1
<1>1. e.elapsed \in Nat /\ d.elapsed = e.elapsed - 1
  BY DEF Entry
<1>2. d \in Entry /\ d.ask = e.ask /\ d.wait = e.wait
  BY DEF Entry
<1>3. Rounds(d) \in Nat /\ Rounds(e) = Rounds(d) + 1
  BY <1>1 DEF Rounds
<1>4. QED
  BY <1>2, <1>3

LEMMA CountDownInv == TimedInv /\ CountDown => TimedInv'
<1> SUFFICES ASSUME TimedInv, CountDown PROVE TimedInv'
  OBVIOUS
<1> USE DEF CountDown
<1>0. /\ TimedTypeOK /\ TickControl /\ WaitingInLists /\ WaitingInQueue
      /\ Apart /\ RunsInTime
  BY DEF TimedInv
<1> DEFINE e == timedFunctions[curTick][it]
           d == [e EXCEPT !.elapsed = @ - 1]
<1>1. /\ curTick \in Slots /\ it \in DOMAIN timedFunctions[curTick]
      /\ timedFunctions[curTick] \in Seq(Entry) /\ e \in Entry
      /\ e.elapsed - 1 > 0 /\ it \in Nat \ {0} /\ pc = "loop" /\ pc' = pc
      /\ curTick' = curTick /\ it' = it + 1
      /\ e.ask \in Nat /\ e.wait \in Int
  BY <1>0, EntryIn DEF TimedTypeOK, List
<1>2. /\ d \in Entry /\ d.ask = e.ask /\ d.wait = e.wait
      /\ Rounds(d) \in Nat /\ Rounds(e) = Rounds(d) + 1
  BY <1>1, LessElapsed
<1>3. /\ DOMAIN timedFunctions' = Slots
      /\ \A s \in Slots : s # curTick => timedFunctions'[s] = timedFunctions[s]
      /\ timedFunctions'[curTick] = [timedFunctions[curTick] EXCEPT ![it] = d]
  BY <1>0, <1>1 DEF TimedTypeOK
<1>4. /\ timedFunctions'[curTick] \in Seq(Entry)
      /\ DOMAIN timedFunctions'[curTick] = DOMAIN timedFunctions[curTick]
      /\ timedFunctions'[curTick][it] = d
      /\ \A i \in DOMAIN timedFunctions[curTick] :
            i # it => timedFunctions'[curTick][i] = timedFunctions[curTick][i]
  <2> HIDE DEF d
  <2>1. QED
    BY <1>1, <1>2, <1>3
<1>5. ASSUME NEW s \in Slots
      PROVE  /\ timedFunctions'[s] \in Seq(Entry)
             /\ DOMAIN timedFunctions'[s] = DOMAIN timedFunctions[s]
             /\ \A i \in DOMAIN timedFunctions[s] :
                  /\ timedFunctions'[s][i].ask = timedFunctions[s][i].ask
                  /\ (s # curTick \/ i # it) =>
                        timedFunctions'[s][i] = timedFunctions[s][i]
  <2> HIDE DEF d, e
  <2>1. CASE s # curTick
    BY <1>0, <1>3, <2>1 DEF TimedTypeOK
  <2>2. CASE s = curTick
    BY <1>1, <1>2, <1>4, <2>2 DEF e
  <2>3. QED
    BY <2>1, <2>2
<1>6. TimedTypeOK'
  <2>1. timedFunctions' \in [Slots -> Seq(Entry)]
    <3>1. timedFunctions' = [s \in Slots |-> timedFunctions'[s]]
      BY <1>0 DEF TimedTypeOK
    <3>2. QED
      BY <1>5, <3>1
  <2>2. it' \in 1..MaxAsks + 1
    <3>1. Len(timedFunctions[curTick]) \in 0..MaxAsks
      BY <1>0, <1>1, ListShort DEF Apart
    <3>2. it \in 1..Len(timedFunctions[curTick])
      BY <1>1
    <3>3. QED
      BY <1>1, <3>1, <3>2, TickNumbers
  <2>3. QED
    BY <1>0, <2>1, <2>2 DEF TimedTypeOK, ghostVars
<1>7. TickControl'
  BY <1>0, <1>1, <1>4 DEF TickControl, List
<1>8. WaitingInLists'
  <2>1. SUFFICES ASSUME NEW s \in Slots, NEW i \in DOMAIN timedFunctions[s]
                 PROVE  /\ OnCourse(timedFunctions'[s][i], Turn(s, i)',
                                    delayed)
                        /\ Fresh(timedFunctions'[s][i].ask, asked, stopped,
                                 running.ask)
    BY <1>5 DEF WaitingInLists, ghostVars
  <2>2. /\ OnCourse(timedFunctions[s][i], Turn(s, i), delayed)
        /\ Fresh(timedFunctions[s][i].ask, asked, stopped, running.ask)
    BY <1>0 DEF WaitingInLists
  <2>3. Fresh(timedFunctions'[s][i].ask, asked, stopped, running.ask)
    BY <1>5, <2>2
  <2>4. i \in Nat \ {0}
    BY <1>0, EntryIn
  <2>5. CASE s # curTick \/ i # it
    <3>1. Turn(s, i)' = Turn(s, i)
      BY <1>1, <2>4, <2>5, TickNumbers DEF Turn, Slots
    <3>2. QED
      BY <1>5, <2>2, <2>3, <2>5, <3>1
  <2>6. CASE s = curTick /\ i = it
    <3>1. Turn(s, i) = 0 /\ Turn(s, i)' = TicksPerSec
      BY <1>1, <2>4, <2>6, TickNumbers DEF Turn, Slots
    <3>2. timedFunctions[s][i] = e /\ timedFunctions'[s][i] = d
      BY <1>4, <2>6
    <3>3. /\ TicksPerSec * Rounds(d) \in Nat
          /\ TicksPerSec * (Rounds(d) + 1)
                = TicksPerSec * Rounds(d) + TicksPerSec
      BY <1>2, OneRound
    <3> HIDE DEF e, d
    <3>4. OnCourse(d, TicksPerSec, delayed)
      BY <1>1, <1>2, <2>2, <3>1, <3>2, <3>3, TickNumbers DEF OnCourse
    <3>5. QED
      BY <2>3, <3>1, <3>2, <3>4
  <2>7. QED
    BY <2>5, <2>6
<1>9. WaitingInQueue'
  BY <1>0 DEF WaitingInQueue, ghostVars
<1>10. Apart'
  BY <1>0, <1>5 DEF Apart, ListsApart, QueueApart, ListsAndQueueApart
<1>11. RunsInTime'
  BY <1>0, <1>1 DEF RunsInTime
<1>12. QED
  BY <1>6, <1>7, <1>8, <1>9, <1>10, <1>11 DEF TimedInv

LEMMA RemoveNthDoes ==
  ASSUME NEW S, NEW s \in Seq(S), NEW n \in DOMAIN s
  PROVE  /\ RemoveNth(s, n) \in Seq(S)
         /\ Len(RemoveNth(s, n)) = Len(s) - 1
         /\ \A i \in 1..Len(s) - 1 :
               /\ i < n => RemoveNth(s, n)[i] = s[i]
               /\ i >= n => RemoveNth(s, n)[i] = s[i + 1]
<1> DEFINE a == SubSeq(s, 1, n - 1)
           b == SubSeq(s, n + 1, Len(s))
<1>1. Len(s) \in Nat /\ n \in 1..Len(s)
  OBVIOUS
<1>2. /\ a \in Seq(S) /\ Len(a) = n - 1
      /\ \A i \in 1..n - 1 : a[i] = s[i]
  BY <1>1
<1>3. /\ b \in Seq(S) /\ Len(b) = Len(s) - n
      /\ \A i \in 1..Len(s) - n : b[i] = s[n + i]
  <2>1. b \in Seq(S)
    BY <1>1
  <2>2. Len(b) = Len(s) - n
    BY <1>1
  <2>3. ASSUME NEW i \in 1..Len(s) - n PROVE b[i] = s[n + i]
    BY <1>1, <2>3
  <2>4. QED
    BY <2>1, <2>2, <2>3
<1>4. RemoveNth(s, n) = a \o b
  BY DEF RemoveNth
<1> HIDE DEF a, b
<1>5. /\ a \o b \in Seq(S) /\ Len(a \o b) = Len(s) - 1
  BY <1>1, <1>2, <1>3
<1>6. ASSUME NEW i \in 1..Len(s) - 1
      PROVE  /\ i < n => (a \o b)[i] = s[i]
             /\ i >= n => (a \o b)[i] = s[i + 1]
  <2>1. CASE i < n
    BY <1>1, <1>2, <1>3, <2>1
  <2>2. CASE i >= n
    <3>1. /\ (a \o b)[i] = b[i - (n - 1)]
          /\ i - (n - 1) \in 1..Len(s) - n
          /\ n + (i - (n - 1)) = i + 1
      BY <1>1, <1>2, <1>3, <2>2
    <3>2. QED
      BY <1>1, <1>3, <2>2, <3>1
  <2>3. QED
    BY <1>1, <2>1, <2>2
<1>7. QED
  BY <1>4, <1>5, <1>6

LEMMA CallInv == TimedInv /\ Call => TimedInv'
<1> SUFFICES ASSUME TimedInv, Call PROVE TimedInv'
  OBVIOUS
<1> USE DEF Call
<1>0. /\ TimedTypeOK /\ TickControl /\ WaitingInLists /\ WaitingInQueue
      /\ Apart /\ RunsInTime
  BY DEF TimedInv
<1> DEFINE L == timedFunctions[curTick]
           e == L[it]
<1>1. /\ curTick \in Slots /\ it \in DOMAIN L /\ L \in Seq(Entry)
      /\ e \in Entry /\ e.elapsed - 1 <= 0 /\ it \in Nat \ {0}
      /\ pc = "loop" /\ running = NoEntry
      /\ e.ask \in Asks /\ e.ask \in Nat /\ e.wait \in Int
      /\ Len(L) \in Nat /\ it \in 1..Len(L)
      /\ L = List
  <2>1. curTick \in Slots /\ it \in DOMAIN L /\ L = List
    BY <1>0 DEF TimedTypeOK, List
  <2>2. e \in Entry /\ L \in Seq(Entry) /\ it \in Nat \ {0}
        /\ e.ask \in Nat /\ e.wait \in Int
    BY <1>0, <2>1, EntryIn
  <2>3. e.ask \in Asks
    BY <2>2 DEF Entry
  <2>4. running = NoEntry /\ pc = "loop"
    BY <1>0 DEF TimedTypeOK
  <2>5. e.elapsed - 1 <= 0
    BY <2>1
  <2>6. Len(L) \in Nat /\ it \in 1..Len(L)
    BY <2>1, <2>2
  <2>7. QED
    BY <2>1, <2>2, <2>3, <2>4, <2>5, <2>6
<1>2. \/ pc' = "run" /\ running' = e
      \/ pc' = "loop" /\ running' = NoEntry
  BY <1>1
<1>3. /\ DOMAIN timedFunctions' = Slots
      /\ \A s \in Slots : s # curTick => timedFunctions'[s] = timedFunctions[s]
      /\ timedFunctions'[curTick] = RemoveNth(L, it)
  BY <1>0, <1>1 DEF TimedTypeOK
<1> HIDE DEF L, e
<1>4. /\ timedFunctions'[curTick] \in Seq(Entry)
      /\ DOMAIN timedFunctions'[curTick] = 1..Len(L) - 1
      /\ \A i \in 1..Len(L) - 1 :
            /\ i < it => timedFunctions'[curTick][i] = L[i]
            /\ i >= it => timedFunctions'[curTick][i] = L[i + 1]
  BY <1>1, <1>3, RemoveNthDoes
\* Where the entry at i of the list s was
<1> DEFINE from(s, i) == IF s = curTick /\ i >= it THEN i + 1 ELSE i
<1>5. ASSUME NEW s \in Slots, NEW i \in DOMAIN timedFunctions'[s]
      PROVE  /\ from(s, i) \in DOMAIN timedFunctions[s]
             /\ timedFunctions'[s][i] = timedFunctions[s][from(s, i)]
             /\ s # curTick \/ from(s, i) # it
             /\ i \in Nat \ {0}
  <2>1. CASE s # curTick
    <3>1. timedFunctions[s] \in Seq(Entry)
      BY <1>0 DEF TimedTypeOK
    <3>2. QED
      BY <1>3, <2>1, <3>1
  <2>2. CASE s = curTick
    BY <1>1, <1>4, <2>2 DEF L
  <2>3. QED
    BY <2>1, <2>2
<1>6. ASSUME NEW s \in Slots, NEW t \in Slots, NEW i \in Nat, NEW j \in Nat,
             s = t, from(s, i) = from(t, j)
      PROVE  i = j
  BY <1>1, <1>6
<1>7. ASSUME NEW s \in Slots, NEW i \in DOMAIN timedFunctions'[s]
      PROVE  Turn(s, i)' = Turn(s, from(s, i))
  BY <1>1, <1>2, <1>5, TickNumbers DEF Turn, Slots
<1>8. OnCourse(e, 0, delayed) /\ Fresh(e.ask, asked, stopped, running.ask)
  <2>1. Turn(curTick, it) = 0
    BY <1>1, TickNumbers DEF Turn, Slots
  <2>2. QED
    BY <1>0, <1>1, <2>1 DEF WaitingInLists, e, L
<1>9. e.wait <= 0 /\ (e.ask \notin delayed => e.wait = 0)
  <2>1. TicksPerSec * Rounds(e) = 0
    BY <1>1, RoundsDo
  <2>2. QED
    BY <1>1, <1>8, <2>1 DEF OnCourse
<1>10. ASSUME NEW n \in Asks, n # e.ask,
              Fresh(n, asked, stopped, running.ask)
       PROVE  Fresh(n, asked, stopped, running'.ask)
  BY <1>2, <1>10, TickNumbers DEF Fresh, NoEntry
<1>11. TimedTypeOK'
  <2>1. timedFunctions' \in [Slots -> Seq(Entry)]
    <3>1. timedFunctions' = [s \in Slots |-> timedFunctions'[s]]
      BY <1>0 DEF TimedTypeOK
    <3>2. \A s \in Slots : timedFunctions'[s] \in Seq(Entry)
      BY <1>0, <1>3, <1>4 DEF TimedTypeOK
    <3>3. QED
      BY <3>1, <3>2
  <2>2. QED
    BY <1>0, <1>1, <1>2, <2>1 DEF TimedTypeOK, ghostVars
<1>12. TickControl'
  <2>1. theEnd' => Len(L) = 1
    BY <1>1
  <2>2. Len(L) = 1 => timedFunctions'[curTick] = <<>>
    <3>1. Len(timedFunctions'[curTick]) = Len(L) - 1
      BY <1>1, <1>3, RemoveNthDoes
    <3>2. QED
      BY <1>1, <1>4, <3>1
  <2>3. QED
    BY <1>0, <1>1, <1>2, <2>1, <2>2 DEF TickControl, List
<1>13. WaitingInLists'
  <2>1. SUFFICES ASSUME NEW s \in Slots, NEW i \in DOMAIN timedFunctions'[s]
                 PROVE  /\ OnCourse(timedFunctions'[s][i], Turn(s, i)',
                                    delayed)
                        /\ Fresh(timedFunctions'[s][i].ask, asked, stopped,
                                 running'.ask)
    BY DEF WaitingInLists, ghostVars
  <2> DEFINE k == from(s, i)
  <2>2. /\ k \in DOMAIN timedFunctions[s] /\ Turn(s, i)' = Turn(s, k)
        /\ timedFunctions'[s][i] = timedFunctions[s][k]
        /\ s # curTick \/ k # it
    BY <1>5, <1>7
  <2> HIDE DEF k, from
  <2>3. /\ OnCourse(timedFunctions[s][k], Turn(s, k), delayed)
        /\ Fresh(timedFunctions[s][k].ask, asked, stopped, running.ask)
    BY <1>0, <2>2 DEF WaitingInLists
  <2>4. timedFunctions[s][k].ask # e.ask
    BY <1>0, <1>1, <2>2 DEF Apart, ListsApart, e, L
  <2>5. timedFunctions[s][k].ask \in Asks
    BY <1>0, <2>2, EntryIn DEF Entry
  <2>6. QED
    BY <1>10, <2>2, <2>3, <2>4, <2>5
<1>14. WaitingInQueue'
  <2>1. SUFFICES ASSUME NEW i \in DOMAIN queuedToBeAdded
                 PROVE  Fresh(queuedToBeAdded[i].ask, asked, stopped,
                              running'.ask)
    BY <1>0, <1>2 DEF WaitingInQueue, ghostVars
  <2>2. queuedToBeAdded[i].ask # e.ask
    BY <1>0, <1>1 DEF Apart, ListsAndQueueApart, e, L
  <2>3. queuedToBeAdded[i].ask \in Asks
    BY <1>0, QueuedIn DEF Entry
  <2>4. QED
    BY <1>0, <1>10, <2>2, <2>3 DEF WaitingInQueue
<1>15. Apart'
  <2>1. ListsApart'
    <3>1. SUFFICES ASSUME NEW s \in Slots, NEW t \in Slots,
                          NEW i \in DOMAIN timedFunctions'[s],
                          NEW j \in DOMAIN timedFunctions'[t],
                          timedFunctions'[s][i].ask = timedFunctions'[t][j].ask
                   PROVE  s = t /\ i = j
      BY DEF ListsApart
    <3>2. s = t /\ from(s, i) = from(t, j)
      <4> HIDE DEF from
      <4>1. QED
        BY <1>0, <1>5, <3>1 DEF Apart, ListsApart
    <3>3. QED
      BY <1>5, <1>6, <3>2
  <2> HIDE DEF from
  <2>2. ListsAndQueueApart'
    BY <1>0, <1>5 DEF Apart, ListsAndQueueApart
  <2>3. QED
    BY <1>0, <2>1, <2>2 DEF Apart, QueueApart
<1>16. RunsInTime'
  BY <1>2, <1>8, <1>9 DEF RunsInTime, Fresh, ghostVars
<1>17. QED
  BY <1>11, <1>12, <1>13, <1>14, <1>15, <1>16 DEF TimedInv

LEMMA ConcatDoes ==
  ASSUME NEW S, NEW a \in Seq(S), NEW b \in Seq(S)
  PROVE  /\ a \o b \in Seq(S) /\ DOMAIN (a \o b) = 1..Len(a) + Len(b)
         /\ \A i \in 1..Len(a) + Len(b) :
               /\ i <= Len(a) => (a \o b)[i] = a[i]
               /\ i > Len(a) => /\ i - Len(a) \in 1..Len(b)
                                /\ (a \o b)[i] = b[i - Len(a)]
<1>1. a \o b \in Seq(S) /\ Len(a \o b) = Len(a) + Len(b)
  OBVIOUS
<1>2. ASSUME NEW i \in 1..Len(a) + Len(b)
      PROVE  /\ i <= Len(a) => (a \o b)[i] = a[i]
             /\ i > Len(a) => /\ i - Len(a) \in 1..Len(b)
                              /\ (a \o b)[i] = b[i - Len(a)]
  OBVIOUS
<1>3. QED
  BY <1>1, <1>2

LEMMA NewestFirstDoes ==
  ASSUME NEW S, NEW s \in Seq(S)
  PROVE  /\ NewestFirst(s) \in Seq(S) /\ Len(NewestFirst(s)) = Len(s)
         /\ \A i \in 1..Len(s) : /\ Len(s) + 1 - i \in DOMAIN s
                                 /\ NewestFirst(s)[i] = s[Len(s) + 1 - i]
<1>1. Len(s) \in Nat /\ DOMAIN s = 1..Len(s)
  OBVIOUS
<1>2. \A i \in 1..Len(s) : Len(s) + 1 - i \in 1..Len(s)
  BY <1>1
<1>3. NewestFirst(s) = [i \in 1..Len(s) |-> s[Len(s) + 1 - i]]
  BY <1>1 DEF NewestFirst
<1>4. \A i \in 1..Len(s) : s[Len(s) + 1 - i] \in S
  BY <1>1, <1>2
<1>5. QED
  BY <1>1, <1>2, <1>3, <1>4

\* When the loop has ended, OnTick() has come to every entry of its list.
LEMMA EndTickInv == TimedInv /\ EndTick => TimedInv'
<1> SUFFICES ASSUME TimedInv, EndTick PROVE TimedInv'
  OBVIOUS
<1> USE DEF EndTick
<1>0. /\ TimedTypeOK /\ TickControl /\ WaitingInLists /\ WaitingInQueue
      /\ Apart /\ RunsInTime
  BY DEF TimedInv
<1> DEFINE L == timedFunctions[curTick]
           Q == queuedToBeAdded
           R == NewestFirst(Q)
<1>1. /\ curTick \in Slots /\ L \in Seq(Entry) /\ Q \in Seq(Entry)
      /\ Len(L) \in Nat /\ Len(Q) \in Nat /\ L = List
      /\ pc = "loop" /\ running = NoEntry /\ it \in Nat
      /\ DOMAIN L = 1..Len(L) /\ DOMAIN Q = 1..Len(Q)
  BY <1>0 DEF TimedTypeOK, List
<1>2. \A i \in DOMAIN L : i < it
  BY <1>0, <1>1 DEF TickControl
<1>3. /\ R \in Seq(Entry) /\ Len(R) = Len(Q)
      /\ \A i \in 1..Len(Q) : Len(Q) + 1 - i \in DOMAIN Q
                              /\ R[i] = Q[Len(Q) + 1 - i]
  BY <1>1, NewestFirstDoes
<1>4. /\ DOMAIN timedFunctions' = Slots
      /\ \A s \in Slots : s # curTick => timedFunctions'[s] = timedFunctions[s]
      /\ timedFunctions'[curTick] = L \o R
  BY <1>0, <1>1 DEF TimedTypeOK
<1> HIDE DEF L, Q, R
<1>5. /\ L \o R \in Seq(Entry) /\ DOMAIN (L \o R) = 1..Len(L) + Len(Q)
      /\ \A i \in 1..Len(L) + Len(Q) :
            /\ i <= Len(L) => (L \o R)[i] = L[i]
            /\ i > Len(L) => /\ i - Len(L) \in 1..Len(Q)
                             /\ (L \o R)[i] = R[i - Len(L)]
  <2>1. /\ L \o R \in Seq(Entry) /\ DOMAIN (L \o R) = 1..Len(L) + Len(R)
        /\ \A i \in 1..Len(L) + Len(R) :
              /\ i <= Len(L) => (L \o R)[i] = L[i]
              /\ i > Len(L) => /\ i - Len(L) \in 1..Len(R)
                               /\ (L \o R)[i] = R[i - Len(L)]
    <3>1. L \in Seq(Entry) /\ R \in Seq(Entry)
      BY <1>1, <1>3
    <3>2. QED
      BY <3>1, ConcatDoes
  <2>2. QED
    BY <1>3, <2>1
\* Where the entry at i of the list s comes from
<1> DEFINE new(s, i) == s = curTick /\ i > Len(L)
           at(i) == Len(Q) + 1 - (i - Len(L))
<1>6. ASSUME NEW s \in Slots, NEW i \in DOMAIN timedFunctions'[s]
      PROVE  /\ i \in Nat \ {0}
             /\ new(s, i) => /\ at(i) \in DOMAIN Q
                             /\ timedFunctions'[s][i] = Q[at(i)]
             /\ ~new(s, i) => /\ i \in DOMAIN timedFunctions[s]
                              /\ timedFunctions'[s][i] = timedFunctions[s][i]
  <2>1. CASE s # curTick
    <3>1. timedFunctions[s] \in Seq(Entry)
      BY <1>0 DEF TimedTypeOK
    <3>2. QED
      BY <1>4, <2>1, <3>1
  <2>2. CASE s = curTick
    <3>1. i \in 1..Len(L) + Len(Q) /\ timedFunctions'[s] = L \o R
      BY <1>4, <1>5, <2>2
    <3>2. CASE i > Len(L)
      <4>1. /\ i - Len(L) \in 1..Len(Q)
            /\ timedFunctions'[s][i] = R[i - Len(L)]
        BY <1>5, <3>1, <3>2
      <4>2. /\ at(i) \in DOMAIN Q
            /\ timedFunctions'[s][i] = Q[at(i)]
        BY <1>1, <1>3, <4>1
      <4>3. QED
        BY <1>1, <2>2, <3>1, <3>2, <4>2
    <3>3. CASE i <= Len(L)
      BY <1>1, <1>5, <2>2, <3>1, <3>3 DEF L
    <3>4. QED
      BY <1>1, <3>1, <3>2, <3>3
  <2>3. QED
    BY <2>1, <2>2
<1>7. ASSUME NEW s \in Slots, NEW i \in DOMAIN timedFunctions'[s]
      PROVE  /\ new(s, i) => Turn(s, i)' = TicksPerSec
             /\ ~new(s, i) => Turn(s, i)' = Turn(s, i)
  BY <1>1, <1>2, <1>6, TickNumbers DEF Turn, Slots, L
<1>8. TimedTypeOK'
  <2>1. timedFunctions' \in [Slots -> Seq(Entry)]
    <3>1. timedFunctions' = [s \in Slots |-> timedFunctions'[s]]
      BY <1>0 DEF TimedTypeOK
    <3>2. \A s \in Slots : timedFunctions'[s] \in Seq(Entry)
      BY <1>0, <1>4, <1>5 DEF TimedTypeOK
    <3>3. QED
      BY <3>1, <3>2
  <2>2. <<>> \in Seq(Entry) /\ 1 \in 1..MaxAsks + 1
    BY TickNumbers
  <2>3. QED
    BY <1>0, <1>1, <2>1, <2>2 DEF TimedTypeOK, ghostVars
<1>9. TickControl'
  BY DEF TickControl
<1>10. WaitingInLists'
  <2>1. SUFFICES ASSUME NEW s \in Slots, NEW i \in DOMAIN timedFunctions'[s]
                 PROVE  /\ OnCourse(timedFunctions'[s][i], Turn(s, i)',
                                    delayed)
                        /\ Fresh(timedFunctions'[s][i].ask, asked, stopped,
                                 running.ask)
    BY DEF WaitingInLists, ghostVars
  <2>2. CASE new(s, i)
    <3>1. /\ at(i) \in DOMAIN Q /\ timedFunctions'[s][i] = Q[at(i)]
          /\ Turn(s, i)' = TicksPerSec
      BY <1>6, <1>7, <2>2
    <3> HIDE DEF at, new
    <3>2. QED
      BY <1>0, <3>1 DEF WaitingInQueue, Q
  <2>3. CASE ~new(s, i)
    <3>1. /\ i \in DOMAIN timedFunctions[s] /\ Turn(s, i)' = Turn(s, i)
          /\ timedFunctions'[s][i] = timedFunctions[s][i]
      BY <1>6, <1>7, <2>3
    <3> HIDE DEF at, new
    <3>2. QED
      BY <1>0, <3>1 DEF WaitingInLists
  <2>4. QED
    BY <2>2, <2>3
<1>11. WaitingInQueue' /\ QueueApart' /\ ListsAndQueueApart'
  BY DEF WaitingInQueue, QueueApart, ListsAndQueueApart
<1>12. ListsApart'
  <2>1. SUFFICES ASSUME NEW s \in Slots, NEW t \in Slots,
                        NEW i \in DOMAIN timedFunctions'[s],
                        NEW j \in DOMAIN timedFunctions'[t],
                        timedFunctions'[s][i].ask = timedFunctions'[t][j].ask
                 PROVE  s = t /\ i = j
    BY DEF ListsApart
  <2>2. CASE new(s, i) /\ new(t, j)
    <3>1. at(i) = at(j)
      <4>1. /\ at(i) \in DOMAIN Q /\ at(j) \in DOMAIN Q
            /\ timedFunctions'[s][i] = Q[at(i)]
            /\ timedFunctions'[t][j] = Q[at(j)]
        BY <1>6, <2>2
      <4> HIDE DEF at, new
      <4>2. QED
        BY <1>0, <2>1, <4>1 DEF Apart, QueueApart, Q
    <3>2. QED
      BY <1>1, <1>6, <2>2, <3>1
  <2>3. CASE ~new(s, i) /\ ~new(t, j)
    <3>1. /\ i \in DOMAIN timedFunctions[s] /\ j \in DOMAIN timedFunctions[t]
          /\ timedFunctions'[s][i] = timedFunctions[s][i]
          /\ timedFunctions'[t][j] = timedFunctions[t][j]
      BY <1>6, <2>3
    <3>2. QED
      BY <1>0, <2>1, <3>1 DEF Apart, ListsApart
  <2>4. CASE new(s, i) /\ ~new(t, j)
    <3>1. /\ at(i) \in DOMAIN Q /\ timedFunctions'[s][i] = Q[at(i)]
          /\ j \in DOMAIN timedFunctions[t]
          /\ timedFunctions'[t][j] = timedFunctions[t][j]
      BY <1>6, <2>4
    <3> HIDE DEF at, new
    <3>2. QED
      BY <1>0, <2>1, <3>1 DEF Apart, ListsAndQueueApart, Q
  <2>5. CASE ~new(s, i) /\ new(t, j)
    <3>1. /\ at(j) \in DOMAIN Q /\ timedFunctions'[t][j] = Q[at(j)]
          /\ i \in DOMAIN timedFunctions[s]
          /\ timedFunctions'[s][i] = timedFunctions[s][i]
      BY <1>6, <2>5
    <3> HIDE DEF at, new
    <3>2. QED
      BY <1>0, <2>1, <3>1 DEF Apart, ListsAndQueueApart, Q
  <2>6. QED
    BY <2>2, <2>3, <2>4, <2>5
<1>13. RunsInTime'
  BY DEF RunsInTime
<1>14. QED
  BY <1>8, <1>9, <1>10, <1>11, <1>12, <1>13 DEF TimedInv, Apart

\* What the tick had still to come to is late, when it is given up.
LEMMA InterruptedInv ==
  ASSUME TimedInv, ScriptTurn,
         timedFunctions' = timedFunctions, curTick' = curTick,
         asked' = asked, stopped' = stopped,
         pc' = "idle", running' = NoEntry,
         queuedToBeAdded' \in {queuedToBeAdded, <<>>},
         delayed \cup NotReached \subseteq delayed',
         queuedToBeAdded' = <<>> \/ AsksIn(queuedToBeAdded) \subseteq delayed'
  PROVE  WaitingInLists' /\ WaitingInQueue' /\ Apart'
<1>0. /\ TimedTypeOK /\ TickControl /\ WaitingInLists /\ WaitingInQueue
      /\ Apart
  BY DEF TimedInv
<1>1. ASSUME NEW n \in Asks, Fresh(n, asked, stopped, running.ask)
      PROVE  Fresh(n, asked', stopped', running'.ask)
  BY <1>1, TickNumbers DEF Fresh, NoEntry
<1>2. WaitingInLists'
  <2>1. ASSUME NEW s \in Slots, NEW i \in DOMAIN timedFunctions[s]
        PROVE  /\ OnCourse(timedFunctions[s][i], Turn(s, i)', delayed')
               /\ Fresh(timedFunctions[s][i].ask, asked', stopped',
                        running'.ask)
    <3> DEFINE e == timedFunctions[s][i]
    <3>1. /\ timedFunctions[s] \in Seq(Entry) /\ i \in Nat \ {0}
          /\ e \in Entry /\ e.ask \in Nat /\ e.wait \in Int
      BY <1>0, EntryIn
    <3>2. e.ask \in Asks /\ TicksPerSec * Rounds(e) \in Nat
      BY <3>1, RoundsDo DEF Entry
    <3>3. /\ OnCourse(e, Turn(s, i), delayed)
          /\ Fresh(e.ask, asked, stopped, running.ask)
      BY <1>0 DEF WaitingInLists
    <3>4. CASE s = curTick /\ pc # "idle" /\ i >= it
      <4>1. e.ask \in NotReached
        <5>1. i \in it..Len(List) /\ List[i] = e
          <6>1. it \in Nat /\ List \in Seq(Entry) /\ List[i] = e
                /\ i \in DOMAIN List
            BY <1>0, <3>1, <3>4 DEF TimedTypeOK, List
          <6>2. QED
            BY <3>1, <3>4, <6>1
        <5>2. QED
          BY <3>4, <5>1 DEF NotReached
      <4>2. Turn(s, i) = 0 /\ Turn(s, i)' = TicksPerSec
        BY <1>0, <3>1, <3>4, TickNumbers DEF Turn, Slots, TimedTypeOK
      <4> HIDE DEF e
      <4>3. OnCourse(e, TicksPerSec, delayed')
        BY <3>1, <3>2, <3>3, <4>1, <4>2, TickNumbers DEF OnCourse
      <4>4. QED
        BY <1>1, <3>2, <3>3, <4>2, <4>3 DEF e
    <3>5. CASE ~(s = curTick /\ pc # "idle" /\ i >= it)
      <4>1. Turn(s, i)' = Turn(s, i)
        BY <1>0, <3>1, <3>5, TickNumbers DEF Turn, Slots, TimedTypeOK
      <4> HIDE DEF e
      <4>2. OnCourse(e, Turn(s, i), delayed')
        BY <3>3 DEF OnCourse
      <4>3. QED
        BY <1>1, <3>2, <3>3, <4>1, <4>2 DEF e
    <3>6. QED
      BY <3>4, <3>5
  <2>2. QED
    BY <2>1 DEF WaitingInLists
<1>3. WaitingInQueue'
  <2>1. CASE queuedToBeAdded' = <<>>
    BY <2>1 DEF WaitingInQueue
  <2>2. CASE queuedToBeAdded' = queuedToBeAdded
                /\ AsksIn(queuedToBeAdded) \subseteq delayed'
    <3>1. ASSUME NEW i \in DOMAIN queuedToBeAdded
          PROVE  /\ OnCourse(queuedToBeAdded[i], TicksPerSec, delayed')
                 /\ Fresh(queuedToBeAdded[i].ask, asked', stopped',
                          running'.ask)
                 /\ queuedToBeAdded[i].ask \in delayed'
      <4>1. queuedToBeAdded[i].ask \in Asks
        BY <1>0, QueuedIn DEF Entry
      <4>2. /\ OnCourse(queuedToBeAdded[i], TicksPerSec, delayed)
            /\ Fresh(queuedToBeAdded[i].ask, asked, stopped, running.ask)
        BY <1>0 DEF WaitingInQueue
      <4>3. queuedToBeAdded[i].ask \in delayed'
        BY <2>2 DEF AsksIn
      <4>4. OnCourse(queuedToBeAdded[i], TicksPerSec, delayed')
        BY <4>2 DEF OnCourse
      <4>5. QED
        BY <1>1, <4>1, <4>2, <4>3, <4>4
    <3>2. QED
      BY <2>2, <3>1 DEF WaitingInQueue
  <2>3. QED
    BY <2>1, <2>2
<1>4. Apart'
  BY <1>0 DEF Apart, ListsApart, QueueApart, ListsAndQueueApart
<1>5. QED
  BY <1>2, <1>3, <1>4

\* All that waits has a number that was given.
LEMMA WaitingNumbers ==
  ASSUME TimedInv
  PROVE  /\ NotReached \subseteq 1..asked
         /\ AsksIn(queuedToBeAdded) \subseteq 1..asked
<1>0. TimedTypeOK /\ WaitingInLists /\ WaitingInQueue
  BY DEF TimedInv
<1>1. ASSUME NEW i \in it..Len(List) PROVE List[i].ask \in 1..asked
  <2>1. /\ List = timedFunctions[curTick] /\ List \in Seq(Entry)
        /\ curTick \in Slots /\ it \in Nat \ {0}
    BY <1>0 DEF TimedTypeOK, List
  <2>2. i \in DOMAIN timedFunctions[curTick]
    BY <2>1
  <2>3. List[i].ask <= asked
    BY <1>0, <2>1, <2>2 DEF WaitingInLists, Fresh
  <2>4. List[i].ask \in Asks
    BY <1>0, <2>1, <2>2, EntryIn DEF Entry
  <2>5. QED
    BY <1>0, <2>3, <2>4, TickNumbers DEF TimedTypeOK
<1>2. ASSUME NEW i \in DOMAIN queuedToBeAdded
      PROVE  queuedToBeAdded[i].ask \in 1..asked
  <2>1. queuedToBeAdded[i].ask <= asked
    BY <1>0 DEF WaitingInQueue, Fresh
  <2>2. queuedToBeAdded[i].ask \in Asks
    BY <1>0, QueuedIn DEF Entry
  <2>3. QED
    BY <1>0, <2>1, <2>2, TickNumbers DEF TimedTypeOK
<1>3. QED
  BY <1>1, <1>2 DEF NotReached, AsksIn

LEMMA GiveUpInv == TimedInv /\ GiveUp => TimedInv'
<1> SUFFICES ASSUME TimedInv, GiveUp PROVE TimedInv'
  OBVIOUS
<1> USE DEF GiveUp
<1>1. WaitingInLists' /\ WaitingInQueue' /\ Apart'
  BY InterruptedInv DEF listVars, ScriptTurn
<1>2. TimedTypeOK'
  <2>1. delayed' \subseteq 1..asked
    BY WaitingNumbers DEF TimedInv, TimedTypeOK
  <2>2. faults' \in 0..MaxFaults /\ it' \in 1..MaxAsks + 1
    BY TickNumbers DEF TimedInv, TimedTypeOK
  <2>3. QED
    BY <2>1, <2>2 DEF TimedInv, TimedTypeOK, listVars
<1>3. TickControl' /\ RunsInTime'
  BY DEF TimedInv, TickControl, RunsInTime
<1>4. QED
  BY <1>1, <1>2, <1>3 DEF TimedInv

LEMMA RestartInv == TimedInv /\ Restart => TimedInv'
<1> SUFFICES ASSUME TimedInv, Restart PROVE TimedInv'
  OBVIOUS
<1> USE DEF Restart
<1>1. WaitingInLists' /\ WaitingInQueue' /\ Apart'
  BY InterruptedInv
<1>2. TimedTypeOK'
  <2>1. <<>> \in Seq(Entry)
    OBVIOUS
  <2>2. object' \in [Uids -> {"here", "deleted", "none"}]
    BY DEF TimedInv, TimedTypeOK
  <2>3. delayed' \subseteq 1..asked /\ lost' \subseteq 1..asked
    BY WaitingNumbers DEF TimedInv, TimedTypeOK
  <2>4. faults' \in 0..MaxFaults /\ it' \in 1..MaxAsks + 1
    BY TickNumbers DEF TimedInv, TimedTypeOK
  <2>5. QED
    BY <2>1, <2>2, <2>3, <2>4 DEF TimedInv, TimedTypeOK
<1>3. TickControl' /\ RunsInTime'
  BY DEF TimedInv, TickControl, RunsInTime
<1>4. QED
  BY <1>1, <1>2, <1>3 DEF TimedInv

-----------------------------------------------------------------------------
(* What scripts do *)

\* The entry of a function that an object asks for in some seconds
LEMMA NewEntry ==
  ASSUME TimedInv, asked < MaxAsks,
         NEW u \in Uids, NEW n \in Seconds, NEW f \in Funcs,
         NEW e, e = [ask |-> asked + 1, uid |-> u, func |-> f, elapsed |-> n,
                     wait |-> TicksPerSec * (IF n = 0 THEN 1 ELSE n)]
  PROVE  /\ e \in Entry /\ e.ask = asked + 1
         /\ OnCourse(e, TicksPerSec, delayed)
<1>1. n \in Nat /\ asked \in 0..MaxAsks /\ MaxAsks \in Nat
      /\ TicksPerSec \in Nat \ {0}
  BY TickNumbers DEF TimedInv, TimedTypeOK
<1>2. Rounds(e) = IF n = 0 THEN 0 ELSE n - 1
  BY DEF Rounds
<1>3. e.wait = TicksPerSec + TicksPerSec * Rounds(e) /\ e.wait \in Nat
  <2>1. CASE n = 0
    <3>1. TicksPerSec * 1 = TicksPerSec /\ TicksPerSec * 0 = 0
      BY <1>1
    <3>2. e.wait = TicksPerSec * 1 /\ Rounds(e) = 0
      BY <1>2, <2>1
    <3>3. QED
      BY <1>1, <3>1, <3>2
  <2>2. CASE n # 0
    <3>1. PICK k \in Nat : k = n - 1
      BY <1>1, <2>2
    <3>2. TicksPerSec * (k + 1) = TicksPerSec * k + TicksPerSec
          /\ TicksPerSec * k \in Nat
      BY OneRound
    <3>3. n = k + 1 /\ Rounds(e) = k /\ e.wait = TicksPerSec * n
      BY <1>1, <1>2, <2>2, <3>1
    <3>4. QED
      BY <1>1, <3>2, <3>3
  <2>3. QED
    BY <2>1, <2>2
<1>4. e \in Entry
  <2>1. asked + 1 \in Asks /\ e.wait \in Int
    BY <1>1, <1>3 DEF Asks
  <2>2. QED
    BY <1>1, <2>1 DEF Entry
<1>5. QED
  BY <1>3, <1>4, TickNumbers DEF OnCourse

LEMMA AppendDoes ==
  ASSUME NEW S, NEW s \in Seq(S), NEW x \in S
  PROVE  /\ Append(s, x) \in Seq(S) /\ Len(s) \in Nat
         /\ DOMAIN Append(s, x) = 1..Len(s) + 1 /\ DOMAIN s = 1..Len(s)
         /\ \A i \in 1..Len(s) : Append(s, x)[i] = s[i]
         /\ Append(s, x)[Len(s) + 1] = x
  OBVIOUS

LEMMA AddInv ==
  ASSUME TimedInv, NEW u \in Uids, NEW n \in Seconds, NEW f \in Funcs,
         Add(u, n, f)
  PROVE  TimedInv'
<1>0. /\ TimedTypeOK /\ TickControl /\ WaitingInLists /\ WaitingInQueue
      /\ Apart /\ RunsInTime
  BY DEF TimedInv
<1> DEFINE e == [ask |-> asked + 1, uid |-> u, func |-> f, elapsed |-> n,
                 wait |-> TicksPerSec * (IF n = 0 THEN 1 ELSE n)]
<1>1. /\ ScriptTurn /\ asked < MaxAsks /\ asked' = asked + 1
      /\ IF isBeingProcessed
         THEN /\ queuedToBeAdded' = Append(queuedToBeAdded, e)
              /\ UNCHANGED timedFunctions
         ELSE /\ timedFunctions' = [timedFunctions EXCEPT
                                      ![curTick] = Append(@, e)]
              /\ UNCHANGED queuedToBeAdded
      /\ orphans' = IF object[u] = "here" THEN orphans
                    ELSE orphans \cup {asked + 1}
      /\ delayed' = IF isBeingProcessed /\ pc = "idle"
                    THEN delayed \cup {asked + 1} ELSE delayed
      /\ UNCHANGED <<tickVars, object, stopped, overlooked, lost, faults>>
  BY DEF Add
<1>2. e \in Entry /\ e.ask = asked + 1 /\ OnCourse(e, TicksPerSec, delayed)
  BY <1>1, NewEntry
<1> HIDE DEF e
<1>3. /\ asked \in Nat /\ MaxAsks \in Nat /\ curTick \in Slots
      /\ timedFunctions \in [Slots -> Seq(Entry)]
      /\ queuedToBeAdded \in Seq(Entry)
      /\ stopped \subseteq 1..asked /\ delayed \subseteq 1..asked
      /\ orphans \subseteq 1..asked
  BY <1>0, TickNumbers DEF TimedTypeOK
<1>4. /\ asked' \in 0..MaxAsks /\ orphans' \subseteq 1..asked'
      /\ delayed' \subseteq 1..asked' /\ delayed \subseteq delayed'
      /\ 1..asked \subseteq 1..asked'
  BY <1>1, <1>3
<1>5. /\ stopped' = stopped /\ pc' = pc /\ it' = it /\ curTick' = curTick
      /\ theEnd' = theEnd /\ isBeingProcessed' = isBeingProcessed
      /\ running' = running
  BY <1>1 DEF tickVars
<1>6. RunsInTime'
  <2>1. ASSUME pc = "run", running.ask \notin delayed'
        PROVE  running.wait = 0
    BY <1>0, <1>4, <2>1 DEF RunsInTime
  <2>2. pc = "run" => running.ask \in Nat
    BY <1>0, TickNumbers DEF TimedTypeOK, Entry
  <2>3. pc = "run" => running.ask <= asked'
    BY <1>0, <1>1, <1>3, <2>2 DEF RunsInTime
  <2>4. QED
    BY <1>0, <1>5, <2>1, <2>3 DEF RunsInTime
<1>7. ASSUME NEW d \in Entry, NEW k, OnCourse(d, k, delayed)
      PROVE  OnCourse(d, k, delayed')
  BY <1>4, <1>7 DEF OnCourse
<1>8. ASSUME NEW d \in Entry, Fresh(d.ask, asked, stopped, running.ask)
      PROVE  /\ Fresh(d.ask, asked', stopped', running'.ask)
             /\ d.ask # e.ask
  <2>1. d.ask \in Nat
    BY TickNumbers DEF Entry
  <2>2. QED
    BY <1>1, <1>2, <1>3, <1>5, <1>8, <2>1 DEF Fresh
<1>9. Fresh(e.ask, asked', stopped', running'.ask)
  <2>1. asked + 1 \notin stopped
    BY <1>3
  <2>2. running.ask # asked + 1
    <3>1. CASE pc = "run"
      <4>1. running.ask \in Nat /\ running.ask <= asked
        BY <1>0, <3>1, TickNumbers DEF TimedTypeOK, RunsInTime, Entry
      <4>2. QED
        BY <1>3, <4>1
    <3>2. CASE pc # "run"
      BY <1>0, <1>3, <3>2 DEF TimedTypeOK, NoEntry
    <3>3. QED
      BY <3>1, <3>2
  <2>3. QED
    BY <1>1, <1>2, <1>3, <1>5, <2>1, <2>2 DEF Fresh
<1>10. CASE isBeingProcessed
  <2>1. /\ queuedToBeAdded' = Append(queuedToBeAdded, e)
        /\ timedFunctions' = timedFunctions
    BY <1>1, <1>10
  <2> DEFINE m == Len(queuedToBeAdded)
  <2>2. /\ queuedToBeAdded' \in Seq(Entry)
        /\ m \in Nat /\ DOMAIN queuedToBeAdded' = 1..m + 1
        /\ DOMAIN queuedToBeAdded = 1..m
        /\ \A i \in 1..m : queuedToBeAdded'[i] = queuedToBeAdded[i]
        /\ queuedToBeAdded'[m + 1] = e
    BY <1>2, <1>3, <2>1, AppendDoes
  <2> HIDE DEF m
  <2>3. TimedTypeOK'
    BY <1>0, <1>1, <1>3, <1>4, <1>5, <2>1, <2>2 DEF TimedTypeOK
  <2>4. TickControl'
    BY <1>0, <1>5, <2>1 DEF TickControl, List
  <2>5. WaitingInLists'
    <3>1. ASSUME NEW s \in Slots, NEW i \in DOMAIN timedFunctions[s]
          PROVE  /\ OnCourse(timedFunctions[s][i], Turn(s, i)', delayed')
                 /\ Fresh(timedFunctions[s][i].ask, asked', stopped',
                          running'.ask)
      <4>1. timedFunctions[s][i] \in Entry
        BY <1>0, EntryIn
      <4>2. Turn(s, i)' = Turn(s, i)
        BY <1>5 DEF Turn
      <4>3. QED
        BY <1>0, <1>7, <1>8, <4>1, <4>2 DEF WaitingInLists
    <3>2. QED
      BY <2>1, <3>1 DEF WaitingInLists
  <2>6. WaitingInQueue'
    <3>1. ASSUME NEW i \in 1..m + 1
          PROVE  /\ OnCourse(queuedToBeAdded'[i], TicksPerSec, delayed')
                 /\ Fresh(queuedToBeAdded'[i].ask, asked', stopped',
                          running'.ask)
                 /\ pc = "idle" => queuedToBeAdded'[i].ask \in delayed'
      <4>1. CASE i = m + 1
        BY <1>1, <1>2, <1>7, <1>9, <1>10, <2>2, <4>1
      <4>2. CASE i # m + 1
        <5>1. /\ i \in DOMAIN queuedToBeAdded
              /\ queuedToBeAdded'[i] = queuedToBeAdded[i]
          BY <2>2, <4>2
        <5>2. queuedToBeAdded[i] \in Entry
          BY <1>0, <5>1, QueuedIn
        <5>3. QED
          BY <1>0, <1>4, <1>7, <1>8, <5>1, <5>2 DEF WaitingInQueue
      <4>3. QED
        BY <4>1, <4>2
    <3>2. QED
      BY <1>5, <2>2, <3>1 DEF WaitingInQueue
  <2>7. ASSUME NEW s \in Slots, NEW i \in DOMAIN timedFunctions[s]
        PROVE  timedFunctions[s][i].ask # e.ask
    BY <1>0, <1>8, EntryIn DEF WaitingInLists
  <2>8. ASSUME NEW i \in 1..m PROVE queuedToBeAdded[i].ask # e.ask
    BY <1>0, <1>8, <2>2, QueuedIn DEF WaitingInQueue
  <2>9. \A i \in 1..m + 1 : i \in 1..m \/ i = m + 1
    BY <2>2
  <2>10. Apart'
    <3>1. ListsApart'
      BY <1>0, <2>1 DEF Apart, ListsApart
    <3>2. QueueApart'
      BY <1>0, <2>2, <2>8, <2>9 DEF Apart, QueueApart
    <3>3. ListsAndQueueApart'
      BY <1>0, <2>1, <2>2, <2>7, <2>9 DEF Apart, ListsAndQueueApart
    <3>4. QED
      BY <3>1, <3>2, <3>3 DEF Apart
  <2>11. QED
    BY <1>6, <2>3, <2>4, <2>5, <2>6, <2>10 DEF TimedInv
<1>11. CASE ~isBeingProcessed
  <2> DEFINE L == timedFunctions[curTick]
             m == Len(L)
  <2>1. /\ queuedToBeAdded' = queuedToBeAdded
        /\ DOMAIN timedFunctions' = Slots
        /\ \A s \in Slots :
              s # curTick => timedFunctions'[s] = timedFunctions[s]
        /\ timedFunctions'[curTick] = Append(L, e)
        /\ L \in Seq(Entry)
    BY <1>1, <1>3, <1>11
  <2>2. /\ timedFunctions'[curTick] \in Seq(Entry)
        /\ m \in Nat /\ DOMAIN timedFunctions'[curTick] = 1..m + 1
        /\ DOMAIN L = 1..m
        /\ \A i \in 1..m : timedFunctions'[curTick][i] = L[i]
        /\ timedFunctions'[curTick][m + 1] = e
    BY <1>2, <2>1, AppendDoes
  <2>3. pc = "idle"
    BY <1>0, <1>11 DEF TickControl
  <2> DEFINE new(s, i) == s = curTick /\ i = m + 1
  <2> HIDE DEF m, L
  <2>4. ASSUME NEW s \in Slots, NEW i \in DOMAIN timedFunctions'[s]
        PROVE  /\ new(s, i) => timedFunctions'[s][i] = e
               /\ ~new(s, i) => /\ i \in DOMAIN timedFunctions[s]
                                /\ timedFunctions'[s][i]
                                     = timedFunctions[s][i]
    <3>1. CASE s # curTick
      BY <2>1, <3>1
    <3>2. CASE s = curTick
      BY <2>2, <3>2 DEF L
    <3>3. QED
      BY <3>1, <3>2
  <2>5. TimedTypeOK'
    <3>1. timedFunctions' \in [Slots -> Seq(Entry)]
      <4>1. timedFunctions' = [s \in Slots |-> timedFunctions'[s]]
        BY <1>1, <1>3, <1>11
      <4>2. \A s \in Slots : timedFunctions'[s] \in Seq(Entry)
        BY <1>3, <2>1, <2>2
      <4>3. QED
        BY <4>1, <4>2
    <3>2. QED
      BY <1>0, <1>1, <1>3, <1>4, <1>5, <2>1, <3>1 DEF TimedTypeOK
  <2>6. TickControl'
    BY <1>0, <1>5, <2>3 DEF TickControl
  <2>7. WaitingInLists'
    <3>1. SUFFICES ASSUME NEW s \in Slots, NEW i \in DOMAIN timedFunctions'[s]
                   PROVE  /\ OnCourse(timedFunctions'[s][i], Turn(s, i)',
                                      delayed')
                          /\ Fresh(timedFunctions'[s][i].ask, asked', stopped',
                                   running'.ask)
      BY DEF WaitingInLists
    <3>2. Turn(s, i)' = Turn(s, i)
      BY <1>5 DEF Turn
    <3>3. CASE new(s, i)
      <4>1. Turn(s, i) = TicksPerSec
        BY <1>3, <2>3, <3>3, TickNumbers DEF Turn
      <4>2. QED
        BY <1>2, <1>7, <1>9, <2>4, <3>2, <3>3, <4>1
    <3>4. CASE ~new(s, i)
      <4>1. /\ i \in DOMAIN timedFunctions[s]
            /\ timedFunctions'[s][i] = timedFunctions[s][i]
        BY <2>4, <3>4
      <4>2. timedFunctions[s][i] \in Entry
        BY <1>0, <4>1, EntryIn
      <4>3. QED
        BY <1>0, <1>7, <1>8, <3>2, <4>1, <4>2 DEF WaitingInLists
    <3>5. QED
      BY <3>3, <3>4
  <2>8. WaitingInQueue'
    <3>1. ASSUME NEW i \in DOMAIN queuedToBeAdded
          PROVE  /\ OnCourse(queuedToBeAdded[i], TicksPerSec, delayed')
                 /\ Fresh(queuedToBeAdded[i].ask, asked', stopped',
                          running'.ask)
                 /\ queuedToBeAdded[i].ask \in delayed'
      <4>1. queuedToBeAdded[i] \in Entry
        BY <1>0, QueuedIn
      <4>2. QED
        BY <1>0, <1>4, <1>7, <1>8, <2>3, <4>1 DEF WaitingInQueue
    <3>2. QED
      BY <2>1, <3>1 DEF WaitingInQueue
  <2>9. ASSUME NEW s \in Slots, NEW i \in DOMAIN timedFunctions[s]
        PROVE  timedFunctions[s][i].ask # e.ask
    BY <1>0, <1>8, EntryIn DEF WaitingInLists
  <2>10. ASSUME NEW i \in DOMAIN queuedToBeAdded
         PROVE  queuedToBeAdded[i].ask # e.ask
    BY <1>0, <1>8, QueuedIn DEF WaitingInQueue
  <2>11. Apart'
    <3>1. ASSUME NEW s \in Slots, NEW t \in Slots,
                 NEW i \in DOMAIN timedFunctions'[s],
                 NEW j \in DOMAIN timedFunctions'[t],
                 timedFunctions'[s][i].ask = timedFunctions'[t][j].ask
          PROVE  s = t /\ i = j
      <4>1. CASE new(s, i) /\ new(t, j)
        BY <4>1
      <4>2. CASE new(s, i) /\ ~new(t, j)
        BY <2>4, <2>9, <3>1, <4>2
      <4>3. CASE ~new(s, i) /\ new(t, j)
        BY <2>4, <2>9, <3>1, <4>3
      <4>4. CASE ~new(s, i) /\ ~new(t, j)
        BY <1>0, <2>4, <3>1, <4>4 DEF Apart, ListsApart
      <4>5. QED
        BY <4>1, <4>2, <4>3, <4>4
    <3>2. ASSUME NEW s \in Slots, NEW i \in DOMAIN timedFunctions'[s],
                 NEW j \in DOMAIN queuedToBeAdded
          PROVE  timedFunctions'[s][i].ask # queuedToBeAdded[j].ask
      BY <1>0, <2>4, <2>10 DEF Apart, ListsAndQueueApart
    <3>3. ListsApart'
      BY <3>1 DEF ListsApart
    <3>4. ListsAndQueueApart' /\ QueueApart'
      BY <1>0, <2>1, <3>2 DEF Apart, ListsAndQueueApart, QueueApart
    <3>5. QED
      BY <3>3, <3>4 DEF Apart
  <2>12. QED
    BY <1>6, <2>5, <2>6, <2>7, <2>8, <2>11 DEF TimedInv
<1>12. QED
  BY <1>10, <1>11

\* What was taken out has stopped; what stays is where it was, or nearer to the
\* front, and if it moved to what the tick has passed it is late.
LEMMA TakeOutInv ==
  ASSUME TimedInv, ScriptTurn, NEW u \in Uids, NEW fs, TakeOut(u, fs),
         UNCHANGED <<queuedToBeAdded, tickVars, asked, orphans, lost, faults>>,
         object' \in [Uids -> {"here", "deleted", "none"}]
  PROVE  TimedInv'
<1>0. /\ TimedTypeOK /\ TickControl /\ WaitingInLists /\ WaitingInQueue
      /\ Apart /\ RunsInTime
  BY DEF TimedInv
<1> DEFINE G(s) == Matching(timedFunctions[s], u, fs)
           halted == UNION {AsksOf(timedFunctions[s], u, fs) : s \in Slots}
<1>1. /\ timedFunctions' = [s \in Slots |-> Without(timedFunctions[s], G(s))]
      /\ stopped' = stopped \cup halted
      /\ overlooked' = overlooked \cup AsksOf(queuedToBeAdded, u, fs)
      /\ delayed' = IF \E i \in 1..Passed : List[i] \in G(curTick)
                    THEN delayed \cup NotReached ELSE delayed
  BY DEF TakeOut, List
<1>2. /\ curTick' = curTick /\ pc' = pc /\ it' = it /\ theEnd' = theEnd
      /\ isBeingProcessed' = isBeingProcessed /\ running' = running
      /\ asked' = asked /\ queuedToBeAdded' = queuedToBeAdded
      /\ delayed \subseteq delayed'
  BY <1>1 DEF tickVars
<1>3. \A n : n \in halted <=>
          \E s \in Slots : \E i \in DOMAIN timedFunctions[s] :
              /\ timedFunctions[s][i] \in G(s)
              /\ timedFunctions[s][i].ask = n
  BY DEF AsksOf, Matching
<1>4. ASSUME NEW s \in Slots, NEW i \in DOMAIN timedFunctions[s],
             NEW t \in Slots, NEW j \in DOMAIN timedFunctions[t],
             timedFunctions[s][i].ask = timedFunctions[t][j].ask
      PROVE  s = t /\ i = j
  BY <1>0, <1>4 DEF Apart, ListsApart
<1> HIDE DEF G, halted
\* Where the entry at i of the list s was
<1>5. ASSUME NEW s \in Slots
      PROVE  /\ timedFunctions'[s] \in Seq(Entry)
             /\ \E from : Picks(timedFunctions[s], G(s), timedFunctions'[s],
                                from, Len(timedFunctions[s]))
  <2>1. timedFunctions[s] \in Seq(Entry)
    BY <1>0 DEF TimedTypeOK
  <2>2. timedFunctions'[s] = Without(timedFunctions[s], G(s))
    BY <1>1
  <2>3. QED
    BY <2>1, <2>2, WithoutPicks
<1>6. ASSUME NEW s \in Slots, NEW i \in DOMAIN timedFunctions'[s]
      PROVE  \E k \in DOMAIN timedFunctions[s] :
                /\ i \in Nat \ {0} /\ i <= k
                /\ timedFunctions'[s][i] = timedFunctions[s][k]
                /\ timedFunctions[s][k] \notin G(s)
                /\ Turn(s, i) # Turn(s, k) =>
                      /\ timedFunctions[s][k].ask \in delayed'
                      /\ Turn(s, k) = 0 /\ Turn(s, i) = TicksPerSec
  <2>1. /\ timedFunctions[s] \in Seq(Entry) /\ timedFunctions'[s] \in Seq(Entry)
        /\ Len(timedFunctions[s]) \in Nat
        /\ DOMAIN timedFunctions[s] = 1..Len(timedFunctions[s])
        /\ DOMAIN timedFunctions'[s] = 1..Len(timedFunctions'[s])
    BY <1>0, <1>5 DEF TimedTypeOK
  <2>2. PICK from : Picks(timedFunctions[s], G(s), timedFunctions'[s], from,
                          Len(timedFunctions[s]))
    BY <1>5
  <2>3. PICK k \in DOMAIN timedFunctions[s] : k = from[i]
    BY <2>1, <2>2 DEF Picks
  <2>4. /\ i \in Nat \ {0} /\ k \in Nat \ {0} /\ i <= k
        /\ timedFunctions'[s][i] = timedFunctions[s][k]
        /\ timedFunctions[s][k] \notin G(s)
    BY <2>1, <2>2, <2>3 DEF Picks
  <2>5. ASSUME Turn(s, i) # Turn(s, k)
        PROVE  /\ timedFunctions[s][k].ask \in delayed'
               /\ Turn(s, k) = 0 /\ Turn(s, i) = TicksPerSec
    <3>1. /\ s = curTick /\ pc # "idle" /\ i < it /\ it <= k
          /\ it \in Nat \ {0}
          /\ Turn(s, k) = 0 /\ Turn(s, i) = TicksPerSec
      <4>1. it \in Nat \ {0} /\ curTick \in Nat /\ s \in Nat
        BY <1>0, TickNumbers DEF TimedTypeOK, Slots
      <4>2. QED
        BY <2>4, <2>5, <4>1, TickNumbers DEF Turn
    <3>2. List = timedFunctions[s]
      BY <3>1 DEF List
    <3>3. Passed = it - 1 /\ it - 1 \in 0..Len(timedFunctions[s])
      BY <2>1, <2>3, <3>1, <3>2 DEF Passed
    <3>4. PICK p \in 1..Passed : List[p] \in G(curTick)
      <4>1. SUFFICES ASSUME \A p \in 1..it - 1 :
                                timedFunctions[s][p] \notin G(s)
                     PROVE  FALSE
        BY <3>1, <3>2, <3>3
      <4>2. \A j \in 1..it - 1 : from[j] = j
        BY <2>2, <3>3, <4>1 DEF Picks
      <4>3. i \in 1..it - 1
        BY <2>4, <3>1
      <4>4. QED
        BY <2>3, <2>4, <3>1, <4>2, <4>3
    <3>5. delayed' = delayed \cup NotReached
      BY <1>1, <3>4
    <3>6. timedFunctions[s][k].ask \in NotReached
      <4>1. k \in it..Len(List)
        BY <2>1, <2>3, <2>4, <3>1, <3>2
      <4>2. QED
        BY <3>1, <3>2, <4>1 DEF NotReached
    <3>7. QED
      BY <3>1, <3>5, <3>6
  <2>6. QED
    BY <2>3, <2>4, <2>5
\* What stays has another number than what was taken out.
<1>7. ASSUME NEW s \in Slots, NEW k \in DOMAIN timedFunctions[s],
             timedFunctions[s][k] \notin G(s)
      PROVE  timedFunctions[s][k].ask \notin halted
  BY <1>3, <1>4, <1>7
<1>8. running.ask \notin halted
  BY <1>0, <1>3 DEF WaitingInLists, Fresh
<1>9. ASSUME NEW i \in DOMAIN queuedToBeAdded
      PROVE  queuedToBeAdded[i].ask \notin halted
  BY <1>0, <1>3 DEF Apart, ListsAndQueueApart
<1>10. TimedTypeOK'
  <2>1. timedFunctions' \in [Slots -> Seq(Entry)]
    <3>1. timedFunctions' = [s \in Slots |-> timedFunctions'[s]]
      BY <1>1
    <3>2. QED
      BY <1>5, <3>1
  <2>2. halted \subseteq 1..asked
    <3>1. ASSUME NEW s \in Slots, NEW i \in DOMAIN timedFunctions[s]
          PROVE  timedFunctions[s][i].ask \in 1..asked
      <4>1. timedFunctions[s][i].ask <= asked
        BY <1>0 DEF WaitingInLists, Fresh
      <4>2. timedFunctions[s][i].ask \in Asks
        BY <1>0, EntryIn DEF Entry
      <4>3. QED
        BY <1>0, <4>1, <4>2, TickNumbers DEF TimedTypeOK
    <3>2. QED
      BY <1>3, <3>1
  <2>3. AsksOf(queuedToBeAdded, u, fs) \subseteq AsksIn(queuedToBeAdded)
    BY DEF AsksOf, Matching, AsksIn
  <2>4. delayed' \subseteq 1..asked /\ overlooked' \subseteq 1..asked
    BY <1>0, <1>1, <2>3, WaitingNumbers DEF TimedTypeOK
  <2>5. stopped' \subseteq 1..asked
    BY <1>0, <1>1, <2>2 DEF TimedTypeOK
  <2>6. QED
    BY <1>0, <1>2, <2>1, <2>4, <2>5 DEF TimedTypeOK
<1>11. TickControl'
  <2>1. ASSUME theEnd PROVE timedFunctions'[curTick] = <<>>
    <3>1. curTick \in Slots /\ timedFunctions[curTick] = <<>>
      BY <1>0, <2>1 DEF TimedTypeOK, TickControl, List
    <3>2. DOMAIN timedFunctions'[curTick] = {}
      <4>1. SUFFICES ASSUME NEW i \in DOMAIN timedFunctions'[curTick]
                     PROVE  FALSE
        OBVIOUS
      <4>2. \E k \in DOMAIN timedFunctions[curTick] : TRUE
        BY <1>6, <3>1
      <4>3. QED
        BY <3>1, <4>2
    <3>3. timedFunctions'[curTick] \in Seq(Entry)
      BY <1>5, <3>1
    <3>4. QED
      BY <3>2, <3>3
  <2>2. QED
    BY <1>0, <1>2, <2>1 DEF TickControl, List
<1>12. WaitingInLists'
  <2>1. SUFFICES ASSUME NEW s \in Slots, NEW i \in DOMAIN timedFunctions'[s]
                 PROVE  /\ OnCourse(timedFunctions'[s][i], Turn(s, i)',
                                    delayed')
                        /\ Fresh(timedFunctions'[s][i].ask, asked', stopped',
                                 running'.ask)
    BY DEF WaitingInLists
  <2>2. Turn(s, i)' = Turn(s, i)
    BY <1>2 DEF Turn
  <2>3. PICK k \in DOMAIN timedFunctions[s] :
                /\ i \in Nat \ {0} /\ i <= k
                /\ timedFunctions'[s][i] = timedFunctions[s][k]
                /\ timedFunctions[s][k] \notin G(s)
                /\ Turn(s, i) # Turn(s, k) =>
                      /\ timedFunctions[s][k].ask \in delayed'
                      /\ Turn(s, k) = 0 /\ Turn(s, i) = TicksPerSec
    BY <1>6
  <2> DEFINE e == timedFunctions[s][k]
  <2>4. /\ OnCourse(e, Turn(s, k), delayed)
        /\ Fresh(e.ask, asked, stopped, running.ask)
    BY <1>0 DEF WaitingInLists
  <2>5. e \in Entry /\ e.wait \in Int /\ e.ask \notin halted
    BY <1>0, <1>7, <2>3, EntryIn
  <2>6. Fresh(e.ask, asked', stopped', running'.ask)
    BY <1>1, <1>2, <2>4, <2>5 DEF Fresh
  <2> HIDE DEF e
  <2>7. OnCourse(e, Turn(s, i), delayed')
    <3>1. CASE Turn(s, i) = Turn(s, k)
      BY <1>2, <2>4, <3>1 DEF OnCourse
    <3>2. CASE Turn(s, i) # Turn(s, k)
      <4>1. e.ask \in delayed' /\ Turn(s, k) = 0 /\ Turn(s, i) = TicksPerSec
        BY <2>3, <3>2 DEF e
      <4>2. TicksPerSec * Rounds(e) \in Nat
        BY <2>5, RoundsDo
      <4>3. QED
        BY <2>4, <2>5, <4>1, <4>2, TickNumbers DEF OnCourse
    <3>3. QED
      BY <3>1, <3>2
  <2>8. QED
    BY <2>2, <2>3, <2>6, <2>7 DEF e
<1>13. WaitingInQueue'
  <2>1. ASSUME NEW i \in DOMAIN queuedToBeAdded
        PROVE  /\ OnCourse(queuedToBeAdded[i], TicksPerSec, delayed')
               /\ Fresh(queuedToBeAdded[i].ask, asked', stopped',
                        running'.ask)
               /\ pc = "idle" => queuedToBeAdded[i].ask \in delayed'
    <3>1. /\ OnCourse(queuedToBeAdded[i], TicksPerSec, delayed)
          /\ Fresh(queuedToBeAdded[i].ask, asked, stopped, running.ask)
          /\ pc = "idle" => queuedToBeAdded[i].ask \in delayed
      BY <1>0 DEF WaitingInQueue
    <3>2. QED
      BY <1>1, <1>2, <1>9, <3>1 DEF OnCourse, Fresh
  <2>2. QED
    BY <1>2, <2>1 DEF WaitingInQueue
<1>14. Apart'
  <2>1. ASSUME NEW s \in Slots, NEW i \in DOMAIN timedFunctions'[s],
               NEW t \in Slots, NEW j \in DOMAIN timedFunctions'[t],
               timedFunctions'[s][i].ask = timedFunctions'[t][j].ask
        PROVE  s = t /\ i = j
    <3>1. s = t
      BY <1>4, <1>6, <2>1
    <3>2. PICK from : Picks(timedFunctions[s], G(s), timedFunctions'[s], from,
                            Len(timedFunctions[s]))
      BY <1>5
    <3>3. /\ i \in 1..Len(timedFunctions'[s])
          /\ j \in 1..Len(timedFunctions'[s])
          /\ DOMAIN timedFunctions[s] = 1..Len(timedFunctions[s])
      BY <1>0, <1>5, <3>1 DEF TimedTypeOK
    <3>4. /\ from[i] \in DOMAIN timedFunctions[s]
          /\ from[j] \in DOMAIN timedFunctions[s]
          /\ timedFunctions'[s][i] = timedFunctions[s][from[i]]
          /\ timedFunctions'[s][j] = timedFunctions[s][from[j]]
      BY <3>2, <3>3 DEF Picks
    <3>5. from[i] = from[j]
      BY <1>4, <2>1, <3>1, <3>4
    <3>6. QED
      BY <3>1, <3>2, <3>3, <3>5 DEF Picks
  <2>2. ASSUME NEW s \in Slots, NEW i \in DOMAIN timedFunctions'[s],
               NEW j \in DOMAIN queuedToBeAdded
        PROVE  timedFunctions'[s][i].ask # queuedToBeAdded[j].ask
    BY <1>0, <1>6 DEF Apart, ListsAndQueueApart
  <2>3. ListsApart'
    BY <2>1 DEF ListsApart
  <2>4. ListsAndQueueApart' /\ QueueApart'
    BY <1>0, <1>2, <2>2 DEF Apart, ListsAndQueueApart, QueueApart
  <2>5. QED
    BY <2>3, <2>4 DEF Apart
<1>15. RunsInTime'
  BY <1>0, <1>1, <1>2, <1>8 DEF RunsInTime
<1>16. QED
  BY <1>10, <1>11, <1>12, <1>13, <1>14, <1>15 DEF TimedInv

LEMMA ScriptInv == TimedInv /\ Script => TimedInv'
<1> SUFFICES ASSUME TimedInv, Script PROVE TimedInv'
  OBVIOUS
<1>0. object \in [Uids -> {"here", "deleted", "none"}]
  BY DEF TimedInv, TimedTypeOK
<1>1. ASSUME NEW u \in Uids, NEW f \in Funcs, NEW n \in Seconds, Add(u, n, f)
      PROVE  TimedInv'
  BY <1>1, AddInv
<1>2. ASSUME NEW u \in Uids, NEW f \in Funcs, Stop(u, f) PROVE TimedInv'
  BY <1>0, <1>2, TakeOutInv DEF Stop
<1>3. ASSUME NEW u \in Uids, Erase(u) PROVE TimedInv'
  BY <1>0, <1>3, TakeOutInv DEF Erase
<1>4. ASSUME NEW u \in Uids, Delete(u) PROVE TimedInv'
  <2>1. object' \in [Uids -> {"here", "deleted", "none"}]
    BY <1>0, <1>4 DEF Delete
  <2>2. QED
    BY <1>4, <2>1, TakeOutInv DEF Delete
<1>5. ASSUME NEW u \in Uids, Create(u) PROVE TimedInv'
  BY <1>5, CreateInv
<1>6. CASE DeleteAll
  BY <1>6, DeleteAllInv
<1>7. QED
  BY <1>1, <1>2, <1>3, <1>4, <1>5, <1>6 DEF Script

LEMMA TimedInvNext == TimedInv /\ [TimedNext]_timedVars => TimedInv'
<1> SUFFICES ASSUME TimedInv, [TimedNext]_timedVars PROVE TimedInv'
  OBVIOUS
<1>1. CASE OnTick
  BY <1>1, BeginTickInv, CountDownInv, CallInv, ReturnInv, EndTickInv,
     OverrunInv
  DEF OnTick
<1>2. CASE GiveUp
  BY <1>2, GiveUpInv
<1>3. CASE Script
  BY <1>3, ScriptInv
<1>4. CASE Restart
  BY <1>4, RestartInv
<1>5. CASE UNCHANGED timedVars
  <2> USE <1>5 DEF timedVars, tickVars, ghostVars
  <2>1. WaitingInLists' /\ WaitingInQueue' /\ Apart'
    BY QuietInv
  <2>2. TimedTypeOK'
    BY DEF TimedInv, TimedTypeOK, listVars
  <2>3. TickControl' /\ RunsInTime'
    BY DEF TimedInv, TickControl, RunsInTime, List, listVars
  <2>4. QED
    BY <2>1, <2>2, <2>3 DEF TimedInv
<1>6. QED
  BY <1>1, <1>2, <1>3, <1>4, <1>5 DEF TimedNext

LEMMA TimedInvariance == TimedSpec => []TimedInv
<1>1. TimedInit => TimedInv
  BY InitTimed
<1>2. TimedInv /\ [TimedNext]_timedVars => TimedInv'
  BY TimedInvNext
<1>3. QED
  BY <1>1, <1>2, PTL DEF TimedSpec

\* The lists, the queue and the iterator keep their types: no list is longer
\* than the number of functions that were asked for.
THEOREM TimedTypeCorrect == TimedSpec => []TimedTypeOK
<1>1. TimedInv => TimedTypeOK
  BY DEF TimedInv
<1>2. QED
  BY <1>1, TimedInvariance, PTL

\* Whatever scripts ask for, stop, remove or break off, for any number of ticks
\* in a second, functions and objects: no function is called too soon, and none
\* too late but those that a tick did not come to.
THEOREM CalledInTime == TimedSpec => []OnTime
<1>1. TimedInv => OnTime
  BY DEF TimedInv, RunsInTime, OnTime
<1>2. QED
  BY <1>1, TimedInvariance, PTL

\* What a script that stops it, or the removal of its object, took out of one of
\* the lists is never called after that: not what waits in the queue then.
THEOREM NeverCalledOnceStopped == TimedSpec => []StoppedStays
<1>1. TimedInv => StoppedStays
  BY DEF TimedInv, RunsInTime, StoppedStays
<1>2. QED
  BY <1>1, TimedInvariance, PTL
=============================================================================
