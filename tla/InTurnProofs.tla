----------------------------- MODULE InTurnProofs -----------------------------
(***************************************************************************)
(* Secure trade and the address history: two parts whose handlers do one   *)
(* thing after the other, in loops over what is in a window, the windows   *)
(* that somebody wears, or the clients to delete.                          *)
(*                                                                         *)
(* For any players and items: the types, that windows come and go in pairs *)
(* with what is in them, that nothing changes hands unseen, and that only  *)
(* what is too heavy or refused is lost.  For any addresses, slots and     *)
(* clients: the types, and in which two ways alone counts go wrong.        *)
(*                                                                         *)
(* The lemmas say what such a loop keeps (InTurnStays), what it does to    *)
(* places (GivesBack) and counts (DeletedCounts), and that who has more    *)
(* has the greater weight (CarriedWeighs); the handlers are then put       *)
(* together from them.                                                     *)
(***************************************************************************)
EXTENDS Trade, IPHistory, WellFoundedInduction, FiniteSetTheorems, TLAPS

-----------------------------------------------------------------------------
(* What is done in turn *)

\* A set of numbers that is not empty has a least one.
LEMMA Least ==
  ASSUME NEW S \in SUBSET Nat, S # {}
  PROVE  \E s \in S : \A r \in S : s <= r
<1> DEFINE R == OpToRel(<, Nat)
<1>1. IsWellFoundedOn(R, Nat)
  BY NatLessThanWellFounded
<1>2. \A r, q \in Nat : r < q => <<r, q>> \in R
  BY DEF OpToRel
<1> HIDE DEF R
<1>3. PICK s \in S : \A r \in S : ~(<<r, s>> \in R)
  BY <1>1, WFMin
<1>4. ASSUME NEW r \in S PROVE s <= r
  <2>1. ~(r < s)
    BY <1>2, <1>3
  <2>2. QED
    BY <2>1
<1>5. QED
  BY <1>4

\* f[n] is what has come of at after the first n of s.
After(step, at, s, f, n) == IF n = 0 THEN at ELSE step[s[n]][f[n - 1]]
Runs(step, at, s, f, m) == f = [n \in 0..m |-> After(step, at, s, f, n)]

LEMMA RunExists ==
  ASSUME NEW step, NEW at, NEW s, NEW m \in Nat
  PROVE  \E f : Runs(step, at, s, f, m)
<1> DEFINE Bad == {n \in Nat : ~\E f : Runs(step, at, s, f, n)}
<1>1. SUFFICES ASSUME Bad # {} PROVE FALSE
  OBVIOUS
<1>2. PICK n \in Bad : \A k \in Bad : n <= k
  <2>1. Bad \in SUBSET Nat
    OBVIOUS
  <2> HIDE DEF Bad
  <2>2. QED
    BY <1>1, <2>1, Least
<1>3. CASE n = 0
  <2> DEFINE g == [k \in 0..0 |-> at]
  <2>1. Runs(step, at, s, g, 0)
    BY DEF Runs, After
  <2>2. QED
    BY <1>2, <1>3, <2>1
<1>4. CASE n # 0
  <2>1. n - 1 \in Nat /\ n - 1 \notin Bad
    BY <1>2, <1>4
  <2>2. PICK f : Runs(step, at, s, f, n - 1)
    BY <2>1
  <2> DEFINE g == [k \in 0..n |-> IF k = n THEN After(step, at, s, f, n)
                                  ELSE f[k]]
  <2>3. ASSUME NEW k \in 0..n PROVE g[k] = After(step, at, s, g, k)
    <3>1. k # 0 => k - 1 \in 0..n - 1 /\ g[k - 1] = f[k - 1]
      BY <2>1
    <3>2. After(step, at, s, g, k) = After(step, at, s, f, k)
      BY <3>1 DEF After
    <3>3. k # n => f[k] = After(step, at, s, f, k)
      <4>1. SUFFICES ASSUME k # n PROVE f[k] = After(step, at, s, f, k)
        OBVIOUS
      <4>2. k \in 0..n - 1
        BY <2>1, <4>1
      <4>3. QED
        BY <2>2, <4>2 DEF Runs
    <3>4. QED
      BY <3>2, <3>3
  <2>4. Runs(step, at, s, g, n)
    BY <2>3 DEF Runs
  <2>5. QED
    BY <1>2, <2>4
<1>5. QED
  BY <1>3, <1>4

LEMMA InTurnRuns ==
  ASSUME NEW step, NEW at, NEW s, Len(s) \in Nat
  PROVE  \E f : /\ f[0] = at
                /\ \A n \in 1..Len(s) : f[n] = step[s[n]][f[n - 1]]
                /\ InTurn(step, at, s) = f[Len(s)]
<1> DEFINE upTo[n \in 0..Len(s)] ==
             IF n = 0 THEN at ELSE step[s[n]][upTo[n - 1]]
<1>1. InTurn(step, at, s) = upTo[Len(s)]
  BY DEF InTurn
<1>2. Runs(step, at, s, upTo, Len(s))
  <2>1. \E f : f = [n \in 0..Len(s) |->
                      IF n = 0 THEN at ELSE step[s[n]][f[n - 1]]]
    <3>1. PICK f : Runs(step, at, s, f, Len(s))
      BY RunExists
    <3>2. QED
      BY <3>1 DEF Runs, After
  <2>2. QED
    BY <2>1 DEF Runs, After
<1> HIDE DEF upTo
<1>3. \A n \in 0..Len(s) : upTo[n] = After(step, at, s, upTo, n)
  BY <1>2 DEF Runs
<1>4. upTo[0] = at
  BY <1>3 DEF After
<1>5. ASSUME NEW n \in 1..Len(s) PROVE upTo[n] = step[s[n]][upTo[n - 1]]
  <2>1. n \in 0..Len(s) /\ n # 0
    OBVIOUS
  <2>2. QED
    BY <1>3, <2>1 DEF After
<1>6. QED
  BY <1>1, <1>4, <1>5

\* What holds at first, of the states P[0], and is brought by each step from the
\* states P[n - 1] to P[n], is among P[Len(s)] in the end.
LEMMA InTurnStays ==
  ASSUME NEW step, NEW at, NEW s, Len(s) \in Nat, NEW P, at \in P[0],
         \A n \in 1..Len(s) : \A p \in P[n - 1] : step[s[n]][p] \in P[n]
  PROVE  InTurn(step, at, s) \in P[Len(s)]
<1>1. PICK f : /\ f[0] = at
               /\ \A n \in 1..Len(s) : f[n] = step[s[n]][f[n - 1]]
               /\ InTurn(step, at, s) = f[Len(s)]
  BY InTurnRuns
<1> DEFINE Bad == {n \in 0..Len(s) : f[n] \notin P[n]}
<1>2. SUFFICES ASSUME Bad # {} PROVE FALSE
  BY <1>1
<1>3. PICK n \in Bad : \A k \in Bad : n <= k
  <2>1. Bad \in SUBSET Nat
    OBVIOUS
  <2> HIDE DEF Bad
  <2>2. QED
    BY <1>2, <2>1, Least
<1>4. n # 0
  BY <1>1, <1>3
<1>5. n \in 1..Len(s) /\ n - 1 \in 0..Len(s) /\ ~(n <= n - 1)
  BY <1>3, <1>4
<1>6. n - 1 \notin Bad
  BY <1>3, <1>5
<1>7. f[n - 1] \in P[n - 1]
  BY <1>5, <1>6
<1>8. QED
  BY <1>1, <1>3, <1>5, <1>7

-----------------------------------------------------------------------------
(* Orders and weights *)

\* In what comes of ordering a finite set there is all of it, and nothing else.
LEMMA OrderHasAll ==
  ASSUME NEW S, IsFiniteSet(S), NEW s \in Orders(S)
  PROVE  /\ Len(s) \in Nat
         /\ \A n \in 1..Len(s) : s[n] \in S
         /\ \A x \in S : \E n \in 1..Len(s) : s[n] = x
<1>1. Cardinality(S) \in Nat
  BY FS_CardinalityType
<1>2. /\ s \in [1..Cardinality(S) -> S]
      /\ \A x \in S : \E n \in 1..Cardinality(S) : s[n] = x
  BY DEF Orders, Bijection, Injection, Surjection
<1>3. Len(s) = Cardinality(S)
  BY <1>1, <1>2
<1>4. QED
  BY <1>1, <1>2, <1>3

LEMMA AllItemsAreThere ==
  /\ Len(AllItems) \in Nat
  /\ \A n \in 1..Len(AllItems) : AllItems[n] \in Items
<1>1. IsFiniteSet(Items)
  BY WorldAssumption
<1>2. Orders(Items) # {}
  BY <1>1, FS_CardinalityType DEF Orders, ExistsBijection
<1>3. AllItems \in Orders(Items)
  BY <1>2 DEF AllItems
<1>4. QED
  BY <1>1, <1>3, OrderHasAll

Weigh(at, c) == [i \in Items |-> [n \in Nat |->
                    IF Carried(at, c, i) THEN n + Weight[i] ELSE n]]

LEMMA WeighDoes ==
  ASSUME NEW at, NEW c, NEW i \in Items, NEW n \in Nat
  PROVE  /\ Weigh(at, c)[i][n] \in Nat /\ Weight[i] \in Nat
         /\ Carried(at, c, i) => Weigh(at, c)[i][n] = n + Weight[i]
         /\ ~Carried(at, c, i) => Weigh(at, c)[i][n] = n
<1>1. Weigh(at, c)[i] = [k \in Nat |->
                            IF Carried(at, c, i) THEN k + Weight[i] ELSE k]
  BY DEF Weigh
<1>2. Weight[i] \in Nat
  BY WeightAssumption
<1>3. Weigh(at, c)[i][n] = IF Carried(at, c, i) THEN n + Weight[i] ELSE n
  BY <1>1
<1>4. CASE Carried(at, c, i)
  BY <1>2, <1>3, <1>4
<1>5. CASE ~Carried(at, c, i)
  BY <1>2, <1>3, <1>5
<1>6. QED
  BY <1>4, <1>5

\* Who carries more has the greater weight.
LEMMA CarriedWeighs ==
  ASSUME NEW p, NEW q, NEW c, NEW d,
         \A i \in Items : Carried(p, c, i) => Carried(q, d, i)
  PROVE  /\ TotalWeight(p, c) \in Nat /\ TotalWeight(q, d) \in Nat
         /\ TotalWeight(p, c) <= TotalWeight(q, d)
<1> DEFINE s == AllItems
<1>1. /\ TotalWeight(p, c) = InTurn(Weigh(p, c), 0, s)
      /\ TotalWeight(q, d) = InTurn(Weigh(q, d), 0, s)
  BY DEF TotalWeight, Weigh
<1>4. Len(s) \in Nat /\ \A n \in 1..Len(s) : s[n] \in Items
  BY AllItemsAreThere
<1>2. ASSUME NEW i \in Items, NEW k \in Nat, NEW m \in Nat, k <= m
      PROVE  /\ Weigh(p, c)[i][k] \in Nat /\ Weigh(q, d)[i][m] \in Nat
             /\ Weigh(p, c)[i][k] <= Weigh(q, d)[i][m]
  <2>1. Carried(p, c, i) => Carried(q, d, i)
    OBVIOUS
  <2>2. /\ Weigh(p, c)[i][k] \in Nat /\ Weight[i] \in Nat
        /\ Carried(p, c, i) => Weigh(p, c)[i][k] = k + Weight[i]
        /\ ~Carried(p, c, i) => Weigh(p, c)[i][k] = k
    BY WeighDoes
  <2>3. /\ Weigh(q, d)[i][m] \in Nat
        /\ Carried(q, d, i) => Weigh(q, d)[i][m] = m + Weight[i]
        /\ ~Carried(q, d, i) => Weigh(q, d)[i][m] = m
    BY WeighDoes
  <2>4. QED
    BY <1>2, <2>1, <2>2, <2>3
<1> HIDE DEF s
<1>5. InTurn(Weigh(p, c), 0, s) \in Nat
  <2> DEFINE P == [n \in 0..Len(s) |-> Nat]
  <2>1. 0 \in P[0] /\ P[Len(s)] = Nat
    BY <1>4
  <2>2. ASSUME NEW n \in 1..Len(s), NEW m \in P[n - 1]
        PROVE  Weigh(p, c)[s[n]][m] \in P[n]
    <3>1. n \in 0..Len(s) /\ n - 1 \in 0..Len(s) /\ m \in Nat
      BY <1>4
    <3>2. QED
      BY <1>2, <1>4, <3>1
  <2> HIDE DEF P
  <2>3. QED
    BY <1>4, <2>1, <2>2, InTurnStays
<1>6. PICK f : /\ f[0] = 0
               /\ \A n \in 1..Len(s) : f[n] = Weigh(p, c)[s[n]][f[n - 1]]
               /\ InTurn(Weigh(p, c), 0, s) = f[Len(s)]
  BY <1>4, InTurnRuns
<1> DEFINE P == [n \in 0..Len(s) |-> {m \in Nat : f[n] \in Nat /\ f[n] <= m}]
<1>7. 0 \in P[0]
  BY <1>4, <1>6
<1>8. ASSUME NEW n \in 1..Len(s), NEW m \in P[n - 1]
      PROVE  Weigh(q, d)[s[n]][m] \in P[n]
  <2>1. n \in 0..Len(s) /\ n - 1 \in 0..Len(s) /\ s[n] \in Items
    BY <1>4
  <2>2. m \in Nat /\ f[n - 1] \in Nat /\ f[n - 1] <= m
    BY <2>1
  <2> HIDE DEF P
  <2>3. f[n] = Weigh(p, c)[s[n]][f[n - 1]]
    BY <1>6
  <2>4. /\ Weigh(p, c)[s[n]][f[n - 1]] \in Nat /\ Weigh(q, d)[s[n]][m] \in Nat
        /\ Weigh(p, c)[s[n]][f[n - 1]] <= Weigh(q, d)[s[n]][m]
    BY <1>2, <2>1, <2>2
  <2>5. QED
    BY <2>1, <2>3, <2>4 DEF P
<1>9. P[Len(s)] = {m \in Nat : f[Len(s)] \in Nat /\ f[Len(s)] <= m}
  BY <1>4
<1> HIDE DEF P
<1>10. InTurn(Weigh(q, d), 0, s) \in P[Len(s)]
  BY <1>4, <1>7, <1>8, InTurnStays
<1>11. QED
  BY <1>1, <1>5, <1>6, <1>9, <1>10

\* What who carries less cannot take on top, who carries more cannot either.
LEMMA CarryLess ==
  ASSUME NEW p, NEW q, NEW c \in Chars, NEW i \in Items, CanCarry(q, c, i),
         \A j \in Items : Carried(p, c, j) => Carried(q, c, j)
  PROVE  CanCarry(p, c, i)
<1>1. /\ TotalWeight(p, c) \in Nat /\ TotalWeight(q, c) \in Nat
      /\ TotalWeight(p, c) <= TotalWeight(q, c)
  BY CarriedWeighs
<1>2. Weight[i] \in Nat /\ MaxCarry[c] \in Nat
  BY WeightAssumption, CarryAssumption
<1>3. QED
  BY <1>1, <1>2 DEF CanCarry

\* An item stays where it is when c cannot carry it, or when it is refused.
Held(at, c, i, R) == ~CanCarry(at, c, i) \/ <<c, i>> \in R

LEMMA HeldMore ==
  ASSUME NEW p, NEW q, NEW c \in Chars, NEW i \in Items, NEW R, NEW S,
         Held(p, c, i, R), R \subseteq S,
         \A j \in Items : Carried(p, c, j) => Carried(q, c, j)
  PROVE  Held(q, c, i, S)
  BY CarryLess DEF Held

-----------------------------------------------------------------------------
(* Places *)

LEMMA PlacesApart ==
  /\ Corpse # Lost
  /\ \A c : Pack(c) # Corpse /\ Pack(c) # Lost
  /\ \A w : In(w) # Corpse /\ In(w) # Lost
  /\ \A c, w : Pack(c) # In(w)
  /\ \A c, d : Pack(c) = Pack(d) => c = d
<1>1. /\ \A c : Pack(c)[1] = "pack" /\ Pack(c)[2] = c
      /\ \A w : In(w)[1] = "window"
      /\ Corpse[1] = "corpse" /\ Lost[1] = "lost"
  BY DEF Pack, In, Corpse, Lost
<1>2. /\ "pack" # "window" /\ "pack" # "corpse" /\ "pack" # "lost"
      /\ "window" # "corpse" /\ "window" # "lost" /\ "corpse" # "lost"
  OBVIOUS
<1>3. /\ Corpse # Lost
      /\ \A c : Pack(c) # Corpse /\ Pack(c) # Lost
      /\ \A w : In(w) # Corpse /\ In(w) # Lost
      /\ \A c, w : Pack(c) # In(w)
  BY <1>1, <1>2
<1>4. \A c, d : Pack(c) = Pack(d) => c = d
  BY <1>1
<1>5. QED
  BY <1>3, <1>4

LEMMA WindowsApart ==
  /\ \A w \in Windows : /\ w[1] \in Chars /\ w[2] \in Chars /\ w[1] # w[2]
                        /\ w = <<w[1], w[2]>>
                        /\ Other(w) \in Windows /\ Other(w) # w
                        /\ Other(w)[1] = w[2] /\ Other(w)[2] = w[1]
                        /\ Other(Other(w)) = w
                        /\ Pair(w) = {w, Other(w)}
  /\ \A w, x \in Windows : In(w) = In(x) => w = x
  /\ \A c \in Chars : Pack(c) \in Places
  /\ \A w \in Windows : In(w) \in Places
  /\ Corpse \in Places /\ Lost \in Places
<1>1. \A w \in Windows : /\ w[1] \in Chars /\ w[2] \in Chars /\ w[1] # w[2]
                         /\ w = <<w[1], w[2]>>
  BY DEF Windows
<1>2. \A w \in Windows : Other(w)[1] = w[2] /\ Other(w)[2] = w[1]
  BY DEF Other
<1>3. ASSUME NEW w \in Windows
      PROVE  /\ Other(w) \in Windows /\ Other(w) # w /\ Other(Other(w)) = w
             /\ Pair(w) = {w, Other(w)}
  <2>1. Other(w) \in Windows
    BY <1>1, <1>2 DEF Windows, Other
  <2>2. Other(w) # w
    BY <1>1, <1>2
  <2>3. Other(Other(w)) = w
    BY <1>1, <1>2 DEF Other
  <2>4. QED
    BY <2>1, <2>2, <2>3 DEF Pair
<1>4. ASSUME NEW w \in Windows, NEW x \in Windows, In(w) = In(x)
      PROVE  w = x
  <2>1. In(w)[2] = w[1] /\ In(w)[3] = w[2] /\ In(x)[2] = x[1] /\ In(x)[3] = x[2]
    BY DEF In
  <2>2. QED
    BY <1>1, <1>4, <2>1
<1>5. QED
  BY <1>1, <1>2, <1>3, <1>4 DEF Places

LEMMA CarriedInWindow ==
  ASSUME NEW p, NEW i, NEW w \in Windows, p[i] = In(w), NEW c
  PROVE  Carried(p, c, i) <=> c = w[1]
<1>1. p[i] # Pack(c)
  BY PlacesApart
<1>2. \A x \in Windows : p[i] = In(x) <=> x = w
  BY WindowsApart
<1>3. QED
  BY <1>1, <1>2 DEF Carried

LEMMA CarriedElsewhere ==
  ASSUME NEW p, NEW i, NEW c
  PROVE  /\ \A d : p[i] = Pack(d) => (Carried(p, c, i) <=> c = d)
         /\ p[i] = Lost => ~Carried(p, c, i)
         /\ p[i] = Corpse => ~Carried(p, c, i)
  BY PlacesApart DEF Carried

\* Who carries an item depends on its place only.
LEMMA SamePlace ==
  ASSUME NEW p, NEW q, NEW i, p[i] = q[i], NEW c
  PROVE  Carried(p, c, i) <=> Carried(q, c, i)
  BY DEF Carried

-----------------------------------------------------------------------------
(* Giving back *)

\* What is in the windows W goes back to who wears them, or is lost with them;
\* and nothing is lost but what he cannot carry on top of all that he has, and
\* what is refused, R.
GoesBack(at, to, W) ==
    \A i \in Items :
        \/ to[i] = at[i]
        \/ \E y \in W : at[i] = In(y) /\ to[i] \in {Pack(y[1]), Lost}
LostHeavy(at, to, R) ==
    \A i \in Items, x \in Windows :
        at[i] = In(x) /\ to[i] = Lost => Held(at, x[1], i, R)
GivesBack(at, to, W, R) == GoesBack(at, to, W) /\ LostHeavy(at, to, R)

LEMMA GoesBackCarried ==
  ASSUME NEW at, NEW to, NEW W \in SUBSET Windows, GoesBack(at, to, W),
         NEW c, NEW i \in Items
  PROVE  /\ Carried(to, c, i) => Carried(at, c, i)
         /\ to[i] # Lost => (Carried(at, c, i) => Carried(to, c, i))
<1>1. CASE to[i] = at[i]
  BY <1>1, SamePlace
<1>2. CASE to[i] # at[i]
  <2>1. PICK y \in W : at[i] = In(y) /\ to[i] \in {Pack(y[1]), Lost}
    BY <1>2 DEF GoesBack
  <2>2. y \in Windows /\ (Carried(at, c, i) <=> c = y[1])
    BY <2>1, CarriedInWindow
  <2>3. CASE to[i] = Lost
    BY <2>3, CarriedElsewhere
  <2>4. CASE to[i] = Pack(y[1])
    BY <2>2, <2>4, CarriedElsewhere
  <2>5. QED
    BY <2>1, <2>3, <2>4
<1>3. QED
  BY <1>1, <1>2

LEMMA GivesBackNothing ==
  ASSUME NEW at, NEW W, NEW R
  PROVE  GivesBack(at, at, W, R)
<1>1. ASSUME NEW i \in Items, NEW x \in Windows, at[i] = In(x)
      PROVE  at[i] # Lost
  BY <1>1, PlacesApart
<1>2. QED
  BY <1>1 DEF GivesBack, GoesBack, LostHeavy

\* Where something is in a window afterwards, it was before.
LEMMA GoesBackIn ==
  ASSUME NEW at, NEW to, NEW W \in SUBSET Windows, GoesBack(at, to, W),
         NEW i \in Items
  PROVE  /\ \A w \in Windows : to[i] = In(w) => at[i] = In(w)
         /\ \A w \in Windows : at[i] = In(w) /\ w \notin W => to[i] = In(w)
         /\ at[i] = Lost => to[i] = Lost
<1>1. CASE to[i] = at[i]
  BY <1>1
<1>2. CASE to[i] # at[i]
  <2>1. PICK y \in W : at[i] = In(y) /\ to[i] \in {Pack(y[1]), Lost}
    BY <1>2 DEF GoesBack
  <2>2. QED
    BY <2>1, PlacesApart, WindowsApart
<1>3. QED
  BY <1>1, <1>2

LEMMA GivesBackTwice ==
  ASSUME NEW at, NEW mid, NEW to, NEW W \in SUBSET Windows, NEW R,
         GivesBack(at, mid, W, R), GivesBack(mid, to, W, R)
  PROVE  GivesBack(at, to, W, R)
<1>0. GoesBack(at, mid, W) /\ GoesBack(mid, to, W)
      /\ LostHeavy(at, mid, R) /\ LostHeavy(mid, to, R)
  BY DEF GivesBack
<1>1. ASSUME NEW i \in Items
      PROVE  \/ to[i] = at[i]
             \/ \E y \in W : at[i] = In(y) /\ to[i] \in {Pack(y[1]), Lost}
  <2>1. CASE to[i] = mid[i]
    BY <1>0, <2>1 DEF GoesBack
  <2>2. CASE to[i] # mid[i]
    <3>1. PICK y \in W : mid[i] = In(y) /\ to[i] \in {Pack(y[1]), Lost}
      BY <1>0, <2>2 DEF GoesBack
    <3>2. at[i] = In(y)
      BY <1>0, <3>1, GoesBackIn
    <3>3. QED
      BY <3>1, <3>2
  <2>3. QED
    BY <2>1, <2>2
<1>2. ASSUME NEW i \in Items, NEW x \in Windows, at[i] = In(x), to[i] = Lost
      PROVE  Held(at, x[1], i, R)
  <2>1. CASE mid[i] = Lost
    BY <1>0, <1>2, <2>1 DEF LostHeavy
  <2>2. CASE mid[i] # Lost
    <3>1. PICK y \in W : mid[i] = In(y)
      BY <1>0, <1>2, <2>2 DEF GoesBack
    <3>2. at[i] = In(y) /\ y \in Windows
      BY <1>0, <3>1, GoesBackIn
    <3>3. x = y
      BY <1>2, <3>2, WindowsApart
    <3>4. Held(mid, x[1], i, R) /\ x[1] \in Chars
      BY <1>0, <1>2, <3>1, <3>3, WindowsApart DEF LostHeavy
    <3>5. \A j \in Items : Carried(mid, x[1], j) => Carried(at, x[1], j)
      BY <1>0, GoesBackCarried
    <3>6. QED
      BY <3>4, <3>5, HeldMore
  <2>3. QED
    BY <2>1, <2>2
<1>3. QED
  BY <1>1, <1>2 DEF GivesBack, GoesBack, LostHeavy

LEMMA GivesBackMore ==
  ASSUME NEW at, NEW to, NEW W, NEW V, W \subseteq V, NEW R, NEW S,
         R \subseteq S, GivesBack(at, to, W, R)
  PROVE  GivesBack(at, to, V, S)
<1>1. GoesBack(at, to, V)
  BY DEF GivesBack, GoesBack
<1>2. LostHeavy(at, to, S)
  BY DEF GivesBack, LostHeavy, Held
<1>3. QED
  BY <1>1, <1>2 DEF GivesBack

-----------------------------------------------------------------------------
(* What a window's content does *)

\* s has all that is in windows.
Covers(s, at) ==
    /\ Len(s) \in Nat /\ \A n \in 1..Len(s) : s[n] \in Items
    /\ \A i \in Items, w \in Windows :
          at[i] = In(w) => \E n \in 1..Len(s) : s[n] = i

LEMMA StillCovers ==
  ASSUME NEW at, NEW to, NEW s, Covers(s, at),
         \A i \in Items, w \in Windows : to[i] = In(w) => at[i] = In(w)
  PROVE  Covers(s, to)
  BY DEF Covers

\* From w to the pack of c
Bounced(at, to, w, c) ==
    \A i \in Items : to[i] = at[i] \/ (at[i] = In(w) /\ to[i] = Pack(c))

LEMMA ItemBounceDoes ==
  ASSUME NEW p \in Placements, NEW c \in Chars, NEW i \in Items, NEW R,
         NEW q, q = ItemBounce(R, p, c, i)
  PROVE  /\ q \in Placements
         /\ \A j \in Items : j # i => q[j] = p[j]
         /\ q[i] = Pack(c) \/ (q = p /\ Held(p, c, i, R))
<1>1. Pack(c) \in Places
  BY WindowsApart
<1>2. CASE ~Held(p, c, i, R)
  <2>1. q = [p EXCEPT ![i] = Pack(c)]
    BY <1>2 DEF ItemBounce, Held
  <2>2. QED
    BY <1>1, <2>1 DEF Placements
<1>3. CASE Held(p, c, i, R)
  BY <1>3 DEF ItemBounce, Held
<1>4. QED
  BY <1>2, <1>3

\* Who wears the window carries the same afterwards.
LEMMA BouncedCarried ==
  ASSUME NEW p, NEW q, NEW w \in Windows, Bounced(p, q, w, w[1]),
         NEW c, NEW i \in Items
  PROVE  Carried(p, c, i) <=> Carried(q, c, i)
<1>1. CASE q[i] = p[i]
  BY <1>1, SamePlace
<1>2. CASE p[i] = In(w) /\ q[i] = Pack(w[1])
  BY <1>2, CarriedInWindow, CarriedElsewhere
<1>3. QED
  BY <1>1, <1>2 DEF Bounced

LEMMA SameHeld ==
  ASSUME NEW p, NEW q, NEW c \in Chars, NEW i \in Items, NEW R,
         \A j \in Items : Carried(p, c, j) <=> Carried(q, c, j)
  PROVE  Held(p, c, i, R) <=> Held(q, c, i, R)
<1>1. CASE Held(p, c, i, R)
  BY <1>1, HeldMore
<1>2. CASE Held(q, c, i, R)
  BY <1>2, HeldMore
<1>3. QED
  BY <1>1, <1>2

LEMMA BounceAllDoes ==
  ASSUME NEW at \in Placements, NEW s, Covers(s, at), NEW w \in Windows,
         NEW c \in Chars, NEW R, NEW to, to = BounceAll(s, R, at, w, c)
  PROVE  /\ to \in Placements /\ Bounced(at, to, w, c)
         /\ c = w[1] =>
               \A i \in Items : to[i] = In(w) => Held(to, c, i, R)
<1> DEFINE Bounce(p, i) == IF p[i] = In(w) THEN ItemBounce(R, p, c, i) ELSE p
           step == [i \in Items |-> [p \in Placements |-> Bounce(p, i)]]
           Heavy(p, n) ==
               c = w[1] => \A k \in 1..n :
                   p[s[k]] = In(w) => Held(p, c, s[k], R)
           P == [n \in 0..Len(s) |->
                   {p \in Placements : Bounced(at, p, w, c) /\ Heavy(p, n)}]
<1>1. to = InTurn(step, at, s)
  BY DEF BounceAll
<1>2. Len(s) \in Nat /\ \A n \in 1..Len(s) : s[n] \in Items
  BY DEF Covers
<1>3. \A n \in 0..Len(s) : \A p :
          p \in P[n] <=> /\ p \in Placements /\ Bounced(at, p, w, c)
                         /\ Heavy(p, n)
  OBVIOUS
<1>4. \A i \in Items, p \in Placements : step[i][p] = Bounce(p, i)
  OBVIOUS
<1> HIDE DEF P, step
<1>5. at \in P[0]
  <2>1. Bounced(at, at, w, c)
    BY DEF Bounced
  <2>2. Heavy(at, 0)
    OBVIOUS
  <2>3. QED
    BY <1>2, <1>3, <2>1, <2>2
<1>6. ASSUME NEW n \in 1..Len(s), NEW p \in P[n - 1]
      PROVE  step[s[n]][p] \in P[n]
  <2> DEFINE q == Bounce(p, s[n])
  <2>1. /\ n \in 0..Len(s) /\ n - 1 \in 0..Len(s) /\ s[n] \in Items
        /\ \A k \in 1..n : (k \in 1..n - 1 \/ k = n) /\ s[k] \in Items
    BY <1>2
  <2>2. p \in Placements /\ Bounced(at, p, w, c) /\ Heavy(p, n - 1)
    BY <1>3, <2>1
  <2>3. step[s[n]][p] = q
    BY <1>4, <2>1, <2>2
  <2>4. CASE p[s[n]] # In(w)
    <3>1. q = p
      BY <2>4
    <3>2. Heavy(q, n)
      BY <2>1, <2>2, <2>4, <3>1
    <3>3. QED
      BY <1>3, <2>1, <2>2, <2>3, <3>1, <3>2
  <2>5. CASE p[s[n]] = In(w)
    <3>1. q = ItemBounce(R, p, c, s[n])
      BY <2>5
    <3> HIDE DEF q
    <3>2. /\ q \in Placements
          /\ \A j \in Items : j # s[n] => q[j] = p[j]
          /\ q[s[n]] = Pack(c) \/ (q = p /\ Held(p, c, s[n], R))
      BY <2>1, <2>2, <3>1, ItemBounceDoes
    <3>3. Bounced(p, q, w, c)
      BY <2>1, <2>5, <3>2 DEF Bounced
    <3>4. Bounced(at, q, w, c)
      <4>1. ASSUME NEW i \in Items
            PROVE  q[i] = at[i] \/ (at[i] = In(w) /\ q[i] = Pack(c))
        <5>1. q[i] = p[i] \/ (p[i] = In(w) /\ q[i] = Pack(c))
          BY <3>3 DEF Bounced
        <5>2. p[i] = at[i] \/ (at[i] = In(w) /\ p[i] = Pack(c))
          BY <2>2 DEF Bounced
        <5>3. QED
          BY <5>1, <5>2, PlacesApart
      <4>2. QED
        BY <4>1 DEF Bounced
    <3>5. Heavy(q, n)
      <4>1. ASSUME c = w[1], NEW k \in 1..n, q[s[k]] = In(w)
            PROVE  Held(q, c, s[k], R)
        <5>1. p[s[k]] = In(w) /\ s[k] \in Items
          BY <2>1, <3>3, <4>1, PlacesApart DEF Bounced
        <5>2. Held(p, c, s[k], R) <=> Held(q, c, s[k], R)
          BY <3>3, <4>1, <5>1, BouncedCarried, SameHeld
        <5>3. CASE k = n
          BY <3>2, <4>1, <5>3, PlacesApart
        <5>4. CASE k # n
          BY <2>1, <2>2, <4>1, <5>1, <5>2, <5>4
        <5>5. QED
          BY <5>3, <5>4
      <4>2. QED
        BY <4>1
    <3>6. QED
      BY <1>3, <2>1, <2>3, <3>2, <3>4, <3>5
  <2>6. QED
    BY <2>4, <2>5
<1>7. to \in P[Len(s)]
  BY <1>1, <1>2, <1>5, <1>6, InTurnStays
<1>8. to \in Placements /\ Bounced(at, to, w, c) /\ Heavy(to, Len(s))
  BY <1>2, <1>3, <1>7
<1>9. ASSUME c = w[1], NEW i \in Items, to[i] = In(w)
      PROVE  Held(to, c, i, R)
  <2>1. at[i] = In(w)
    BY <1>8, <1>9, PlacesApart DEF Bounced
  <2>2. PICK n \in 1..Len(s) : s[n] = i
    BY <2>1 DEF Covers
  <2>3. QED
    BY <1>8, <1>9, <2>2
<1>10. QED
  BY <1>8, <1>9

\* Nothing is in w, or only what who wears it cannot carry or is refused.
EmptyOf(p, w) == \A i \in Items : p[i] # In(w)
HeldIn(p, w, R) == \A i \in Items : p[i] = In(w) => Held(p, w[1], i, R)

LEMMA BouncedGivesBack ==
  ASSUME NEW at, NEW to, NEW w \in Windows, Bounced(at, to, w, w[1]), NEW R
  PROVE  GivesBack(at, to, {w}, R)
<1>1. GoesBack(at, to, {w})
  BY DEF Bounced, GoesBack
<1>2. LostHeavy(at, to, R)
  BY PlacesApart DEF Bounced, LostHeavy
<1>3. QED
  BY <1>1, <1>2 DEF GivesBack

LEMMA DestroyedDoes ==
  ASSUME NEW p \in Placements, NEW w \in Windows, NEW R, HeldIn(p, w, R),
         NEW q, q = Destroyed(p, w)
  PROVE  /\ q \in Placements /\ GivesBack(p, q, {w}, R) /\ EmptyOf(q, w)
         /\ \A i \in Items : p[i] # In(w) => q[i] = p[i]
<1>1. \A i \in Items : q[i] = IF p[i] = In(w) THEN Lost ELSE p[i]
  BY DEF Destroyed
<1>2. q \in Placements
  BY WindowsApart DEF Destroyed, Placements
<1>3. EmptyOf(q, w)
  BY <1>1, PlacesApart DEF EmptyOf
<1>4. GoesBack(p, q, {w})
  BY <1>1 DEF GoesBack
<1>5. LostHeavy(p, q, R)
  <2>1. ASSUME NEW i \in Items, NEW x \in Windows, p[i] = In(x), q[i] = Lost
        PROVE  Held(p, x[1], i, R)
    <3>1. p[i] = In(w)
      BY <1>1, <2>1, PlacesApart
    <3>2. x = w
      BY <2>1, <3>1, WindowsApart
    <3>3. QED
      BY <3>1, <3>2 DEF HeldIn
  <2>2. QED
    BY <2>1 DEF LostHeavy
<1>6. QED
  BY <1>1, <1>2, <1>3, <1>4, <1>5 DEF GivesBack

\* What was held still is, if its owner has not become lighter.
LEMMA StillHeld ==
  ASSUME NEW p, NEW q, NEW w \in Windows, NEW R, HeldIn(p, w, R),
         \A i \in Items : q[i] = In(w) => p[i] = In(w),
         \A j \in Items : Carried(p, w[1], j) => Carried(q, w[1], j)
  PROVE  HeldIn(q, w, R)
<1>1. w[1] \in Chars
  BY WindowsApart
<1>2. ASSUME NEW i \in Items, q[i] = In(w) PROVE Held(q, w[1], i, R)
  <2>1. Held(p, w[1], i, R)
    BY <1>2 DEF HeldIn
  <2>2. QED
    BY <1>1, <2>1, HeldMore
<1>3. QED
  BY <1>2 DEF HeldIn

\* What is given back from the windows of another leaves what is held.
LEMMA OthersStayHeld ==
  ASSUME NEW p, NEW q, NEW w \in Windows, NEW x \in Windows, w[1] # x[1],
         GoesBack(p, q, {x}), NEW R, HeldIn(p, w, R)
  PROVE  HeldIn(q, w, R)
<1>1. \A i \in Items : q[i] = In(w) => p[i] = In(w)
  BY GoesBackIn
<1>2. ASSUME NEW j \in Items, Carried(p, w[1], j) PROVE Carried(q, w[1], j)
  <2>1. CASE p[j] = In(x)
    BY <1>2, <2>1, CarriedInWindow
  <2>2. CASE p[j] # In(x)
    <3>1. q[j] = p[j]
      BY <2>2 DEF GoesBack
    <3>2. QED
      BY <1>2, <3>1, SamePlace
  <2>3. QED
    BY <2>1, <2>2
<1>3. QED
  BY <1>1, <1>2, StillHeld

\* The partner of w is deleted with it, and not kept.
TakesAlong(w, keep) == Other(w) \in linked \ keep

LEMMA Trade_DeleteDoes ==
  ASSUME NEW at \in Placements, NEW s, Covers(s, at), NEW w \in Windows,
         NEW R, NEW keep, NEW to, to = Trade_Delete(s, R, keep, at, w)
  PROVE  /\ to \in Placements /\ GivesBack(at, to, Pair(w), R)
         /\ TakesAlong(w, keep) => EmptyOf(to, Other(w))
         /\ HeldIn(to, w, R)
         /\ \A i \in Items : at[i] = In(w) => to[i] \in {In(w), Pack(w[1])}
<1> DEFINE x == Other(w)
           mine == BounceAll(s, R, at, w, w[1])
           his == BounceAll(s, R, mine, x, w[2])
<1>1. /\ x \in Windows /\ x[1] = w[2] /\ w[1] # x[1] /\ Pair(w) = {w, x}
      /\ w[1] \in Chars /\ w[2] \in Chars /\ x # w
  BY WindowsApart
<1>2. to = IF TakesAlong(w, keep) THEN Destroyed(his, x) ELSE mine
  BY DEF Trade_Delete, TakesAlong
<1>3. mine \in Placements /\ Bounced(at, mine, w, w[1])
  BY <1>1, BounceAllDoes
<1>4. HeldIn(mine, w, R)
  BY <1>1, BounceAllDoes DEF HeldIn
<1>5. GivesBack(at, mine, {w}, R)
  BY <1>3, BouncedGivesBack
<1> HIDE DEF mine
<1>6. GivesBack(at, mine, Pair(w), R)
  BY <1>1, <1>5, GivesBackMore
<1>7. ASSUME NEW i \in Items, at[i] = In(w)
      PROVE  mine[i] \in {In(w), Pack(w[1])} /\ mine[i] # In(x)
  BY <1>1, <1>3, <1>7, PlacesApart, WindowsApart DEF Bounced
<1>8. CASE ~TakesAlong(w, keep)
  BY <1>2, <1>3, <1>4, <1>6, <1>7, <1>8
<1>9. CASE TakesAlong(w, keep)
  <2>1. Covers(s, mine)
    <3>1. GoesBack(at, mine, {w})
      BY <1>5 DEF GivesBack
    <3>2. \A i \in Items, y \in Windows : mine[i] = In(y) => at[i] = In(y)
      BY <3>1, GoesBackIn
    <3>3. QED
      BY <3>2, StillCovers
  <2>2. his \in Placements /\ Bounced(mine, his, x, x[1])
    BY <1>1, <1>3, <2>1, BounceAllDoes
  <2>3. HeldIn(his, x, R)
    BY <1>1, <1>3, <2>1, BounceAllDoes DEF HeldIn
  <2>4. GivesBack(mine, his, {x}, R)
    BY <1>1, <2>2, BouncedGivesBack
  <2> HIDE DEF his
  <2>5. to = Destroyed(his, x)
    BY <1>2, <1>9
  <2>6. /\ to \in Placements /\ GivesBack(his, to, {x}, R) /\ EmptyOf(to, x)
        /\ \A i \in Items : his[i] # In(x) => to[i] = his[i]
    BY <1>1, <2>2, <2>3, <2>5, DestroyedDoes
  <2>7. HeldIn(to, w, R)
    <3>1. HeldIn(his, w, R)
      BY <1>1, <1>4, <2>4, OthersStayHeld DEF GivesBack
    <3>2. QED
      BY <1>1, <2>6, <3>1, OthersStayHeld DEF GivesBack
  <2>8. GivesBack(at, to, Pair(w), R)
    <3>1. GivesBack(mine, his, Pair(w), R) /\ GivesBack(his, to, Pair(w), R)
      BY <1>1, <2>4, <2>6, GivesBackMore
    <3>2. Pair(w) \in SUBSET Windows
      BY <1>1
    <3>3. GivesBack(at, his, Pair(w), R)
      BY <1>6, <3>1, <3>2, GivesBackTwice
    <3>4. QED
      BY <3>1, <3>2, <3>3, GivesBackTwice
  <2>9. ASSUME NEW i \in Items, at[i] = In(w)
        PROVE  to[i] \in {In(w), Pack(w[1])}
    <3>1. mine[i] \in {In(w), Pack(w[1])} /\ mine[i] # In(x)
      BY <1>7, <2>9
    <3>2. his[i] = mine[i]
      BY <2>2, <3>1 DEF Bounced
    <3>3. QED
      BY <2>6, <3>1, <3>2
  <2>10. QED
    BY <2>6, <2>7, <2>8, <2>9
<1>10. QED
  BY <1>8, <1>9

\* The windows that go when w is deleted
Going(w, keep) ==
    {x \in Pair(w) : w \notin keep /\ (x = w \/ TakesAlong(w, keep))}

LEMMA DeleteDoes ==
  ASSUME NEW at \in Placements, NEW s, Covers(s, at), NEW w \in Windows,
         NEW R, NEW keep, NEW to, to = Delete(s, R, keep, at, w)
  PROVE  /\ to \in Placements /\ GivesBack(at, to, Pair(w), R)
         /\ w \in keep => to = at
         /\ \A x \in Going(w, keep) : EmptyOf(to, x)
<1>1. CASE w \in keep
  <2>1. to = at /\ Going(w, keep) = {}
    BY <1>1 DEF Delete, Going
  <2>2. QED
    BY <2>1, GivesBackNothing
<1>2. CASE w \notin keep
  <2> DEFINE mid == Trade_Delete(s, R, keep, at, w)
  <2>1. /\ mid \in Placements /\ GivesBack(at, mid, Pair(w), R)
        /\ TakesAlong(w, keep) => EmptyOf(mid, Other(w))
        /\ HeldIn(mid, w, R)
    BY Trade_DeleteDoes
  <2>2. to = Destroyed(mid, w)
    BY <1>2 DEF Delete
  <2> HIDE DEF mid
  <2>3. /\ to \in Placements /\ GivesBack(mid, to, {w}, R) /\ EmptyOf(to, w)
        /\ \A i \in Items : mid[i] # In(w) => to[i] = mid[i]
    BY <2>1, <2>2, DestroyedDoes
  <2>4. /\ Other(w) \in Windows /\ Pair(w) \in SUBSET Windows
        /\ Pair(w) = {w, Other(w)}
    BY WindowsApart
  <2>5. GivesBack(at, to, Pair(w), R)
    <3>1. GivesBack(mid, to, Pair(w), R)
      BY <2>3, <2>4, GivesBackMore
    <3>2. QED
      BY <2>1, <2>4, <3>1, GivesBackTwice
  <2>6. TakesAlong(w, keep) => EmptyOf(to, Other(w))
    <3>1. ASSUME TakesAlong(w, keep), NEW i \in Items
          PROVE  to[i] # In(Other(w))
      <4>1. mid[i] # In(Other(w))
        BY <2>1, <3>1 DEF EmptyOf
      <4>2. GoesBack(mid, to, {w})
        BY <2>3 DEF GivesBack
      <4>3. QED
        BY <2>4, <4>1, <4>2, GoesBackIn
    <3>2. QED
      BY <3>1 DEF EmptyOf
  <2>7. QED
    BY <1>2, <2>3, <2>4, <2>5, <2>6 DEF Going
<1>3. QED
  BY <1>1, <1>2

LEMMA DeleteUnlinkedDoes ==
  ASSUME NEW at \in Placements, NEW s, Covers(s, at), NEW w \in Windows,
         NEW R, NEW keep, NEW to, to = DeleteUnlinked(s, R, keep, at, w)
  PROVE  /\ to \in Placements /\ GivesBack(at, to, {w}, R)
         /\ w \notin keep => EmptyOf(to, w)
<1>1. CASE w \in keep
  BY <1>1, GivesBackNothing DEF DeleteUnlinked
<1>2. CASE w \notin keep
  <2> DEFINE mine == BounceAll(s, R, at, w, w[1])
  <2>1. w[1] \in Chars
    BY WindowsApart
  <2>2. mine \in Placements /\ Bounced(at, mine, w, w[1])
    BY <2>1, BounceAllDoes
  <2>3. HeldIn(mine, w, R)
    BY <2>1, BounceAllDoes DEF HeldIn
  <2>4. GivesBack(at, mine, {w}, R)
    BY <2>2, BouncedGivesBack
  <2>5. to = Destroyed(mine, w)
    BY <1>2 DEF DeleteUnlinked
  <2> HIDE DEF mine
  <2>6. to \in Placements /\ GivesBack(mine, to, {w}, R) /\ EmptyOf(to, w)
    BY <2>2, <2>3, <2>5, DestroyedDoes
  <2>7. QED
    BY <2>4, <2>6, GivesBackTwice
<1>3. QED
  BY <1>1, <1>2

-----------------------------------------------------------------------------
(* One window after the other *)

LEMMA EmptyStays ==
  ASSUME NEW p, NEW q, NEW V \in SUBSET Windows, NEW R, GivesBack(p, q, V, R),
         NEW w \in Windows, EmptyOf(p, w)
  PROVE  EmptyOf(q, w)
<1>1. ASSUME NEW i \in Items PROVE q[i] # In(w)
  BY GoesBackIn DEF GivesBack, EmptyOf
<1>2. QED
  BY <1>1 DEF EmptyOf

\* Each step gives back what is in some of the windows V, and leaves the windows
\* E[w] empty.  (K is what else the steps keep.)
Proceeds(K, at, V, R, worn, step, E) ==
    \A p \in K, n \in 1..Len(worn) : GivesBack(at, p, V, R) =>
        /\ step[worn[n]][p] \in K /\ GivesBack(p, step[worn[n]][p], V, R)
        /\ \A x \in E[worn[n]] : EmptyOf(step[worn[n]][p], x)
Emptied(at, to, V, R, worn, E) ==
    /\ GivesBack(at, to, V, R)
    /\ \A n \in 1..Len(worn) : \A x \in E[worn[n]] : EmptyOf(to, x)

LEMMA InTurnGivesBack ==
  ASSUME NEW K, NEW at \in K, NEW V \in SUBSET Windows, NEW R,
         NEW worn, Len(worn) \in Nat, NEW step, NEW E,
         \A n \in 1..Len(worn) : E[worn[n]] \subseteq Windows,
         Proceeds(K, at, V, R, worn, step, E)
  PROVE  /\ InTurn(step, at, worn) \in K
         /\ Emptied(at, InTurn(step, at, worn), V, R, worn, E)
<1> DEFINE P == [n \in 0..Len(worn) |-> {p \in K :
                    /\ GivesBack(at, p, V, R)
                    /\ \A k \in 1..n : \A x \in E[worn[k]] : EmptyOf(p, x)}]
<1>1. \A n \in 0..Len(worn) : \A p :
          p \in P[n] <=>
              /\ p \in K /\ GivesBack(at, p, V, R)
              /\ \A k \in 1..n : \A x \in E[worn[k]] : EmptyOf(p, x)
  OBVIOUS
<1> HIDE DEF P
<1>2. at \in P[0]
  BY <1>1, GivesBackNothing
<1>3. ASSUME NEW n \in 1..Len(worn), NEW p \in P[n - 1]
      PROVE  step[worn[n]][p] \in P[n]
  <2> DEFINE q == step[worn[n]][p]
  <2>1. n \in 0..Len(worn) /\ n - 1 \in 0..Len(worn)
        /\ \A k \in 1..n : (k \in 1..n - 1 \/ k = n) /\ k \in 1..Len(worn)
    OBVIOUS
  <2>2. /\ p \in K /\ GivesBack(at, p, V, R)
        /\ \A k \in 1..n - 1 : \A x \in E[worn[k]] : EmptyOf(p, x)
    BY <1>1, <2>1
  <2>3. /\ q \in K /\ GivesBack(p, q, V, R)
        /\ \A x \in E[worn[n]] : EmptyOf(q, x)
    BY <2>1, <2>2 DEF Proceeds
  <2> HIDE DEF q
  <2>4. GivesBack(at, q, V, R)
    BY <2>2, <2>3, GivesBackTwice
  <2>5. ASSUME NEW k \in 1..n, NEW x \in E[worn[k]] PROVE EmptyOf(q, x)
    <3>1. CASE k = n
      BY <2>3, <2>5, <3>1
    <3>2. CASE k # n
      <4>1. k \in 1..n - 1 /\ E[worn[k]] \subseteq Windows
        BY <2>1, <3>2
      <4>2. EmptyOf(p, x) /\ x \in Windows
        BY <2>2, <2>5, <4>1
      <4>3. QED
        BY <2>3, <4>2, EmptyStays
    <3>3. QED
      BY <3>1, <3>2
  <2>6. q \in P[n]
    BY <1>1, <2>1, <2>3, <2>4, <2>5
  <2>7. QED
    BY <2>6 DEF q
<1>4. InTurn(step, at, worn) \in P[Len(worn)]
  BY <1>2, <1>3, InTurnStays
<1>5. Len(worn) \in 0..Len(worn)
  OBVIOUS
<1>6. QED
  BY <1>1, <1>4, <1>5 DEF Emptied

LEMMA PartedDoes ==
  ASSUME NEW ws \in SUBSET Windows
  PROVE  /\ Parted(ws) \in SUBSET Windows
         /\ \A w \in ws : w \in Parted(ws) /\ Other(w) \in Parted(ws)
                          /\ Pair(w) \subseteq Parted(ws)
         /\ \A w \in Windows : w \in Parted(ws) <=> Other(w) \in Parted(ws)
<1>1. Parted(ws) \in SUBSET Windows
  BY WindowsApart DEF Parted
<1>2. ASSUME NEW w \in ws
      PROVE  /\ w \in Parted(ws) /\ Other(w) \in Parted(ws)
             /\ Pair(w) \subseteq Parted(ws)
  BY WindowsApart DEF Parted
<1>3. ASSUME NEW w \in Windows PROVE w \in Parted(ws) <=> Other(w) \in Parted(ws)
  <2>1. ASSUME NEW x \in Windows, x \in Parted(ws)
        PROVE  Other(x) \in Parted(ws)
    <3>1. CASE x \in ws
      BY <1>2, <3>1
    <3>2. CASE \E y \in ws : x = Other(y)
      BY <3>2, WindowsApart DEF Parted
    <3>3. QED
      BY <2>1, <3>1, <3>2 DEF Parted
  <2>2. Other(w) \in Windows /\ Other(Other(w)) = w
    BY WindowsApart
  <2>3. QED
    BY <2>1, <2>2
<1>4. QED
  BY <1>1, <1>2, <1>3

\* worn has the windows ws, in the order in which they are worn.
Wears(worn, ws) ==
    /\ Len(worn) \in Nat /\ \A n \in 1..Len(worn) : worn[n] \in ws
    /\ \A w \in ws : \E n \in 1..Len(worn) : worn[n] = w

\* The steps of a log out and of a death
Deleting(s, R, keep) ==
    [w \in Windows |-> [p \in Placements |-> Delete(s, R, keep, p, w)]]
Giving(s, R, keep) ==
    [w \in Windows |-> [p \in Placements |-> Trade_Delete(s, R, keep, p, w)]]
Unlinking(s, R, keep) ==
    [w \in Windows |-> [p \in Placements |-> DeleteUnlinked(s, R, keep, p, w)]]

LEMMA AllDeleted ==
  ASSUME NEW at \in Placements, NEW s, Covers(s, at),
         NEW ws \in SUBSET Windows, NEW worn, Wears(worn, ws),
         NEW R, NEW keep, NEW to, to = InTurn(Deleting(s, R, keep), at, worn)
  PROVE  /\ to \in Placements /\ GivesBack(at, to, Parted(ws \ keep), R)
         /\ \A w \in ws : \A x \in Going(w, keep) : EmptyOf(to, x)
<1> DEFINE V == Parted(ws \ keep)
           step == Deleting(s, R, keep)
           E == [w \in Windows |-> Going(w, keep)]
<1>1. \A w \in Windows, p \in Placements :
          step[w][p] = Delete(s, R, keep, p, w)
  BY DEF Deleting
<1>2. \A w \in Windows : E[w] = Going(w, keep) /\ E[w] \subseteq Windows
  BY WindowsApart DEF Going
<1>3. /\ Len(worn) \in Nat
      /\ \A n \in 1..Len(worn) : worn[n] \in ws /\ worn[n] \in Windows
  BY DEF Wears
<1>4. /\ V \in SUBSET Windows
      /\ \A w \in ws \ keep : Pair(w) \subseteq V
  <2>1. ws \ keep \in SUBSET Windows
    OBVIOUS
  <2>2. QED
    BY <2>1, PartedDoes
<1>5. to = InTurn(step, at, worn)
  OBVIOUS
<1> HIDE DEF step, E, V
<1>6. ASSUME NEW p \in Placements, NEW n \in 1..Len(worn),
             GivesBack(at, p, V, R)
      PROVE  /\ step[worn[n]][p] \in Placements
             /\ GivesBack(p, step[worn[n]][p], V, R)
             /\ \A x \in E[worn[n]] : EmptyOf(step[worn[n]][p], x)
  <2>1. PICK w \in ws : w = worn[n]
    BY <1>3
  <2> DEFINE q == step[w][p]
  <2>2. Covers(s, p)
    BY <1>4, <1>6, GoesBackIn, StillCovers DEF GivesBack
  <2>3. q = Delete(s, R, keep, p, w)
    BY <1>1
  <2> HIDE DEF q
  <2>4. /\ q \in Placements /\ GivesBack(p, q, Pair(w), R)
        /\ w \in keep => q = p
        /\ \A x \in Going(w, keep) : EmptyOf(q, x)
    BY <2>2, <2>3, DeleteDoes
  <2>5. GivesBack(p, q, V, R)
    <3>1. CASE w \in keep
      BY <2>4, <3>1, GivesBackNothing
    <3>2. CASE w \notin keep
      BY <1>4, <2>4, <3>2, GivesBackMore
    <3>3. QED
      BY <3>1, <3>2
  <2>6. QED
    BY <1>2, <2>1, <2>4, <2>5 DEF q
<1>7. to \in Placements /\ Emptied(at, to, V, R, worn, E)
  <2>1. \A n \in 1..Len(worn) : E[worn[n]] \subseteq Windows
    BY <1>2, <1>3
  <2>2. Proceeds(Placements, at, V, R, worn, step, E)
    BY <1>6 DEF Proceeds
  <2>3. QED
    BY <1>3, <1>4, <1>5, <2>1, <2>2, InTurnGivesBack
<1>8. ASSUME NEW w \in ws, NEW x \in Going(w, keep) PROVE EmptyOf(to, x)
  <2>1. PICK n \in 1..Len(worn) : worn[n] = w
    BY DEF Wears
  <2>2. QED
    BY <1>2, <1>7, <1>8, <2>1 DEF Emptied
<1>9. QED
  BY <1>7, <1>8 DEF Emptied, V

\* What is in the windows of c goes to his pack, or stays.
Keeps(at, ws, c) ==
    {p \in Placements : \A i \in Items, w \in ws :
                            at[i] = In(w) => p[i] \in {In(w), Pack(c)}}

LEMMA AllGiven ==
  ASSUME NEW at \in Placements, NEW s, Covers(s, at), NEW c \in Chars,
         NEW ws \in SUBSET Windows, \A w \in ws : w[1] = c,
         NEW worn, Wears(worn, ws),
         NEW R, NEW keep, NEW to, to = InTurn(Giving(s, R, keep), at, worn)
  PROVE  /\ to \in Keeps(at, ws, c) /\ GivesBack(at, to, Parted(ws), R)
         /\ \A w \in ws : TakesAlong(w, keep) => EmptyOf(to, Other(w))
<1> DEFINE step == Giving(s, R, keep)
           E == [w \in Windows |->
                   {x \in {Other(w)} : TakesAlong(w, keep)}]
<1>1. \A w \in Windows, p \in Placements :
          step[w][p] = Trade_Delete(s, R, keep, p, w)
  BY DEF Giving
<1>2. \A w \in Windows : /\ E[w] = {x \in {Other(w)} : TakesAlong(w, keep)}
                         /\ E[w] \subseteq Windows
  BY WindowsApart
<1>3. /\ Len(worn) \in Nat
      /\ \A n \in 1..Len(worn) : worn[n] \in ws /\ worn[n] \in Windows
  BY DEF Wears
<1>4. to = InTurn(step, at, worn)
  OBVIOUS
<1> HIDE DEF step, E
<1>5. ASSUME NEW p \in Keeps(at, ws, c), NEW n \in 1..Len(worn),
             GivesBack(at, p, Parted(ws), R)
      PROVE  /\ step[worn[n]][p] \in Keeps(at, ws, c)
             /\ GivesBack(p, step[worn[n]][p], Parted(ws), R)
             /\ \A x \in E[worn[n]] : EmptyOf(step[worn[n]][p], x)
  <2>1. PICK w \in ws : w = worn[n]
    BY <1>3
  <2> DEFINE q == step[w][p]
  <2>2. Covers(s, p)
    BY <1>5, PartedDoes, GoesBackIn, StillCovers DEF GivesBack
  <2>3. p \in Placements /\ q = Trade_Delete(s, R, keep, p, w)
    BY <1>1 DEF Keeps
  <2> HIDE DEF q
  <2>4. /\ q \in Placements /\ GivesBack(p, q, Pair(w), R)
        /\ TakesAlong(w, keep) => EmptyOf(q, Other(w))
        /\ \A i \in Items : p[i] = In(w) => q[i] \in {In(w), Pack(w[1])}
    BY <2>2, <2>3, Trade_DeleteDoes
  <2>5. GivesBack(p, q, Parted(ws), R)
    BY <2>4, PartedDoes, GivesBackMore
  <2>6. ASSUME NEW i \in Items, NEW x \in ws, at[i] = In(x)
        PROVE  q[i] \in {In(x), Pack(c)}
    <3>1. p[i] \in {In(x), Pack(c)}
      BY <2>6 DEF Keeps
    <3>2. CASE p[i] = Pack(c)
      <4>1. \A y \in Pair(w) : p[i] # In(y)
        BY <3>2, PlacesApart
      <4>2. QED
        BY <2>4, <3>2, <4>1 DEF GivesBack, GoesBack
    <3>3. CASE p[i] = In(x) /\ x = w
      BY <2>4, <3>3
    <3>4. CASE p[i] = In(x) /\ x # w
      <4>1. x[1] = c /\ w[1] = c /\ w[1] # w[2] /\ Other(w)[1] = w[2]
        BY WindowsApart
      <4>2. x \notin Pair(w) /\ Pair(w) \in SUBSET Windows
        BY <3>4, <4>1, WindowsApart
      <4>3. QED
        BY <2>4, <3>4, <4>2, GoesBackIn DEF GivesBack
    <3>5. QED
      BY <3>1, <3>2, <3>3, <3>4
  <2>7. q \in Keeps(at, ws, c)
    BY <2>4, <2>6 DEF Keeps
  <2>8. QED
    BY <1>2, <2>1, <2>4, <2>5, <2>7 DEF q
<1>6. to \in Keeps(at, ws, c) /\ Emptied(at, to, Parted(ws), R, worn, E)
  <2>1. Parted(ws) \in SUBSET Windows
    BY PartedDoes
  <2>2. \A n \in 1..Len(worn) : E[worn[n]] \subseteq Windows
    BY <1>2, <1>3
  <2>3. Proceeds(Keeps(at, ws, c), at, Parted(ws), R, worn, step, E)
    BY <1>5 DEF Proceeds
  <2>4. at \in Keeps(at, ws, c)
    BY DEF Keeps
  <2>5. QED
    BY <1>3, <1>4, <2>1, <2>2, <2>3, <2>4, InTurnGivesBack
<1>7. ASSUME NEW w \in ws, TakesAlong(w, keep) PROVE EmptyOf(to, Other(w))
  <2>1. PICK n \in 1..Len(worn) : worn[n] = w
    BY DEF Wears
  <2>2. QED
    BY <1>2, <1>6, <1>7, <2>1 DEF Emptied
<1>8. QED
  BY <1>6, <1>7 DEF Emptied

LEMMA AllUnlinked ==
  ASSUME NEW at \in Placements, NEW s, Covers(s, at),
         NEW ws \in SUBSET Windows, NEW worn, Wears(worn, ws),
         NEW R, NEW keep, NEW to, to = InTurn(Unlinking(s, R, keep), at, worn)
  PROVE  /\ to \in Placements /\ GivesBack(at, to, ws, R)
         /\ \A w \in ws \ keep : EmptyOf(to, w)
<1> DEFINE step == Unlinking(s, R, keep)
           E == [w \in Windows |-> {w} \ keep]
<1>1. \A w \in Windows, p \in Placements :
          step[w][p] = DeleteUnlinked(s, R, keep, p, w)
  BY DEF Unlinking
<1>2. \A w \in Windows : E[w] = {w} \ keep
  OBVIOUS
<1>3. /\ Len(worn) \in Nat
      /\ \A n \in 1..Len(worn) : worn[n] \in ws /\ worn[n] \in Windows
  BY DEF Wears
<1>4. to = InTurn(step, at, worn)
  OBVIOUS
<1> HIDE DEF step, E
<1>5. ASSUME NEW p \in Placements, NEW n \in 1..Len(worn),
             GivesBack(at, p, ws, R)
      PROVE  /\ step[worn[n]][p] \in Placements
             /\ GivesBack(p, step[worn[n]][p], ws, R)
             /\ \A x \in E[worn[n]] : EmptyOf(step[worn[n]][p], x)
  <2>1. PICK w \in ws : w = worn[n]
    BY <1>3
  <2>2. Covers(s, p)
    BY <1>5, GoesBackIn, StillCovers DEF GivesBack
  <2>3. /\ step[w][p] \in Placements /\ GivesBack(p, step[w][p], {w}, R)
        /\ w \notin keep => EmptyOf(step[w][p], w)
    BY <1>1, <2>2, DeleteUnlinkedDoes
  <2>4. GivesBack(p, step[w][p], ws, R)
    BY <2>3, GivesBackMore
  <2>5. QED
    BY <1>2, <2>1, <2>3, <2>4
<1>6. to \in Placements /\ Emptied(at, to, ws, R, worn, E)
  <2>1. \A n \in 1..Len(worn) : E[worn[n]] \subseteq Windows
    BY <1>2, <1>3
  <2>2. Proceeds(Placements, at, ws, R, worn, step, E)
    BY <1>5 DEF Proceeds
  <2>3. QED
    BY <1>3, <1>4, <2>1, <2>2, InTurnGivesBack
<1>7. ASSUME NEW w \in ws \ keep PROVE EmptyOf(to, w)
  <2>1. PICK n \in 1..Len(worn) : worn[n] = w
    BY DEF Wears
  <2>2. QED
    BY <1>2, <1>6, <2>1 DEF Emptied
<1>8. QED
  BY <1>6, <1>7 DEF Emptied

-----------------------------------------------------------------------------
(* What the handlers do to the places *)

LEMMA OfferedCovers ==
  ASSUME NEW s \in Orders(Offered)
  PROVE  Covers(s, place)
<1>1. IsFiniteSet(Offered)
  <2>1. Offered \subseteq Items
    BY DEF Offered
  <2>2. QED
    BY <2>1, WorldAssumption, FS_Subset
<1>2. /\ Len(s) \in Nat
      /\ \A n \in 1..Len(s) : s[n] \in Offered
      /\ \A x \in Offered : \E n \in 1..Len(s) : s[n] = x
  BY <1>1, OrderHasAll
<1>3. QED
  BY <1>2 DEF Covers, Offered

LEMMA WindowsOfWears ==
  ASSUME TypeOK, NEW c \in Chars, NEW worn \in Orders(WindowsOf(c))
  PROVE  /\ Wears(worn, WindowsOf(c)) /\ WindowsOf(c) \in SUBSET Windows
         /\ WindowsOf(c) \subseteq open /\ \A w \in WindowsOf(c) : w[1] = c
<1>1. /\ WindowsOf(c) \in SUBSET Windows /\ WindowsOf(c) \subseteq open
      /\ \A w \in WindowsOf(c) : w[1] = c
  BY DEF WindowsOf, TypeOK
<1>2. IsFiniteSet(WindowsOf(c))
  <2>1. IsFiniteSet(Chars \X Chars)
    BY WorldAssumption, FS_Product
  <2>2. WindowsOf(c) \in SUBSET (Chars \X Chars)
    BY <1>1 DEF Windows
  <2>3. QED
    BY <2>1, <2>2, FS_Subset
<1>3. Wears(worn, WindowsOf(c))
  BY <1>2, OrderHasAll DEF Wears
<1>4. QED
  BY <1>1, <1>3

\* What is deleted is empty: the windows that go, of those that are asked.
AskedEmpty(all, ended, keep) ==
    \A x \in Asked(all, ended) \ keep : EmptyOf(place', x)

LEMMA CloseMoves ==
  ASSUME TypeOK, NEW order \in Orders(Offered), NEW refuse, NEW keep,
         NEW w \in Windows, Close(order, refuse, keep, w)
  PROVE  /\ place' \in Placements
         /\ GivesBack(place, place', Parted({w}), refused')
         /\ AskedEmpty({w}, {w}, keep)
<1>1. /\ place \in Placements /\ w \notin keep /\ refused' = refuse
      /\ place' = Delete(order, refuse, keep, place, w)
  BY DEF TypeOK, Close, Placements, Answered
<1>2. /\ place' \in Placements /\ GivesBack(place, place', Pair(w), refuse)
      /\ \A x \in Going(w, keep) : EmptyOf(place', x)
  BY <1>1, OfferedCovers, DeleteDoes
<1>3. Parted({w}) = Pair(w)
  BY WindowsApart DEF Parted
<1>4. ASSUME NEW x \in Asked({w}, {w}) \ keep PROVE x \in Going(w, keep)
  <2>1. CASE x = w
    BY <1>1, <2>1 DEF Going, Pair
  <2>2. CASE x \in linked /\ Other(x) = w
    <3>1. x = Other(w) /\ x \in Pair(w)
      BY <2>2, WindowsApart DEF TypeOK
    <3>2. QED
      BY <1>1, <1>4, <2>2, <3>1 DEF Going, TakesAlong
  <2>3. QED
    BY <1>4, <2>1, <2>2 DEF Asked
<1>5. QED
  BY <1>1, <1>2, <1>3, <1>4 DEF AskedEmpty

LEMMA DetachMoves ==
  ASSUME TypeOK, NEW order \in Orders(Offered), NEW refuse, NEW keep,
         NEW c \in Chars, NEW worn \in Orders(WindowsOf(c)),
         ClientDetach(order, refuse, keep, worn, c)
  PROVE  /\ place' \in Placements
         /\ GivesBack(place, place', Parted(WindowsOf(c) \ keep), refused')
         /\ AskedEmpty(WindowsOf(c), WindowsOf(c) \ keep, keep)
<1> DEFINE ws == WindowsOf(c)
<1>1. /\ place \in Placements /\ refused' = refuse
      /\ place' = InTurn(Deleting(order, refuse, keep), place, worn)
  BY DEF TypeOK, ClientDetach, Placements, Deleting, Answered
<1>2. Wears(worn, ws) /\ ws \in SUBSET Windows /\ Covers(order, place)
  BY OfferedCovers, WindowsOfWears
<1> HIDE DEF ws
<1>3. /\ place' \in Placements
      /\ GivesBack(place, place', Parted(ws \ keep), refuse)
      /\ \A w \in ws : \A x \in Going(w, keep) : EmptyOf(place', x)
  BY <1>1, <1>2, AllDeleted
<1>4. ASSUME NEW x \in Asked(ws, ws \ keep) \ keep
      PROVE  \E w \in ws : x \in Going(w, keep)
  <2>1. CASE x \in ws
    BY <1>4, <2>1 DEF Going, Pair
  <2>2. CASE x \in linked /\ Other(x) \in ws \ keep
    <3>1. x = Other(Other(x)) /\ x \in Pair(Other(x))
      BY <2>2, WindowsApart DEF TypeOK
    <3>2. x \in Going(Other(x), keep)
      BY <1>4, <2>2, <3>1 DEF Going, TakesAlong
    <3>3. QED
      BY <2>2, <3>2
  <2>3. QED
    BY <1>4, <2>1, <2>2 DEF Asked
<1>5. QED
  BY <1>1, <1>3, <1>4 DEF AskedEmpty, ws

\* The pack of c goes to the corpse.
Dropped(at, c) == [i \in Items |-> IF at[i] = Pack(c) THEN Corpse ELSE at[i]]

LEMMA DroppedDoes ==
  ASSUME NEW at \in Placements, NEW c \in Chars
  PROVE  /\ Dropped(at, c) \in Placements
         /\ \A i \in Items : /\ at[i] = Pack(c) => Dropped(at, c)[i] = Corpse
                             /\ at[i] # Pack(c) => Dropped(at, c)[i] = at[i]
         /\ \A i \in Items, w \in Windows :
               Dropped(at, c)[i] = In(w) <=> at[i] = In(w)
<1>1. \A i \in Items : /\ at[i] = Pack(c) => Dropped(at, c)[i] = Corpse
                       /\ at[i] # Pack(c) => Dropped(at, c)[i] = at[i]
  BY DEF Dropped
<1>2. Dropped(at, c) \in Placements
  BY WindowsApart DEF Dropped, Placements
<1>3. QED
  BY <1>1, <1>2, PlacesApart

\* A death gives back, drops what is in the pack, and gives back again.
DeathGives(c, given) ==
    /\ given \in Keeps(place, WindowsOf(c), c)
    /\ GivesBack(place, given, Parted(WindowsOf(c)), refused')
    /\ GivesBack(Dropped(given, c), place', WindowsOf(c), refused')

LEMMA DeathMoves ==
  ASSUME TypeOK, NEW order \in Orders(Offered), NEW refuse, NEW again,
         NEW keep, NEW c \in Chars, NEW worn \in Orders(WindowsOf(c)),
         Death(order, refuse, again, keep, worn, c)
  PROVE  /\ place' \in Placements
         /\ \E given : DeathGives(c, given)
         /\ AskedEmpty(WindowsOf(c), WindowsOf(c), keep)
<1> DEFINE ws == WindowsOf(c)
           given == InTurn(Giving(order, refuse, keep), place, worn)
           dropped == Dropped(given, c)
<1>1. /\ place \in Placements /\ refused' = refuse \cup again
      /\ place' = InTurn(Unlinking(order, again, keep), dropped, worn)
  BY DEF TypeOK, Death, Placements, Dropped, Giving, Unlinking, Answered
<1>2. /\ Wears(worn, ws) /\ ws \in SUBSET Windows /\ \A w \in ws : w[1] = c
  BY WindowsOfWears
<1>3. Parted(ws) \in SUBSET Windows
  BY <1>2, PartedDoes
<1>4. Covers(order, place)
  BY OfferedCovers
<1> HIDE DEF ws
<1>5. /\ given \in Keeps(place, ws, c)
      /\ GivesBack(place, given, Parted(ws), refuse)
      /\ \A w \in ws : TakesAlong(w, keep) => EmptyOf(given, Other(w))
  BY <1>1, <1>2, <1>4, AllGiven
<1> HIDE DEF given
<1>6. /\ given \in Placements /\ dropped \in Placements
      /\ \A i \in Items, w \in Windows : dropped[i] = In(w) <=> given[i] = In(w)
  BY <1>5, DroppedDoes DEF Keeps
<1>7. Covers(order, dropped)
  <2>1. \A i \in Items, w \in Windows : dropped[i] = In(w) => place[i] = In(w)
    BY <1>3, <1>5, <1>6, GoesBackIn DEF GivesBack
  <2>2. QED
    BY <1>4, <2>1, StillCovers
<1> HIDE DEF dropped
<1>8. /\ place' \in Placements /\ GivesBack(dropped, place', ws, again)
      /\ \A w \in ws \ keep : EmptyOf(place', w)
  BY <1>1, <1>2, <1>6, <1>7, AllUnlinked
<1>9. ASSUME NEW x \in Asked(ws, ws) \ keep PROVE EmptyOf(place', x)
  <2>1. CASE x \in ws
    BY <1>8, <1>9, <2>1
  <2>2. CASE x \in linked /\ Other(x) \in ws
    <3>1. x \in Windows /\ Other(Other(x)) = x
      BY <2>2, WindowsApart DEF TypeOK
    <3>2. EmptyOf(given, x)
      BY <1>5, <1>9, <2>2, <3>1 DEF TakesAlong
    <3>3. EmptyOf(dropped, x)
      BY <1>6, <3>1, <3>2 DEF EmptyOf
    <3>4. QED
      BY <1>2, <1>8, <3>1, <3>3, EmptyStays
  <2>3. QED
    BY <1>9, <2>1, <2>2 DEF Asked
<1>10. /\ GivesBack(place, given, Parted(ws), refused')
       /\ GivesBack(dropped, place', ws, refused')
  BY <1>1, <1>5, <1>8, GivesBackMore
<1>11. DeathGives(c, given)
  BY <1>5, <1>10 DEF DeathGives, ws, dropped
<1>12. QED
  BY <1>8, <1>9, <1>11 DEF ws, AskedEmpty

\* Who presses last gets what is in the window of the other, who gets what is in
\* his; then the windows are deleted.
Swapped(at, to, w) ==
    \A i \in Items : \/ to[i] = at[i]
                     \/ at[i] = In(Other(w)) /\ to[i] = Pack(w[1])
                     \/ at[i] = In(w) /\ to[i] = Pack(w[2])

LEMMA TransferredDoes ==
  ASSUME TypeOK, NEW order \in Orders(Offered), NEW refuse, NEW w \in Windows,
         NEW to, to = Transferred(order, refuse, w)
  PROVE  to \in Placements /\ Covers(order, to) /\ Swapped(place, to, w)
<1> DEFINE x == Other(w)
           his == BounceAll(order, refuse, place, x, w[1])
           mine == BounceAll(order, refuse, his, w, w[2])
<1>1. place \in Placements /\ to = mine
  BY DEF TypeOK, Placements, Transferred
<1>2. x \in Windows /\ w[1] \in Chars /\ w[2] \in Chars
  BY WindowsApart
<1>3. Covers(order, place)
  BY OfferedCovers
<1>4. his \in Placements /\ Bounced(place, his, x, w[1])
  BY <1>1, <1>2, <1>3, BounceAllDoes
<1> HIDE DEF his
<1>5. Covers(order, his)
  BY <1>3, <1>4, PlacesApart, StillCovers DEF Bounced
<1>6. mine \in Placements /\ Bounced(his, mine, w, w[2])
  BY <1>2, <1>4, <1>5, BounceAllDoes
<1> HIDE DEF mine
<1>7. Covers(order, mine)
  BY <1>5, <1>6, PlacesApart, StillCovers DEF Bounced
<1>8. Swapped(place, mine, w)
  <2>1. ASSUME NEW i \in Items
        PROVE  \/ mine[i] = place[i]
               \/ place[i] = In(Other(w)) /\ mine[i] = Pack(w[1])
               \/ place[i] = In(w) /\ mine[i] = Pack(w[2])
    <3>1. mine[i] = his[i] \/ (his[i] = In(w) /\ mine[i] = Pack(w[2]))
      BY <1>6 DEF Bounced
    <3>2. his[i] = place[i] \/ (place[i] = In(x) /\ his[i] = Pack(w[1]))
      BY <1>4 DEF Bounced
    <3>3. QED
      BY <3>1, <3>2, PlacesApart
  <2>2. QED
    BY <2>1 DEF Swapped
<1>9. QED
  BY <1>1, <1>6, <1>7, <1>8

ExchangeGives(w, swapped) ==
    /\ Swapped(place, swapped, w)
    /\ GivesBack(swapped, place', Parted({w}), refused')

LEMMA ExchangeMoves ==
  ASSUME TypeOK, NEW order \in Orders(Offered), NEW refuse, NEW keep,
         NEW w \in Windows, Exchange(order, refuse, keep, w)
  PROVE  /\ place' \in Placements
         /\ \E swapped : ExchangeGives(w, swapped)
         /\ AskedEmpty({w}, {w}, keep)
<1> DEFINE mine == Transferred(order, refuse, w)
<1>1. /\ w \notin keep /\ refused' = refuse
      /\ place' = Delete(order, refuse, keep, mine, w)
  BY DEF Exchange, Answered
<1>2. mine \in Placements /\ Covers(order, mine) /\ Swapped(place, mine, w)
  BY TransferredDoes
<1> HIDE DEF mine
<1>3. /\ place' \in Placements /\ GivesBack(mine, place', Pair(w), refuse)
      /\ \A x \in Going(w, keep) : EmptyOf(place', x)
  BY <1>1, <1>2, DeleteDoes
<1>4. Parted({w}) = Pair(w)
  BY WindowsApart DEF Parted
<1>5. ASSUME NEW x \in Asked({w}, {w}) \ keep PROVE x \in Going(w, keep)
  <2>1. CASE x = w
    BY <1>1, <2>1 DEF Going, Pair
  <2>2. CASE x \in linked /\ Other(x) = w
    <3>1. x = Other(w) /\ x \in Pair(w)
      BY <2>2, WindowsApart DEF TypeOK
    <3>2. QED
      BY <1>1, <1>5, <2>2, <3>1 DEF Going, TakesAlong
  <2>3. QED
    BY <1>5, <2>1, <2>2 DEF Asked
<1>6. QED
  BY <1>1, <1>2, <1>3, <1>4, <1>5 DEF ExchangeGives, AskedEmpty

-----------------------------------------------------------------------------
(* The invariant *)

\* Who has pressed the button still sees what he saw, unless a window was kept;
\* and while scripts of @TradeAccepted run, both have pressed it, unless they have
\* changed something.
SeenStill == \A x \in check : Pair(x) \cap kept = {} => seen[x] = Both(x)
Agreed ==
    \A w \in accepting : Talks(w) /\ (meddled \/ Pair(w) \subseteq check)

TradeInv == TypeOK /\ WindowsPaired /\ SeenStill /\ Agreed

LEMMA InitTrade == Init => TradeInv
<1> SUFFICES ASSUME Init PROVE TradeInv
  OBVIOUS
<1>1. place \in [Items -> Places]
  BY DEF Init, Places
<1>2. purse \in [Chars -> Int]
  BY PursesAssumption DEF Init
<1>3. TypeOK
  BY <1>1, <1>2 DEF Init, TypeOK
<1>4. WindowsPaired
  <2>1. ASSUME NEW i \in Items, NEW w \in Windows PROVE place[i] # In(w)
    BY PlacesApart DEF Init
  <2>2. QED
    BY <2>1 DEF Init, WindowsPaired
<1>5. SeenStill /\ Agreed
  BY DEF Init, SeenStill, Agreed
<1>6. QED
  BY <1>3, <1>4, <1>5 DEF TradeInv

LEMMA BothKept ==
  ASSUME NEW x, \A i \in Items : place'[i] = In(x) <=> place[i] = In(x),
         \A i \in Items : place'[i] = In(Other(x)) <=> place[i] = In(Other(x))
  PROVE  Both(x)' = Both(x)
<1>1. Content(place', x) = Content(place, x)
  BY DEF Content
<1>2. Content(place', Other(x)) = Content(place, Other(x))
  BY DEF Content
<1>3. Both(x)' = <<Content(place', x), Content(place', Other(x))>>
  BY DEF Both
<1>4. QED
  BY <1>1, <1>2, <1>3 DEF Both

\* Of what is deleted nothing remains, and what parts is not looked at any more.
LEMMA ForgetInv ==
  ASSUME TradeInv, NEW all \in SUBSET open, NEW ended \in SUBSET all, NEW keep,
         all \ keep \subseteq ended, Forget(all, ended, keep),
         place' \in Placements, online' \subseteq Chars,
         purse' \in [Chars -> Int],
         accepting' = {}, meddled' = FALSE, refused' \subseteq Fussy,
         \A x \in open \ Asked(all, ended) : x[1] \in online => x[1] \in online',
         \A i \in Items, x \in Windows :
             /\ place'[i] = In(x) => place[i] = In(x)
             /\ place[i] = In(x) /\ x \notin Parted(ended) => place'[i] = In(x),
         AskedEmpty(all, ended, keep)
  PROVE  TradeInv'
<1> DEFINE asked == Asked(all, ended)
           parted == Parted(ended)
<1>0. TypeOK /\ WindowsPaired /\ SeenStill /\ ended \in SUBSET Windows
  BY DEF TradeInv, TypeOK
<1>1. /\ open' = open \ (asked \ keep)
      /\ kept' = (kept \ asked) \cup (asked \cap keep)
      /\ linked' = linked \ parted /\ check' = check \ parted
      /\ waits' = waits \ parted
      /\ offer' = [w \in Windows |-> IF w \in parted THEN 0 ELSE offer[w]]
      /\ seen' = [w \in Windows |-> IF w \in parted THEN <<{}, {}>> ELSE seen[w]]
  BY DEF Forget, Part
<1>2. \A w \in Windows : w \in parted <=> Other(w) \in parted
  BY <1>0, PartedDoes
<1>3. asked \subseteq open /\ all \subseteq asked
  BY <1>0 DEF Asked, TypeOK
\* Who parts is asked, if he is linked; who is asked and not kept, parts.
<1>4. \A x \in Windows : x \in linked /\ x \in parted => x \in asked
  <2>1. ASSUME NEW x \in Windows, x \in linked, x \in parted PROVE x \in asked
    <3>1. CASE x \in ended
      BY <3>1 DEF Asked
    <3>2. CASE \E y \in ended : x = Other(y)
      BY <1>0, <2>1, <3>2, WindowsApart DEF Asked
    <3>3. QED
      BY <2>1, <3>1, <3>2 DEF Parted
  <2>2. QED
    BY <2>1
<1>5. asked \ keep \subseteq parted
  <2>1. ASSUME NEW x \in asked, x \notin keep PROVE x \in parted
    <3>1. CASE x \in all
      BY <2>1, <3>1 DEF Parted
    <3>2. CASE x \in linked /\ Other(x) \in ended
      BY <1>0, <3>2, WindowsApart DEF Parted, TypeOK
    <3>3. QED
      BY <2>1, <3>1, <3>2 DEF Asked
  <2>2. QED
    BY <2>1
<1>6. \A x \in asked \ keep : EmptyOf(place', x)
  BY DEF AskedEmpty
<1>7. \A i \in Items, x \in Windows :
          /\ place'[i] = In(x) => place[i] = In(x)
          /\ place[i] = In(x) /\ x \notin parted => place'[i] = In(x)
  OBVIOUS
<1>8. \A x \in open \ asked : x[1] \in online => x[1] \in online'
  OBVIOUS
<1> HIDE DEF asked, parted
<1>9. TypeOK'
  <2>1. offer' \in [Windows -> Nat]
    BY <1>0, <1>1 DEF TypeOK
  <2>2. seen' \in [Windows -> (SUBSET Items) \X (SUBSET Items)]
    BY <1>0, <1>1 DEF TypeOK
  <2>3. /\ open' \subseteq Windows /\ linked' \subseteq open'
        /\ kept' \subseteq open'
    BY <1>0, <1>1, <1>3, <1>5 DEF TypeOK
  <2>4. check' \subseteq linked' /\ waits' \subseteq linked'
    BY <1>0, <1>1 DEF TypeOK
  <2>5. QED
    BY <2>1, <2>2, <2>3, <2>4 DEF TypeOK, Placements
<1>10. WindowsPaired'
  <2>1. ASSUME NEW w \in open' \ kept'
        PROVE  Pair(w) \subseteq linked' /\ w[1] \in online'
    <3>1. w \in open /\ w \in Windows /\ w \notin asked /\ w \notin kept
      BY <1>0, <1>1 DEF TypeOK
    <3>2. /\ Pair(w) \subseteq linked /\ Pair(w) = {w, Other(w)}
          /\ w[1] \in online
      BY <1>0, <3>1, WindowsApart DEF WindowsPaired
    <3>3. w \notin parted
      BY <1>4, <3>1, <3>2
    <3>4. Other(w) \notin parted
      BY <1>2, <3>1, <3>3
    <3>5. QED
      BY <1>1, <1>8, <3>1, <3>2, <3>3, <3>4
  <2>2. ASSUME NEW i \in Items, NEW w \in Windows, place'[i] = In(w)
        PROVE  w \in open'
    <3>1. w \in open
      BY <1>0, <1>7, <2>2 DEF WindowsPaired
    <3>2. w \notin asked \ keep
      BY <1>6, <2>2 DEF EmptyOf
    <3>3. QED
      BY <1>1, <3>1, <3>2
  <2>3. QED
    BY <2>1, <2>2 DEF WindowsPaired
<1>11. SeenStill'
  <2>1. ASSUME NEW x \in check', Pair(x) \cap kept' = {}
        PROVE  seen'[x] = Both(x)'
    <3>1. x \in check /\ x \in Windows /\ x \notin parted
      BY <1>0, <1>1 DEF TypeOK
    <3>2. /\ Other(x) \in Windows /\ Other(x) \notin parted
          /\ Pair(x) = {x, Other(x)}
      BY <1>2, <3>1, WindowsApart
    <3>3. Pair(x) \cap kept = {}
      BY <1>1, <1>5, <2>1, <3>1, <3>2
    <3>4. Both(x)' = Both(x)
      BY <1>7, <3>1, <3>2, BothKept
    <3>5. seen'[x] = seen[x]
      BY <1>1, <3>1
    <3>6. QED
      BY <1>0, <3>1, <3>3, <3>4, <3>5 DEF SeenStill
  <2>2. QED
    BY <2>1 DEF SeenStill
<1>12. Agreed'
  BY DEF Agreed
<1>13. QED
  BY <1>9, <1>10, <1>11, <1>12 DEF TradeInv

\* What is given back from windows that part
LEMMA GivesBackStays ==
  ASSUME NEW W \in SUBSET Windows, NEW R, GivesBack(place, place', W, R)
  PROVE  \A i \in Items, x \in Windows :
             /\ place'[i] = In(x) => place[i] = In(x)
             /\ place[i] = In(x) /\ x \notin W => place'[i] = In(x)
  BY GoesBackIn DEF GivesBack

\* Everything that may be refused
LEMMA RefusalsAre ==
  \A refuse \in Refusals : refuse \subseteq Fussy
  BY DEF Refusals

LEMMA CloseInv ==
  ASSUME TradeInv, NEW order \in Orders(Offered), NEW refuse \in Refusals,
         NEW keep, NEW w \in Windows, Close(order, refuse, keep, w)
  PROVE  TradeInv'
<1>0. TypeOK /\ WindowsPaired
  BY DEF TradeInv
<1>1. /\ place' \in Placements /\ AskedEmpty({w}, {w}, keep)
      /\ GivesBack(place, place', Parted({w}), refused')
  BY <1>0, CloseMoves
<1>2. /\ Forget({w}, {w}, keep) /\ w \in open /\ online' = online
      /\ purse' = purse /\ Answered(refuse)
  BY DEF Close
<1>3. Parted({w}) \in SUBSET Windows
  BY PartedDoes
<1>4. \A i \in Items, x \in Windows :
          /\ place'[i] = In(x) => place[i] = In(x)
          /\ place[i] = In(x) /\ x \notin Parted({w}) => place'[i] = In(x)
  BY <1>1, <1>3, GivesBackStays
<1>5. accepting' = {} /\ meddled' = FALSE /\ refused' \subseteq Fussy
  BY <1>2, RefusalsAre DEF Answered
<1>6. online' \subseteq Chars /\ purse' \in [Chars -> Int]
  BY <1>0, <1>2 DEF TypeOK
<1>7. {w} \in SUBSET open /\ {w} \in SUBSET {w} /\ {w} \ keep \subseteq {w}
  BY <1>2
<1>8. QED
  BY <1>1, <1>2, <1>4, <1>5, <1>6, <1>7, ForgetInv

LEMMA ClientDetachInv ==
  ASSUME TradeInv, NEW order \in Orders(Offered), NEW refuse \in Refusals,
         NEW keep, NEW c \in Chars, NEW worn \in Orders(WindowsOf(c)),
         ClientDetach(order, refuse, keep, worn, c)
  PROVE  TradeInv'
<1> DEFINE ws == WindowsOf(c)
           ended == ws \ keep
<1>0. TypeOK /\ WindowsPaired
  BY DEF TradeInv
<1>1. /\ place' \in Placements /\ AskedEmpty(ws, ended, keep)
      /\ GivesBack(place, place', Parted(ended), refused')
  BY <1>0, DetachMoves
<1>2. /\ Forget(ws, ended, keep) /\ online' = online \ {c} /\ purse' = purse
      /\ Answered(refuse)
  BY DEF ClientDetach
<1>3. /\ ws \in SUBSET open /\ ended \in SUBSET ws /\ ws \ keep \subseteq ended
      /\ ended \in SUBSET Windows
  BY <1>0, WindowsOfWears
<1>4. ASSUME NEW x \in open \ Asked(ws, ended), x[1] \in online
      PROVE  x[1] \in online'
  <2>1. x \notin ws
    BY <1>4 DEF Asked
  <2>2. x[1] # c
    BY <1>4, <2>1 DEF WindowsOf
  <2>3. QED
    BY <1>2, <1>4, <2>2
<1>5. accepting' = {} /\ meddled' = FALSE /\ refused' \subseteq Fussy
  BY <1>2, RefusalsAre DEF Answered
<1>6. online' \subseteq Chars /\ purse' \in [Chars -> Int]
  BY <1>0, <1>2 DEF TypeOK
<1> HIDE DEF ws, ended
<1>7. \A i \in Items, x \in Windows :
          /\ place'[i] = In(x) => place[i] = In(x)
          /\ place[i] = In(x) /\ x \notin Parted(ended) => place'[i] = In(x)
  <2>1. Parted(ended) \in SUBSET Windows
    BY <1>3, PartedDoes
  <2>2. QED
    BY <1>1, <2>1, GivesBackStays
<1>8. QED
  BY <1>1, <1>2, <1>3, <1>4, <1>5, <1>6, <1>7, ForgetInv

LEMMA DeathInv ==
  ASSUME TradeInv, NEW order \in Orders(Offered), NEW refuse \in Refusals,
         NEW again \in Refusals, NEW keep, NEW c \in Chars,
         NEW worn \in Orders(WindowsOf(c)),
         Death(order, refuse, again, keep, worn, c)
  PROVE  TradeInv'
<1> DEFINE ws == WindowsOf(c)
<1>0. TypeOK /\ WindowsPaired
  BY DEF TradeInv
<1>1. place' \in Placements /\ AskedEmpty(ws, ws, keep)
  BY <1>0, DeathMoves
<1>2. PICK given : DeathGives(c, given)
  BY <1>0, DeathMoves
<1>3. /\ Forget(ws, ws, keep) /\ online' = online /\ purse' = purse
      /\ Answered(refuse \cup again)
  BY DEF Death
<1>4. /\ ws \in SUBSET Windows /\ ws \in SUBSET open /\ ws \in SUBSET ws
      /\ Parted(ws) \in SUBSET Windows /\ ws \subseteq Parted(ws)
      /\ ws \ keep \subseteq ws
  BY <1>0, WindowsOfWears, PartedDoes
<1>5. ASSUME NEW i \in Items, NEW x \in Windows
      PROVE  /\ place'[i] = In(x) => place[i] = In(x)
             /\ place[i] = In(x) /\ x \notin Parted(ws) => place'[i] = In(x)
  <2> DEFINE dropped == Dropped(given, c)
  <2>1. /\ GoesBack(place, given, Parted(ws)) /\ GoesBack(dropped, place', ws)
        /\ given \in Placements
    BY <1>2 DEF DeathGives, Keeps, GivesBack
  <2>2. dropped[i] = In(x) <=> given[i] = In(x)
    BY <2>1, DroppedDoes
  <2> HIDE DEF dropped
  <2>3. /\ given[i] = In(x) => place[i] = In(x)
        /\ place[i] = In(x) /\ x \notin Parted(ws) => given[i] = In(x)
    BY <1>4, <2>1, GoesBackIn
  <2>4. /\ place'[i] = In(x) => dropped[i] = In(x)
        /\ dropped[i] = In(x) /\ x \notin Parted(ws) => place'[i] = In(x)
    BY <1>4, <2>1, GoesBackIn
  <2>5. QED
    BY <2>2, <2>3, <2>4
<1>6. accepting' = {} /\ meddled' = FALSE /\ refused' \subseteq Fussy
  BY <1>3, RefusalsAre DEF Answered
<1>7. online' \subseteq Chars /\ purse' \in [Chars -> Int]
  BY <1>0, <1>3 DEF TypeOK
<1>8. \A x \in open \ Asked(ws, ws) : x[1] \in online => x[1] \in online'
  BY <1>3
<1> HIDE DEF ws
<1>9. QED
  BY <1>1, <1>3, <1>4, <1>5, <1>6, <1>7, <1>8, ForgetInv

LEMMA PaidType ==
  ASSUME TypeOK, NEW w \in Windows
  PROVE  Paid(w) \in [Chars -> Int]
<1>1. /\ w[1] \in Chars /\ w[2] \in Chars
      /\ offer[w] \in Int /\ offer[Other(w)] \in Int
  BY WindowsApart DEF TypeOK
<1>2. QED
  BY <1>1 DEF TypeOK, Paid

LEMMA ExchangeInv ==
  ASSUME TradeInv, NEW order \in Orders(Offered), NEW refuse \in Refusals,
         NEW keep, NEW w \in Windows, Exchange(order, refuse, keep, w)
  PROVE  TradeInv'
<1>0. TypeOK /\ WindowsPaired
  BY DEF TradeInv
<1>1. place' \in Placements /\ AskedEmpty({w}, {w}, keep)
  BY <1>0, ExchangeMoves
<1>2. PICK swapped : ExchangeGives(w, swapped)
  BY <1>0, ExchangeMoves
<1>3. /\ Forget({w}, {w}, keep) /\ online' = online /\ Answered(refuse)
      /\ purse' = Paid(w) /\ w \in accepting
  BY DEF Exchange
<1>4. /\ Parted({w}) = Pair(w) /\ Pair(w) = {w, Other(w)}
      /\ Pair(w) \in SUBSET Windows
  BY WindowsApart DEF Parted
<1>5. ASSUME NEW i \in Items, NEW x \in Windows
      PROVE  /\ place'[i] = In(x) => place[i] = In(x)
             /\ place[i] = In(x) /\ x \notin Parted({w}) => place'[i] = In(x)
  <2>1. Swapped(place, swapped, w) /\ GoesBack(swapped, place', Pair(w))
    BY <1>2, <1>4 DEF ExchangeGives, GivesBack
  <2>2. /\ swapped[i] = In(x) => place[i] = In(x)
        /\ place[i] = In(x) /\ x \notin Pair(w) => swapped[i] = In(x)
    BY <1>4, <2>1, PlacesApart, WindowsApart DEF Swapped
  <2>3. /\ place'[i] = In(x) => swapped[i] = In(x)
        /\ swapped[i] = In(x) /\ x \notin Pair(w) => place'[i] = In(x)
    BY <1>4, <2>1, GoesBackIn
  <2>4. QED
    BY <1>4, <2>2, <2>3
<1>6. accepting' = {} /\ meddled' = FALSE /\ refused' \subseteq Fussy
  BY <1>3, RefusalsAre DEF Answered
<1>7. online' \subseteq Chars /\ purse' \in [Chars -> Int]
  BY <1>0, <1>3, PaidType DEF TypeOK
<1>8. {w} \in SUBSET open /\ {w} \in SUBSET {w} /\ {w} \ keep \subseteq {w}
  BY <1>0, <1>3 DEF TypeOK
<1>9. \A x \in open \ Asked({w}, {w}) : x[1] \in online => x[1] \in online'
  BY <1>3
<1>10. QED
  BY <1>1, <1>3, <1>5, <1>6, <1>7, <1>8, <1>9, ForgetInv

\* Where the window stays, what has been given away is missing from it, and who
\* has lost sight of it has to press again.
LEMMA ExchangeKeptInv ==
  ASSUME TradeInv, NEW order \in Orders(Offered), NEW refuse \in Refusals,
         NEW w \in Windows, ExchangeKept(order, refuse, w)
  PROVE  TradeInv'
<1> DEFINE left == {x \in Pair(w) : Content(place', x) # Content(place, x)}
<1>0. TypeOK /\ WindowsPaired /\ SeenStill /\ Agreed
  BY DEF TradeInv
<1>1. /\ w \in accepting /\ purse' = Paid(w) /\ Answered(refuse)
      /\ UNCHANGED <<online, open, linked, kept, offer>>
      /\ place' = Transferred(order, refuse, w)
  BY DEF ExchangeKept, talk
<1>2. place' \in Placements /\ Swapped(place, place', w)
  BY <1>0, <1>1, TransferredDoes
<1>3. /\ IF left = {} THEN UNCHANGED <<check, seen>> ELSE Trade_Unchecked(w)
      /\ waits' = waits \cup left
  BY DEF ExchangeKept
<1>4. Talks(w)
  BY <1>0, <1>1 DEF Agreed
<1>5. /\ Pair(w) = {w, Other(w)} /\ Pair(w) \in SUBSET Windows
      /\ \A x \in Windows : x \notin Pair(w) => Other(x) \notin Pair(w)
  BY WindowsApart
<1>6. ASSUME NEW i \in Items, NEW x \in Windows
      PROVE  /\ place'[i] = In(x) => place[i] = In(x)
             /\ place[i] = In(x) /\ x \notin Pair(w) => place'[i] = In(x)
  BY <1>2, <1>5, PlacesApart, WindowsApart DEF Swapped
<1>7. /\ left = {} => check' = check /\ seen' = seen
      /\ left # {} =>
            /\ check' = check \ Pair(w)
            /\ seen' = [x \in Windows |->
                          IF x \in Pair(w) THEN <<{}, {}>> ELSE seen[x]]
  BY <1>3, <1>4 DEF Trade_Unchecked
<1>8. left = {} => \A x \in Pair(w), i \in Items :
                      place'[i] = In(x) <=> place[i] = In(x)
  BY DEF Content
<1>9. left \subseteq Pair(w)
  OBVIOUS
<1> HIDE DEF left
<1>10. accepting' = {} /\ meddled' = FALSE /\ refused' \subseteq Fussy
  BY <1>1, RefusalsAre DEF Answered
<1>11. /\ check' \subseteq check
       /\ seen' \in [Windows -> (SUBSET Items) \X (SUBSET Items)]
       /\ \A x \in check' : seen'[x] = seen[x]
  <2>1. CASE left = {}
    BY <1>0, <1>7, <2>1 DEF TypeOK
  <2>2. CASE left # {}
    BY <1>0, <1>7, <2>2 DEF TypeOK
  <2>3. QED
    BY <2>1, <2>2
<1>12. TypeOK'
  <2>1. purse' \in [Chars -> Int]
    BY <1>0, <1>1, PaidType
  <2>2. waits' \subseteq linked
    BY <1>0, <1>3, <1>4, <1>9 DEF TypeOK, Talks
  <2>3. QED
    BY <1>0, <1>1, <1>2, <1>10, <1>11, <2>1, <2>2 DEF TypeOK, Placements
<1>13. WindowsPaired'
  BY <1>0, <1>1, <1>6 DEF WindowsPaired
<1>14. SeenStill'
  <2>1. ASSUME NEW x \in check', Pair(x) \cap kept' = {}
        PROVE  seen'[x] = Both(x)'
    <3>1. /\ x \in check /\ x \in Windows /\ Other(x) \in Windows
          /\ Pair(x) \cap kept = {} /\ seen'[x] = seen[x]
      BY <1>0, <1>1, <1>11, <2>1, WindowsApart DEF TypeOK
    <3>2. CASE x \notin Pair(w)
      <4>1. Both(x)' = Both(x)
        BY <1>5, <1>6, <3>1, <3>2, BothKept
      <4>2. QED
        BY <1>0, <3>1, <4>1 DEF SeenStill
    <3>3. CASE x \in Pair(w)
      <4>1. left = {}
        BY <1>7, <3>3
      <4>2. Other(x) \in Pair(w)
        BY <1>5, <3>3, WindowsApart
      <4>3. Both(x)' = Both(x)
        BY <1>8, <3>3, <4>1, <4>2, BothKept
      <4>4. QED
        BY <1>0, <3>1, <4>3 DEF SeenStill
    <3>4. QED
      BY <3>2, <3>3
  <2>2. QED
    BY <2>1 DEF SeenStill
<1>15. Agreed'
  BY <1>10 DEF Agreed
<1>16. QED
  BY <1>12, <1>13, <1>14, <1>15 DEF TradeInv

\* Steps that leave items and checks alone
LEMMA SameTradeInv ==
  ASSUME TradeInv, UNCHANGED <<place, talk, check, seen>>,
         online \subseteq online', online' \subseteq Chars,
         accepting' \subseteq accepting, meddled' = meddled \/ accepting' = {},
         meddled' \in BOOLEAN,
         waits' \subseteq linked, offer' \in [Windows -> Nat],
         purse' \in [Chars -> Int], refused' \subseteq Fussy
  PROVE  TradeInv'
<1>1. TypeOK'
  BY DEF TradeInv, TypeOK, talk
<1>2. WindowsPaired'
  BY DEF TradeInv, WindowsPaired, talk
<1>3. SeenStill'
  BY DEF TradeInv, SeenStill, Both, Content, talk
<1>4. Agreed'
  BY DEF TradeInv, Agreed, Talks, talk
<1>5. QED
  BY <1>1, <1>2, <1>3, <1>4 DEF TradeInv

\* One item goes into a window or out of it, and who sees it has to press again.
LEMMA MovedInv ==
  ASSUME TradeInv, NEW w \in open, NEW i \in Items, NEW to \in Places,
         place' = [place EXCEPT ![i] = to],
         \A x \in Windows \ {w} : place[i] # In(x) /\ to # In(x),
         Trade_Unchecked(w), Meddles(w), waits' \subseteq linked,
         UNCHANGED <<online, talk, offer, purse>>
  PROVE  TradeInv'
<1> DEFINE both == IF Talks(w) THEN Pair(w) ELSE {}
<1>0. TypeOK /\ WindowsPaired /\ SeenStill /\ Agreed /\ w \in Windows
  BY DEF TradeInv, TypeOK
<1>1. /\ check' = check \ both
      /\ \A x \in Windows : x \notin both => seen'[x] = seen[x]
      /\ seen' \in [Windows -> (SUBSET Items) \X (SUBSET Items)]
  <2>1. seen' = [x \in Windows |->
                    IF x \in both THEN <<{}, {}>> ELSE seen[x]]
    BY DEF Trade_Unchecked
  <2>2. check' = check \ both
    BY DEF Trade_Unchecked
  <2> HIDE DEF both
  <2>3. QED
    BY <1>0, <2>1, <2>2 DEF TypeOK
<1>2. /\ place' \in Placements
      /\ \A j \in Items : j # i => place'[j] = place[j]
      /\ place'[i] = to
  BY <1>0 DEF TypeOK, Placements
<1>3. UNCHANGED <<online, open, linked, kept, offer, purse>>
  BY DEF talk
<1>4. /\ meddled' = (meddled \/ accepting \cap Pair(w) # {})
      /\ accepting' = accepting /\ refused' = {}
  BY DEF Meddles
<1>5. TypeOK'
  BY <1>0, <1>1, <1>2, <1>3, <1>4 DEF TypeOK, Placements
<1>6. WindowsPaired'
  <2>1. ASSUME NEW j \in Items, NEW x \in Windows, place'[j] = In(x)
        PROVE  x \in open
    <3>1. CASE j = i
      BY <1>2, <2>1, <3>1
    <3>2. CASE j # i
      BY <1>0, <1>2, <2>1, <3>2 DEF WindowsPaired
    <3>3. QED
      BY <3>1, <3>2
  <2>2. QED
    BY <1>0, <1>3, <2>1 DEF WindowsPaired
\* Where no window is kept, both players are there, and their checks go.
<1>7. ASSUME NEW x \in check, Pair(x) \cap kept = {}, w \in Pair(x)
      PROVE  x \in both
  <2>1. /\ x \in Windows /\ x \in open /\ Pair(x) = {x, Other(x)}
        /\ Pair(w) = Pair(x) /\ Other(x) \in Windows /\ Other(x)[1] = x[2]
        /\ {w[1], w[2]} = {x[1], x[2]}
    <3>1. x \in Windows /\ x \in open
      BY <1>0 DEF TypeOK
    <3>2. QED
      BY <1>0, <1>7, <3>1, WindowsApart
  <2>2. Pair(x) \subseteq linked /\ x[1] \in online
    BY <1>0, <1>7, <2>1 DEF WindowsPaired
  <2>3. Other(x) \in open \ kept
    BY <1>0, <1>7, <2>1, <2>2 DEF TypeOK
  <2>4. x[2] \in online
    BY <1>0, <2>1, <2>3 DEF WindowsPaired
  <2>5. Talks(w)
    BY <2>1, <2>2, <2>4 DEF Talks
  <2>6. QED
    BY <2>1, <2>5
<1>8. SeenStill'
  <2> HIDE DEF both
  <2>1. ASSUME NEW x \in check', Pair(x) \cap kept' = {}
        PROVE  seen'[x] = Both(x)'
    <3>1. /\ x \in check /\ x \in Windows /\ x \notin both
          /\ Pair(x) \cap kept = {}
      BY <1>0, <1>1, <1>3, <2>1 DEF TypeOK
    <3>2. w \notin Pair(x)
      BY <1>7, <3>1
    <3>3. x # w /\ Other(x) # w /\ Other(x) \in Windows
      BY <3>1, <3>2, WindowsApart
    <3>4. ASSUME NEW y \in Windows \ {w}, NEW j \in Items
          PROVE  place'[j] = In(y) <=> place[j] = In(y)
      BY <1>2
    <3>5. Both(x)' = Both(x)
      BY <3>1, <3>3, <3>4, BothKept
    <3>6. QED
      BY <1>0, <1>1, <3>1, <3>5 DEF SeenStill
  <2>2. QED
    BY <2>1 DEF SeenStill
<1>9. Agreed'
  <2>1. ASSUME NEW v \in accepting
        PROVE  Talks(v) /\ (meddled' \/ Pair(v) \subseteq check')
    <3>1. v \in Windows /\ Talks(v) /\ (meddled \/ Pair(v) \subseteq check)
      BY <1>0 DEF TypeOK, Agreed
    <3>2. v \notin Pair(w) => Pair(v) \cap Pair(w) = {}
      BY <1>0, <3>1, WindowsApart
    <3>3. both \subseteq Pair(w)
      OBVIOUS
    <3> HIDE DEF both
    <3>4. QED
      BY <1>1, <1>4, <3>1, <3>2, <3>3
  <2>2. \A v : Talks(v)' <=> Talks(v)
    BY <1>3 DEF Talks
  <2>3. QED
    BY <1>4, <2>1, <2>2 DEF Agreed
<1>10. QED
  BY <1>5, <1>6, <1>8, <1>9 DEF TradeInv

LEMMA AddInv ==
  ASSUME TradeInv, NEW w \in Windows, NEW i \in Items, Add(w, i)
  PROVE  TradeInv'
<1>1. /\ w \in open /\ place[i] = Pack(w[1])
      /\ place' = [place EXCEPT ![i] = In(w)]
      /\ Trade_Unchecked(w) /\ Meddles(w)
      /\ UNCHANGED <<online, talk, waits, offer, purse>>
  BY DEF Add
<1>2. /\ In(w) \in Places
      /\ \A x \in Windows \ {w} : place[i] # In(x) /\ In(w) # In(x)
  BY <1>1, PlacesApart, WindowsApart
<1>3. waits' \subseteq linked
  BY <1>1 DEF TradeInv, TypeOK
<1>4. QED
  BY <1>1, <1>2, <1>3, MovedInv

LEMMA TakeOutInv ==
  ASSUME TradeInv, NEW w \in Windows, NEW i \in Items, TakeOut(w, i)
  PROVE  TradeInv'
<1>1. /\ w \in open /\ place[i] = In(w)
      /\ place' = [place EXCEPT ![i] = Pack(w[1])]
      /\ Trade_Unchecked(w) /\ Meddles(w)
      /\ UNCHANGED <<online, talk, offer, purse>>
      /\ waits' = waits \cup ({w} \cap linked)
  BY DEF TakeOut
<1>2. /\ Pack(w[1]) \in Places
      /\ \A x \in Windows \ {w} : place[i] # In(x) /\ Pack(w[1]) # In(x)
  BY <1>1, PlacesApart, WindowsApart
<1>3. waits' \subseteq linked
  BY <1>1 DEF TradeInv, TypeOK
<1>4. QED
  BY <1>1, <1>2, <1>3, MovedInv

LEMMA OpenInv ==
  ASSUME TradeInv, NEW w \in Windows, Open(w)
  PROVE  TradeInv'
<1>0. TypeOK /\ WindowsPaired /\ SeenStill
  BY DEF TradeInv
<1>1. /\ Pair(w) \cap open = {} /\ {w[1], w[2]} \subseteq online
      /\ open' = open \cup Pair(w) /\ linked' = linked \cup Pair(w)
      /\ UNCHANGED <<online, check, waits, offer, purse, seen, kept>>
      /\ accepting' = {} /\ meddled' = meddled /\ refused' = {}
  BY DEF Open, Idle, NotAsked
<1>2. /\ Pair(w) = {w, Other(w)} /\ Pair(w) \in SUBSET Windows
      /\ Other(w) \in Windows /\ Pair(Other(w)) = Pair(w)
      /\ Other(w)[1] = w[2]
  BY WindowsApart
<1>3. /\ place' \in Placements
      /\ \A j \in Items, x \in Windows :
            x # w => (place'[j] = In(x) <=> place[j] = In(x))
  <2>1. CASE place' = place
    BY <1>0, <2>1 DEF TypeOK, Placements
  <2>2. ASSUME NEW i \in Items, place[i] = Pack(w[1]),
               place' = [place EXCEPT ![i] = In(w)]
        PROVE  /\ place' \in Placements
               /\ \A j \in Items, x \in Windows :
                     x # w => (place'[j] = In(x) <=> place[j] = In(x))
    <3>1. In(w) \in Places /\ \A x \in Windows : x # w => In(w) # In(x)
      BY WindowsApart
    <3>2. place' \in Placements
      BY <1>0, <2>2, <3>1 DEF TypeOK, Placements
    <3>3. ASSUME NEW j \in Items
          PROVE  place'[j] = IF j = i THEN In(w) ELSE place[j]
      BY <1>0, <2>2 DEF TypeOK
    <3>4. QED
      BY <2>2, <3>1, <3>2, <3>3, PlacesApart
  <2>3. QED
    BY <2>1, <2>2 DEF Open
<1>4. TypeOK'
  BY <1>0, <1>1, <1>2, <1>3 DEF TypeOK, Placements
<1>5. WindowsPaired'
  <2>1. ASSUME NEW x \in open' \ kept'
        PROVE  Pair(x) \subseteq linked' /\ x[1] \in online'
    <3>1. CASE x \in open
      BY <1>0, <1>1, <3>1 DEF WindowsPaired
    <3>2. CASE x \in Pair(w)
      BY <1>1, <1>2, <3>2
    <3>3. QED
      BY <1>1, <3>1, <3>2
  <2>2. ASSUME NEW j \in Items, NEW x \in Windows, place'[j] = In(x)
        PROVE  x \in open'
    BY <1>0, <1>1, <1>2, <1>3, <2>2 DEF WindowsPaired
  <2>3. QED
    BY <1>1, <2>1, <2>2 DEF WindowsPaired
<1>6. SeenStill'
  <2>1. ASSUME NEW x \in check, Pair(x) \cap kept = {}
        PROVE  seen[x] = Both(x)'
    <3>1. /\ x \in open /\ x \in Windows /\ Other(x) \in Windows
          /\ Other(Other(x)) = x /\ Pair(x) = {x, Other(x)}
      BY <1>0, WindowsApart DEF TypeOK
    <3>2. x # w /\ Other(x) # w
      BY <1>1, <1>2, <3>1
    <3>3. Both(x)' = Both(x)
      BY <1>3, <3>1, <3>2, BothKept
    <3>4. QED
      BY <1>0, <2>1, <3>3 DEF SeenStill
  <2>2. QED
    BY <1>1, <2>1 DEF SeenStill
<1>7. Agreed'
  BY <1>1 DEF Agreed
<1>8. QED
  BY <1>4, <1>5, <1>6, <1>7 DEF TradeInv

LEMMA UncheckInv ==
  ASSUME TradeInv, NEW w \in Windows, Uncheck(w)
  PROVE  TradeInv'
<1>0. TypeOK /\ WindowsPaired /\ SeenStill
  BY DEF TradeInv
<1>1. /\ check' = check \ Pair(w)
      /\ seen' = [x \in Windows |->
                    IF x \in Pair(w) THEN <<{}, {}>> ELSE seen[x]]
      /\ UNCHANGED <<place, online, open, linked, kept, waits, offer, purse>>
      /\ accepting' = {} /\ meddled' = meddled /\ refused' = {}
  BY DEF Uncheck, Trade_Unchecked, talk, Idle, NotAsked
<1>2. /\ seen' \in [Windows -> (SUBSET Items) \X (SUBSET Items)]
      /\ \A x \in Windows : x \notin Pair(w) => seen'[x] = seen[x]
  BY <1>0, <1>1 DEF TypeOK
<1>3. TypeOK'
  BY <1>0, <1>1, <1>2 DEF TypeOK
<1>4. WindowsPaired'
  BY <1>0, <1>1 DEF WindowsPaired
<1>5. SeenStill'
  BY <1>0, <1>1, <1>2 DEF TypeOK, SeenStill, Both, Content
<1>6. Agreed'
  BY <1>1 DEF Agreed
<1>7. QED
  BY <1>3, <1>4, <1>5, <1>6 DEF TradeInv

LEMMA CheckInv ==
  ASSUME TradeInv, NEW w \in Windows, Check(w)
  PROVE  TradeInv'
<1>0. TypeOK /\ WindowsPaired /\ SeenStill
  BY DEF TradeInv
<1>1. /\ Talks(w) /\ check' = check \cup {w}
      /\ seen' = [seen EXCEPT ![w] = Both(w)]
      /\ accepting' = IF Other(w) \in check THEN {w} ELSE {}
      /\ refused' = {}
      /\ UNCHANGED <<place, online, open, linked, kept, waits, offer, purse,
                     meddled>>
  BY DEF Check, talk
<1>2. Both(w) \in (SUBSET Items) \X (SUBSET Items)
  BY DEF Both, Content
<1>3. /\ seen' \in [Windows -> (SUBSET Items) \X (SUBSET Items)]
      /\ \A x \in Windows : x # w => seen'[x] = seen[x]
      /\ seen'[w] = Both(w)
  BY <1>0, <1>1, <1>2 DEF TypeOK
<1>4. Pair(w) = {w, Other(w)} /\ w \in linked
  BY <1>1, WindowsApart DEF Talks
<1>5. TypeOK'
  BY <1>0, <1>1, <1>3, <1>4 DEF TypeOK
<1>6. WindowsPaired'
  BY <1>0, <1>1 DEF WindowsPaired
<1>7. SeenStill'
  <2>1. \A x : Both(x)' = Both(x)
    BY <1>1 DEF Both, Content
  <2>2. QED
    BY <1>0, <1>1, <1>3, <2>1 DEF TypeOK, SeenStill
<1>8. Agreed'
  <2>1. Talks(w)'
    BY <1>1 DEF Talks
  <2>2. accepting' # {} => accepting' = {w} /\ Pair(w) \subseteq check'
    BY <1>1, <1>4
  <2>3. QED
    BY <2>1, <2>2 DEF Agreed
<1>9. QED
  BY <1>5, <1>6, <1>7, <1>8 DEF TradeInv

LEMMA WaitOverInv ==
  ASSUME TradeInv, NEW w \in Windows, WaitOver(w)
  PROVE  TradeInv'
<1>1. TypeOK
  BY DEF TradeInv
<1>2. QED
  BY <1>1, SameTradeInv DEF WaitOver, TypeOK, Idle, NotAsked

LEMMA DeclineInv ==
  ASSUME TradeInv, NEW w \in Windows, Decline(w)
  PROVE  TradeInv'
<1>1. TypeOK
  BY DEF TradeInv
<1>2. QED
  BY <1>1, SameTradeInv DEF Decline, TypeOK, Answered

LEMMA UpdateGoldInv ==
  ASSUME TradeInv, NEW w \in Windows, NEW gold \in Nat, UpdateGold(w, gold)
  PROVE  TradeInv'
<1>1. TypeOK
  BY DEF TradeInv
<1>2. w[1] \in Chars
  BY WindowsApart
<1>3. purse[w[1]] \in Int /\ purse[w[1]] >= 0
  BY <1>1, <1>2 DEF TypeOK, UpdateGold
<1>4. offer' \in [Windows -> Nat]
  BY <1>1, <1>3 DEF TypeOK, UpdateGold
<1>5. QED
  BY <1>1, <1>4, SameTradeInv DEF UpdateGold, TypeOK, Idle, NotAsked

LEMMA SpendInv ==
  ASSUME TradeInv, NEW c \in Chars, Spend(c)
  PROVE  TradeInv'
<1>1. TypeOK
  BY DEF TradeInv
<1>2. purse' \in [Chars -> Int]
  BY <1>1 DEF TypeOK, Spend
<1>3. QED
  BY <1>1, <1>2, SameTradeInv DEF Spend, TypeOK, NotAsked

LEMMA ClientAttachInv ==
  ASSUME TradeInv, NEW c \in Chars, ClientAttach(c)
  PROVE  TradeInv'
<1>1. TypeOK
  BY DEF TradeInv
<1>2. QED
  BY <1>1, SameTradeInv DEF ClientAttach, TypeOK, Idle, NotAsked

LEMMA TradeInvNext == TradeInv /\ [Next]_vars => TradeInv'
<1> SUFFICES ASSUME TradeInv, [Next]_vars PROVE TradeInv'
  OBVIOUS
<1>1. ASSUME NEW w \in Windows,
             \/ Open(w) \/ WaitOver(w) \/ Uncheck(w) \/ Check(w) \/ Decline(w)
      PROVE  TradeInv'
  BY <1>1, OpenInv, WaitOverInv, UncheckInv, CheckInv, DeclineInv
<1>2. ASSUME NEW w \in Windows, NEW i \in Items, Add(w, i) \/ TakeOut(w, i)
      PROVE  TradeInv'
  BY <1>2, AddInv, TakeOutInv
<1>3. ASSUME NEW w \in Windows, NEW g \in 1..2, UpdateGold(w, g)
      PROVE  TradeInv'
  BY <1>3, UpdateGoldInv
<1>4. ASSUME NEW order \in Orders(Offered), NEW refuse \in Refusals,
             NEW keep \in Keeping, NEW w \in Windows,
             \/ Exchange(order, refuse, keep, w)
             \/ ExchangeKept(order, refuse, w)
             \/ Close(order, refuse, keep, w)
      PROVE  TradeInv'
  BY <1>4, ExchangeInv, ExchangeKeptInv, CloseInv
<1>5. ASSUME NEW order \in Orders(Offered), NEW refuse \in Refusals,
             NEW keep \in Keeping, NEW c \in Chars,
             NEW worn \in Orders(WindowsOf(c)),
             ClientDetach(order, refuse, keep, worn, c)
      PROVE  TradeInv'
  BY <1>5, ClientDetachInv
<1>6. ASSUME NEW order \in Orders(Offered), NEW refuse \in Refusals,
             NEW again \in Refusals, NEW keep \in Keeping, NEW c \in Chars,
             NEW worn \in Orders(WindowsOf(c)),
             Death(order, refuse, again, keep, worn, c)
      PROVE  TradeInv'
  BY <1>6, DeathInv
<1>7. ASSUME NEW c \in Chars, ClientAttach(c) \/ Spend(c)
      PROVE  TradeInv'
  BY <1>7, ClientAttachInv, SpendInv
<1>8. CASE UNCHANGED vars
  <2>1. TypeOK
    BY DEF TradeInv
  <2>2. QED
    BY <1>8, <2>1, SameTradeInv DEF vars, talk, TypeOK
<1>9. QED
  BY <1>1, <1>2, <1>3, <1>4, <1>5, <1>6, <1>7, <1>8 DEF Next

LEMMA TradeInvariance == Spec => []TradeInv
<1>1. TradeInv /\ [Next]_vars => TradeInv'
  BY TradeInvNext
<1>2. QED
  BY <1>1, InitTrade, PTL DEF Spec

-----------------------------------------------------------------------------
(* What changes hands *)

\* Nobody has what he had not.
NobodyGains ==
    \A c \in Chars, i \in Items : Carried(place', c, i) => Carried(place, c, i)

LEMMA CarriedHere ==
  ASSUME NEW p, NEW i, NEW w \in Windows, p[i] \in {In(w), Pack(w[1])}, NEW c
  PROVE  Carried(p, c, i) <=> c = w[1]
<1>1. CASE p[i] = In(w)
  BY <1>1, CarriedInWindow
<1>2. CASE p[i] = Pack(w[1])
  BY <1>2, CarriedElsewhere
<1>3. QED
  BY <1>1, <1>2

LEMMA MovedGains ==
  ASSUME NEW w \in Windows, NEW i \in Items,
         \A j \in Items : j # i => place'[j] = place[j],
         {place[i], place'[i]} = {In(w), Pack(w[1])}
  PROVE  NobodyGains
<1>1. ASSUME NEW c \in Chars, NEW j \in Items, Carried(place', c, j)
      PROVE  Carried(place, c, j)
  <2>1. CASE j = i
    <3>1. /\ place[j] \in {In(w), Pack(w[1])}
          /\ place'[j] \in {In(w), Pack(w[1])}
      BY <2>1
    <3>2. Carried(place', c, j) <=> c = w[1]
      BY <3>1, CarriedHere
    <3>3. Carried(place, c, j) <=> c = w[1]
      BY <3>1, CarriedHere
    <3>4. QED
      BY <1>1, <3>2, <3>3
  <2>2. CASE j # i
    <3>1. place'[j] = place[j]
      BY <2>2
    <3>2. QED
      BY <1>1, <3>1, SamePlace
  <2>3. QED
    BY <2>1, <2>2
<1>2. QED
  BY <1>1 DEF NobodyGains

LEMMA GoesBackGains ==
  ASSUME NEW W \in SUBSET Windows, NEW R, GivesBack(place, place', W, R)
  PROVE  NobodyGains
BY GoesBackCarried DEF GivesBack, NobodyGains

LEMMA DeathGains ==
  ASSUME TypeOK, NEW order \in Orders(Offered), NEW refuse, NEW again,
         NEW keep, NEW c \in Chars, NEW worn \in Orders(WindowsOf(c)),
         Death(order, refuse, again, keep, worn, c)
  PROVE  NobodyGains
<1>1. PICK given : DeathGives(c, given)
  BY DeathMoves
<1>2. /\ WindowsOf(c) \in SUBSET Windows
      /\ Parted(WindowsOf(c)) \in SUBSET Windows
  BY WindowsOfWears, PartedDoes
<1>3. /\ given \in Placements
      /\ GoesBack(place, given, Parted(WindowsOf(c)))
      /\ GoesBack(Dropped(given, c), place', WindowsOf(c))
  BY <1>1 DEF DeathGives, Keeps, GivesBack
<1>4. ASSUME NEW d \in Chars, NEW i \in Items, Carried(place', d, i)
      PROVE  Carried(place, d, i)
  <2>1. Carried(Dropped(given, c), d, i)
    BY <1>2, <1>3, <1>4, GoesBackCarried
  <2>2. Dropped(given, c)[i] = given[i]
    BY <1>3, <2>1, DroppedDoes, CarriedElsewhere
  <2>3. Carried(given, d, i)
    BY <2>1, <2>2, SamePlace
  <2>4. QED
    BY <1>2, <1>3, <2>3, GoesBackCarried
<1>5. QED
  BY <1>4 DEF NobodyGains

\* All is exchanged, whether the windows go or stay.
Exchanges(w) ==
    \E order \in Orders(Offered), refuse \in Refusals, keep \in Keeping :
        Exchange(order, refuse, keep, w) \/ ExchangeKept(order, refuse, w)

\* But for an exchange, nothing changes hands.
LEMMA OthersGainNothing ==
  ASSUME TypeOK, [Next]_vars, \A w \in Windows : ~Exchanges(w)
  PROVE  NobodyGains
<1>1. place \in Placements
  BY DEF TypeOK, Placements
<1>2. ASSUME place' = place PROVE NobodyGains
  BY <1>2, SamePlace DEF NobodyGains
<1>3. ASSUME NEW w \in Windows,
             Open(w) \/ WaitOver(w) \/ Uncheck(w) \/ Check(w) \/ Decline(w)
      PROVE  NobodyGains
  <2>1. ASSUME NEW i \in Items, place[i] = Pack(w[1]),
               place' = [place EXCEPT ![i] = In(w)]
        PROVE  NobodyGains
    <3>1. /\ \A j \in Items : j # i => place'[j] = place[j]
          /\ {place[i], place'[i]} = {In(w), Pack(w[1])}
      BY <1>1, <2>1 DEF Placements
    <3>2. QED
      BY <3>1, MovedGains
  <2>2. QED
    BY <1>2, <1>3, <2>1 DEF Open, WaitOver, Uncheck, Check, Decline
<1>4. ASSUME NEW w \in Windows, NEW i \in Items, Add(w, i) \/ TakeOut(w, i)
      PROVE  NobodyGains
  <2>1. /\ \A j \in Items : j # i => place'[j] = place[j]
        /\ {place[i], place'[i]} = {In(w), Pack(w[1])}
    <3>1. CASE Add(w, i)
      BY <1>1, <3>1 DEF Add, Placements
    <3>2. CASE TakeOut(w, i)
      BY <1>1, <3>2 DEF TakeOut, Placements
    <3>3. QED
      BY <1>4, <3>1, <3>2
  <2>2. QED
    BY <2>1, MovedGains
<1>5. ASSUME NEW w \in Windows, NEW g \in 1..2, UpdateGold(w, g)
      PROVE  NobodyGains
  BY <1>2, <1>5 DEF UpdateGold
<1>6. ASSUME NEW order \in Orders(Offered), NEW refuse \in Refusals,
             NEW keep \in Keeping, NEW w \in Windows,
             Close(order, refuse, keep, w)
      PROVE  NobodyGains
  <2>1. GivesBack(place, place', Parted({w}), refused')
    BY <1>6, CloseMoves
  <2>2. Parted({w}) \in SUBSET Windows
    BY PartedDoes
  <2>3. QED
    BY <2>1, <2>2, GoesBackGains
<1>7. ASSUME NEW order \in Orders(Offered), NEW refuse \in Refusals,
             NEW keep \in Keeping, NEW c \in Chars,
             NEW worn \in Orders(WindowsOf(c)),
             ClientDetach(order, refuse, keep, worn, c)
      PROVE  NobodyGains
  <2>1. GivesBack(place, place', Parted(WindowsOf(c) \ keep), refused')
    BY <1>7, DetachMoves
  <2>2. Parted(WindowsOf(c) \ keep) \in SUBSET Windows
    BY WindowsOfWears, PartedDoes
  <2>3. QED
    BY <2>1, <2>2, GoesBackGains
<1>8. ASSUME NEW c \in Chars, ClientAttach(c) \/ Spend(c)
      PROVE  NobodyGains
  BY <1>2, <1>8 DEF ClientAttach, Spend
<1>9. CASE UNCHANGED vars
  BY <1>2, <1>9 DEF vars
<1>10. QED
  BY <1>3, <1>4, <1>5, <1>6, <1>7, <1>8, <1>9, DeathGains DEF Next, Exchanges

\* What OnlyWhatWasSeen says of a step
SeenStep ==
    \A w \in Windows, i \in Items : ChangesHands(w, i) =>
        /\ place[i] = In(w)
        /\ SeenByBoth(w) \/ meddled \/ Pair(w) \cap kept # {}

\* All that is exchanged was seen, unless scripts have changed or kept it.
LEMMA SwappedSeen ==
  ASSUME TradeInv, NEW y \in Windows, y \in accepting, NEW swapped,
         Swapped(place, swapped, y), GoesBack(swapped, place', Pair(y))
  PROVE  SeenStep
<1> DEFINE z == Other(y)
<1>1. SeenStill /\ Agreed
  BY DEF TradeInv
<1>2. SeenByBoth(y) \/ meddled \/ Pair(y) \cap kept # {}
  <2>1. ASSUME ~meddled, Pair(y) \cap kept = {}, NEW x \in Pair(y)
        PROVE  x \in check /\ seen[x] = Both(x)
    <3>1. x \in check
      BY <1>1, <2>1 DEF Agreed
    <3>2. Pair(x) = Pair(y)
      BY <2>1, WindowsApart DEF Pair
    <3>3. QED
      BY <1>1, <2>1, <3>1, <3>2 DEF SeenStill
  <2>2. QED
    BY <2>1 DEF SeenByBoth
<1>3. /\ Pair(y) = {y, z} /\ Pair(z) = Pair(y) /\ z \in Windows
      /\ Other(z) = y /\ z[1] = y[2] /\ z[2] = y[1]
  BY WindowsApart DEF Pair
<1>4. ASSUME NEW w \in Windows, NEW i \in Items, ChangesHands(w, i)
      PROVE  place[i] = In(w) /\ Pair(w) = Pair(y)
  <2>1. w[1] \in Chars /\ w[2] \in Chars /\ w[1] # w[2]
    BY WindowsApart
  <2>2. /\ Carried(place, w[1], i) /\ ~Carried(place, w[2], i)
        /\ Carried(place', w[2], i)
    BY <1>4, <2>1 DEF ChangesHands, Owner
  <2>3. Carried(swapped, w[2], i)
    <3>1. Pair(y) \in SUBSET Windows
      BY <1>3
    <3>2. QED
      BY <2>1, <2>2, <3>1, GoesBackCarried
  <2>4. swapped[i] # place[i]
    BY <2>2, <2>3, SamePlace
  <2>5. CASE place[i] = In(z) /\ swapped[i] = Pack(y[1])
    <3>1. w[1] = z[1] /\ w[2] = y[1]
      BY <1>3, <2>2, <2>3, <2>5, CarriedInWindow, CarriedElsewhere
    <3>2. w = z
      BY <1>3, <3>1, WindowsApart
    <3>3. QED
      BY <1>3, <2>5, <3>2
  <2>6. CASE place[i] = In(y) /\ swapped[i] = Pack(y[2])
    <3>1. w[1] = y[1] /\ w[2] = y[2]
      BY <2>2, <2>3, <2>6, CarriedInWindow, CarriedElsewhere
    <3>2. w = y
      BY <3>1, WindowsApart
    <3>3. QED
      BY <2>6, <3>2
  <2>7. QED
    BY <2>4, <2>5, <2>6 DEF Swapped
<1>5. QED
  BY <1>2, <1>4 DEF SeenStep, SeenByBoth

LEMMA ExchangesSeen ==
  ASSUME TradeInv, NEW y \in Windows, Exchanges(y)
  PROVE  SeenStep
<1>1. TypeOK
  BY DEF TradeInv
<1>2. PICK order \in Orders(Offered), refuse \in Refusals, keep \in Keeping :
          Exchange(order, refuse, keep, y) \/ ExchangeKept(order, refuse, y)
  BY DEF Exchanges
<1>3. CASE Exchange(order, refuse, keep, y)
  <2>1. PICK swapped : ExchangeGives(y, swapped)
    BY <1>1, <1>3, ExchangeMoves
  <2>2. Parted({y}) = Pair(y)
    BY WindowsApart DEF Parted
  <2>3. Swapped(place, swapped, y) /\ GoesBack(swapped, place', Pair(y))
    BY <2>1, <2>2 DEF ExchangeGives, GivesBack
  <2>4. y \in accepting
    BY <1>3 DEF Exchange
  <2>5. QED
    BY <2>3, <2>4, SwappedSeen
<1>4. CASE ExchangeKept(order, refuse, y)
  <2>1. y \in accepting /\ place' = Transferred(order, refuse, y)
    BY <1>4 DEF ExchangeKept
  <2>2. Swapped(place, place', y)
    BY <1>1, <2>1, TransferredDoes
  <2>3. GoesBack(place', place', Pair(y))
    BY DEF GoesBack
  <2>4. QED
    BY <2>1, <2>2, <2>3, SwappedSeen
<1>5. QED
  BY <1>2, <1>3, <1>4

LEMMA SeenNext == TradeInv /\ [Next]_vars => SeenStep
<1> SUFFICES ASSUME TradeInv, [Next]_vars PROVE SeenStep
  OBVIOUS
<1>1. CASE \E w \in Windows : Exchanges(w)
  BY <1>1, ExchangesSeen
<1>2. CASE ~ \E w \in Windows : Exchanges(w)
  <2>1. NobodyGains
    BY <1>2, OthersGainNothing DEF TradeInv
  <2>2. ASSUME NEW w \in Windows, NEW i \in Items, ChangesHands(w, i)
        PROVE  FALSE
    BY <2>1, <2>2, WindowsApart DEF ChangesHands, Owner, NobodyGains
  <2>3. QED
    BY <2>2 DEF SeenStep
<1>3. QED
  BY <1>1, <1>2

\* Nothing changes hands but out of a window that both saw as it is now, when
\* both had pressed the button: whatever is put in or taken out in between
\* unchecks both (Trade_Status(false) in ContentAdd() and OnRemoveObj()), unless
\* a script of @TradeAccepted does it, after which nobody looks, or a window was
\* kept by its @Destroy, and its player was away.
THEOREM NothingUnseen == Spec => OnlyWhatWasSeen
<1>1. TradeInv /\ [Next]_vars => SeenStep
  BY SeenNext
<1>2. QED
  BY <1>1, TradeInvariance, PTL DEF Spec, OnlyWhatWasSeen, SeenStep

-----------------------------------------------------------------------------
(* What is lost *)

LEMMA BackIs ==
  ASSUME NEW i \in Items
  PROVE  /\ place'[i] = Lost => Back[i] = place[i]
         /\ place'[i] # Lost => Back[i] = place'[i]
BY DEF Back

\* What LostOnlyTooHeavy says of a step
HeavyStep ==
    \A w \in Windows, i \in Items :
        place[i] = In(w) /\ place'[i] = Lost => Held(Back, w[1], i, refused')

\* Items that are only given back
LEMMA GivesBackHeavy ==
  ASSUME NEW W \in SUBSET Windows, GivesBack(place, place', W, refused')
  PROVE  HeavyStep
<1>1. GoesBack(place, place', W) /\ LostHeavy(place, place', refused')
  BY DEF GivesBack
<1>2. ASSUME NEW w \in Windows, NEW i \in Items,
             place[i] = In(w), place'[i] = Lost
      PROVE  Held(Back, w[1], i, refused')
  <2>1. Held(place, w[1], i, refused') /\ w[1] \in Chars
    BY <1>1, <1>2, WindowsApart DEF LostHeavy
  <2>2. ASSUME NEW j \in Items, Carried(place, w[1], j)
        PROVE  Carried(Back, w[1], j)
    <3>1. CASE place'[j] = Lost
      BY <2>2, <3>1, BackIs, SamePlace
    <3>2. CASE place'[j] # Lost
      <4>1. Carried(place', w[1], j)
        BY <1>1, <2>2, <3>2, GoesBackCarried
      <4>2. QED
        BY <3>2, <4>1, BackIs, SamePlace
    <3>3. QED
      BY <3>1, <3>2
  <2>3. QED
    BY <2>1, <2>2, HeldMore
<1>3. QED
  BY <1>2 DEF HeavyStep

\* In an exchange it counts what everybody has when all is given away.
LEMMA ExchangeHeavy ==
  ASSUME TypeOK, NEW order \in Orders(Offered), NEW refuse, NEW keep,
         NEW y \in Windows, Exchange(order, refuse, keep, y)
  PROVE  HeavyStep
<1> DEFINE z == Other(y)
<1>1. PICK swapped : ExchangeGives(y, swapped)
  BY ExchangeMoves
<1>0. Parted({y}) = Pair(y)
  BY WindowsApart DEF Parted
<1>2. /\ Swapped(place, swapped, y)
      /\ GoesBack(swapped, place', Pair(y)) /\ LostHeavy(swapped, place', refused')
  BY <1>0, <1>1 DEF ExchangeGives, GivesBack
<1>3. Pair(y) \in SUBSET Windows
  BY WindowsApart
<1>4. ASSUME NEW j \in Items, place'[j] = Lost
      PROVE  swapped[j] = place[j]
  <2>1. \A c : swapped[j] # Pack(c)
    BY <1>2, <1>4, PlacesApart DEF GoesBack
  <2>2. QED
    BY <1>2, <2>1 DEF Swapped
<1>5. ASSUME NEW w \in Windows, NEW i \in Items,
             place[i] = In(w), place'[i] = Lost
      PROVE  Held(Back, w[1], i, refused')
  <2>1. swapped[i] = In(w)
    BY <1>4, <1>5
  <2>2. Held(swapped, w[1], i, refused') /\ w[1] \in Chars
    BY <1>2, <1>5, <2>1, WindowsApart DEF LostHeavy
  <2>3. ASSUME NEW j \in Items, Carried(swapped, w[1], j)
        PROVE  Carried(Back, w[1], j)
    <3>1. CASE place'[j] = Lost
      BY <1>4, <2>3, <3>1, BackIs, SamePlace
    <3>2. CASE place'[j] # Lost
      <4>1. Carried(place', w[1], j)
        BY <1>2, <1>3, <2>3, <3>2, GoesBackCarried
      <4>2. QED
        BY <3>2, <4>1, BackIs, SamePlace
    <3>3. QED
      BY <3>1, <3>2
  <2>4. QED
    BY <2>2, <2>3, HeldMore
<1>6. QED
  BY <1>5 DEF HeavyStep

\* In a death what is lost at first is another's, and what is lost at last is
\* too heavy even when the pack is empty.
LEMMA DeathHeavy ==
  ASSUME TypeOK, NEW order \in Orders(Offered), NEW refuse, NEW again,
         NEW keep, NEW c \in Chars, NEW worn \in Orders(WindowsOf(c)),
         Death(order, refuse, again, keep, worn, c)
  PROVE  HeavyStep
<1> DEFINE ws == WindowsOf(c)
<1>1. PICK given : DeathGives(c, given)
  BY DeathMoves
<1>2. /\ ws \in SUBSET Windows /\ Parted(ws) \in SUBSET Windows
      /\ \A x \in ws : x[1] = c
      /\ \A x \in Windows : x \in Parted(ws) => x \in ws \/ Other(x) \in ws
  <2>1. ws \in SUBSET Windows /\ \A x \in ws : x[1] = c
    BY WindowsOfWears
  <2>2. Parted(ws) \in SUBSET Windows
    BY <2>1, PartedDoes
  <2>3. \A x \in Windows : x \in Parted(ws) => x \in ws \/ Other(x) \in ws
    BY <2>1, WindowsApart DEF Parted
  <2>4. QED
    BY <2>1, <2>2, <2>3
<1> DEFINE dropped == Dropped(given, c)
<1>3. /\ given \in Placements /\ given \in Keeps(place, ws, c)
      /\ GoesBack(place, given, Parted(ws)) /\ LostHeavy(place, given, refused')
      /\ GoesBack(dropped, place', ws) /\ LostHeavy(dropped, place', refused')
  BY <1>1 DEF DeathGives, Keeps, GivesBack
<1>4. \A i \in Items : /\ given[i] = Pack(c) => dropped[i] = Corpse
                       /\ given[i] # Pack(c) => dropped[i] = given[i]
  BY <1>3, DroppedDoes
<1> HIDE DEF ws, dropped
\* Who has something at the first or at the second loss
<1>5. ASSUME NEW d \in Chars, NEW j \in Items,
             (d # c /\ Carried(place, d, j)) \/ Carried(dropped, d, j)
      PROVE  Carried(Back, d, j)
  <2>1. CASE place'[j] = Lost
    <3>1. CASE Carried(dropped, d, j)
      <4>1. dropped[j] # Corpse
        BY <3>1, CarriedElsewhere
      <4>2. Carried(given, d, j)
        BY <1>4, <3>1, <4>1, SamePlace
      <4>3. Carried(place, d, j)
        BY <1>2, <1>3, <4>2, GoesBackCarried
      <4>4. QED
        BY <2>1, <4>3, BackIs, SamePlace
    <3>2. CASE Carried(place, d, j)
      BY <2>1, <3>2, BackIs, SamePlace
    <3>3. QED
      BY <1>5, <3>1, <3>2
  <2>2. CASE place'[j] # Lost
    <3>1. dropped[j] # Lost
      BY <1>2, <1>3, <2>2, GoesBackIn
    <3>2. CASE Carried(dropped, d, j)
      <4>1. Carried(place', d, j)
        BY <1>2, <1>3, <2>2, <3>2, GoesBackCarried
      <4>2. QED
        BY <2>2, <4>1, BackIs, SamePlace
    <3>3. CASE d # c /\ Carried(place, d, j)
      <4>1. given[j] # Lost
        BY <1>4, <3>1, PlacesApart
      <4>2. Carried(given, d, j)
        BY <1>2, <1>3, <3>3, <4>1, GoesBackCarried
      <4>3. given[j] # Pack(c)
        BY <3>3, <4>2, CarriedElsewhere
      <4>4. Carried(dropped, d, j)
        BY <1>4, <4>2, <4>3, SamePlace
      <4>5. QED
        BY <3>2, <4>4
    <3>4. QED
      BY <1>5, <3>2, <3>3
  <2>3. QED
    BY <2>1, <2>2
<1>6. ASSUME NEW w \in Windows, NEW i \in Items,
             place[i] = In(w), place'[i] = Lost
      PROVE  Held(Back, w[1], i, refused')
  <2>0. w[1] \in Chars
    BY WindowsApart
  <2>1. CASE given[i] = Lost
    <3>1. w[1] # c
      <4>1. w \in Parted(ws)
        BY <1>2, <1>3, <1>6, <2>1, PlacesApart, GoesBackIn
      <4>2. w \notin ws
        BY <1>3, <1>6, <2>1, PlacesApart DEF Keeps
      <4>3. Other(w)[1] = c
        BY <1>2, <4>1, <4>2
      <4>4. QED
        BY <4>3, WindowsApart
    <3>2. Held(place, w[1], i, refused')
      BY <1>3, <1>6, <2>1 DEF LostHeavy
    <3>3. QED
      BY <1>5, <2>0, <3>1, <3>2, HeldMore
  <2>2. CASE given[i] # Lost
    <3>1. dropped[i] # Lost
      BY <1>4, <2>2, PlacesApart
    <3>2. PICK x \in ws : dropped[i] = In(x)
      BY <1>3, <1>6, <3>1 DEF GoesBack
    <3>3. given[i] = In(x)
      BY <1>4, <3>2, PlacesApart
    <3>4. x = w
      BY <1>2, <1>3, <1>6, <3>3, GoesBackIn, WindowsApart
    <3>5. Held(dropped, w[1], i, refused')
      BY <1>3, <1>6, <3>2, <3>4 DEF LostHeavy
    <3>6. QED
      BY <1>5, <2>0, <3>5, HeldMore
  <2>3. QED
    BY <2>1, <2>2
<1>7. QED
  BY <1>6 DEF HeavyStep

LEMMA HeavyNext == TypeOK /\ [Next]_vars => HeavyStep
<1> SUFFICES ASSUME TypeOK, [Next]_vars PROVE HeavyStep
  OBVIOUS
<1>0. place \in Placements
  BY DEF TypeOK, Placements
<1>1. ASSUME \A i \in Items : place'[i] = Lost => place[i] = Lost
      PROVE  HeavyStep
  BY <1>1, PlacesApart DEF HeavyStep
<1>2. ASSUME place' = place PROVE HeavyStep
  BY <1>1, <1>2
<1>3. ASSUME NEW i \in Items, NEW to \in Places \ {Lost},
             place' = [place EXCEPT ![i] = to]
      PROVE  HeavyStep
  BY <1>0, <1>1, <1>3 DEF Placements
<1>4. ASSUME NEW w \in Windows,
             Open(w) \/ WaitOver(w) \/ Uncheck(w) \/ Check(w) \/ Decline(w)
      PROVE  HeavyStep
  <2>1. In(w) \in Places \ {Lost}
    BY PlacesApart, WindowsApart
  <2>2. QED
    BY <1>2, <1>3, <1>4, <2>1 DEF Open, WaitOver, Uncheck, Check, Decline
<1>5. ASSUME NEW w \in Windows, NEW i \in Items, Add(w, i) \/ TakeOut(w, i)
      PROVE  HeavyStep
  <2>1. In(w) \in Places \ {Lost} /\ Pack(w[1]) \in Places \ {Lost}
    BY PlacesApart, WindowsApart
  <2>2. QED
    BY <1>3, <1>5, <2>1 DEF Add, TakeOut
<1>6. ASSUME NEW w \in Windows, NEW g \in 1..2, UpdateGold(w, g)
      PROVE  HeavyStep
  BY <1>2, <1>6 DEF UpdateGold
<1>7. ASSUME NEW order \in Orders(Offered), NEW refuse \in Refusals,
             NEW keep \in Keeping, NEW w \in Windows,
             \/ Exchange(order, refuse, keep, w)
             \/ ExchangeKept(order, refuse, w)
             \/ Close(order, refuse, keep, w)
      PROVE  HeavyStep
  <2>1. CASE Exchange(order, refuse, keep, w)
    BY <2>1, ExchangeHeavy
  <2>2. CASE ExchangeKept(order, refuse, w)
    <3>1. place' = Transferred(order, refuse, w)
      BY <2>2 DEF ExchangeKept
    <3>2. Swapped(place, place', w)
      BY <3>1, TransferredDoes
    <3>3. QED
      BY <1>1, <3>2, PlacesApart DEF Swapped
  <2>3. CASE Close(order, refuse, keep, w)
    <3>1. GivesBack(place, place', Parted({w}), refused')
      BY <2>3, CloseMoves
    <3>2. Parted({w}) \in SUBSET Windows
      BY PartedDoes
    <3>3. QED
      BY <3>1, <3>2, GivesBackHeavy
  <2>4. QED
    BY <1>7, <2>1, <2>2, <2>3
<1>8. ASSUME NEW order \in Orders(Offered), NEW refuse \in Refusals,
             NEW again \in Refusals, NEW keep \in Keeping, NEW c \in Chars,
             NEW worn \in Orders(WindowsOf(c)),
             \/ ClientDetach(order, refuse, keep, worn, c)
             \/ Death(order, refuse, again, keep, worn, c)
      PROVE  HeavyStep
  <2>1. CASE ClientDetach(order, refuse, keep, worn, c)
    <3>1. GivesBack(place, place', Parted(WindowsOf(c) \ keep), refused')
      BY <2>1, DetachMoves
    <3>2. Parted(WindowsOf(c) \ keep) \in SUBSET Windows
      BY WindowsOfWears, PartedDoes
    <3>3. QED
      BY <3>1, <3>2, GivesBackHeavy
  <2>2. QED
    BY <1>8, <2>1, DeathHeavy
<1>9. ASSUME NEW c \in Chars, ClientAttach(c) \/ Spend(c)
      PROVE  HeavyStep
  BY <1>2, <1>9 DEF ClientAttach, Spend
<1>10. CASE UNCHANGED vars
  BY <1>2, <1>10 DEF vars
<1>11. QED
  BY <1>4, <1>5, <1>6, <1>7, <1>8, <1>9, <1>10 DEF Next

\* What is destroyed with a window is so heavy that its owner cannot carry it on
\* top of all he has, or was just refused in his pack, whatever deletes the
\* window: Trade_Delete() first has each item of both windows bounced to who
\* wears them.
THEOREM OnlyTooHeavyLost == Spec => LostOnlyTooHeavy
<1>1. TradeInv /\ [Next]_vars => HeavyStep
  BY HeavyNext DEF TradeInv
<1>2. QED
  BY <1>1, TradeInvariance, PTL DEF Spec, LostOnlyTooHeavy, HeavyStep, Held

\* Every step of trade keeps the types.
THEOREM TypeCorrect == Spec => []TypeOK
<1>1. TradeInv => TypeOK
  BY DEF TradeInv
<1>2. QED
  BY <1>1, TradeInvariance, PTL

\* Windows come and go in pairs, linked to each other, of two who are online,
\* unless @Destroy kept one, and nothing is in a window that has gone: whichever
\* handler deletes one, the window of the partner is unlinked, emptied and
\* deleted with it (Trade_Delete()).
THEOREM AlwaysPaired == Spec => []WindowsPaired
<1>1. TradeInv => WindowsPaired
  BY DEF TradeInv
<1>2. QED
  BY <1>1, TradeInvariance, PTL

-----------------------------------------------------------------------------
(* The address history: the invariant *)

\* An entry whose time is over counts nobody.
Entries ==
    {e \in HistoryIP : e.ttl < 0 => e.connected <= 0 /\ e.connecting <= 0}

\* No address has two.
Histories ==
    {list \in Seq(Entries) :
        \A i, j \in DOMAIN list : list[i].ip = list[j].ip => i = j}

\* A client in a slot knows it, and the slot knows where he came from.
InSlots ==
    \A s \in Slots : client[s] # None =>
        /\ client[s] \in 1..tries /\ client[s] \notin dying
        /\ net[client[s]] = s /\ of[client[s]] = peer[s] /\ peer[s] \in IPs

ToDelete ==
    \A c \in dying : /\ c \in 1..tries /\ net[c] \in Slots
                     /\ peer[net[c]] \in IPs /\ of[c] \in IPs

IPInv ==
    /\ IPTypeOK /\ ips \in Histories
    /\ InSlots /\ ToDelete /\ game \subseteq 1..tries

-----------------------------------------------------------------------------
LEMMA IPNumbers ==
  /\ SlotCount \in Nat /\ MaxTries \in Nat /\ MaxRelays \in Nat
  /\ TTL \in Nat /\ PingDecay \in Nat /\ Timeout \in Nat
  /\ NoIP \notin IPs
  BY BoundsAssumption, AddressAssumption

LEMMA HistoriesAre ==
  ASSUME NEW list \in Histories
  PROVE  /\ list \in Seq(Entries) /\ list \in Seq(HistoryIP)
         /\ Len(list) \in Nat /\ DOMAIN list = 1..Len(list)
         /\ \A i \in DOMAIN list : list[i] \in Entries /\ list[i] \in HistoryIP
                                   /\ list[i].ip \in IPs
<1>1. list \in Seq(Entries)
  BY DEF Histories
<1>2. Len(list) \in Nat /\ DOMAIN list = 1..Len(list)
  BY <1>1
<1>3. \A i \in DOMAIN list : list[i] \in Entries
  BY <1>1
<1>4. \A i \in DOMAIN list : list[i] \in HistoryIP /\ list[i].ip \in IPs
  BY <1>3 DEF Entries, HistoryIP
<1>5. list \in Seq(HistoryIP)
  <2>1. list = [i \in 1..Len(list) |-> list[i]]
    BY <1>1, <1>2
  <2>2. QED
    BY <1>2, <1>4, <2>1
<1>6. QED
  BY <1>1, <1>2, <1>3, <1>4, <1>5

\* What makes a list one of those
LEMMA HistoriesMade ==
  ASSUME NEW n \in Nat, NEW list, list = [i \in 1..n |-> list[i]],
         \A i \in 1..n : list[i] \in Entries,
         \A i, j \in 1..n : list[i].ip = list[j].ip => i = j
  PROVE  list \in Histories /\ DOMAIN list = 1..n
<1>1. list \in Seq(Entries) /\ DOMAIN list = 1..n
  OBVIOUS
<1>2. QED
  BY <1>1 DEF Histories

LEMMA NewHistoryDoes ==
  ASSUME NEW ip \in IPs
  PROVE  /\ NewHistory(ip) \in Entries /\ NewHistory(ip).ip = ip
         /\ NewHistory(ip).connected = 0 /\ NewHistory(ip).connecting = 0
  BY IPNumbers DEF NewHistory, Entries, HistoryIP, Forever

\* What the list has for an address, and that it has nothing
LEMMA EntryIs ==
  ASSUME NEW list \in Histories, NEW ip
  PROVE  /\ \A i \in DOMAIN list : list[i].ip = ip => Entry(list, ip) = list[i]
         /\ (\A i \in DOMAIN list : list[i].ip # ip)
               => Entry(list, ip) = NewHistory(ip)
<1>1. ASSUME NEW i \in DOMAIN list, list[i].ip = ip
      PROVE  Entry(list, ip) = list[i]
  <2>1. Place(list, ip) = {i}
    BY <1>1 DEF Place, Histories
  <2>2. QED
    BY <2>1 DEF Entry
<1>2. ASSUME \A i \in DOMAIN list : list[i].ip # ip
      PROVE  Entry(list, ip) = NewHistory(ip)
  BY <1>2 DEF Entry, Place
<1>3. QED
  BY <1>1, <1>2

LEMMA EntryDoes ==
  ASSUME NEW list \in Histories, NEW ip \in IPs
  PROVE  Entry(list, ip) \in Entries /\ Entry(list, ip).ip = ip
<1>1. CASE \E i \in DOMAIN list : list[i].ip = ip
  BY <1>1, EntryIs, HistoriesAre
<1>2. CASE \A i \in DOMAIN list : list[i].ip # ip
  BY <1>2, EntryIs, NewHistoryDoes
<1>3. QED
  BY <1>1, <1>2

\* The entry of one address is changed and no other.
LEMMA UpdateDoes ==
  ASSUME NEW list \in Histories, NEW e \in Entries
  PROVE  /\ Update(list, e) \in Histories
         /\ Entry(Update(list, e), e.ip) = e
         /\ \A ip \in IPs \ {e.ip} :
               Entry(Update(list, e), ip) = Entry(list, ip)
<1>0. /\ Len(list) \in Nat /\ DOMAIN list = 1..Len(list)
      /\ list \in Seq(Entries)
      /\ \A i \in DOMAIN list : list[i] \in Entries
      /\ \A i, j \in DOMAIN list : list[i].ip = list[j].ip => i = j
  BY HistoriesAre DEF Histories
<1> DEFINE at == Place(list, e.ip)
           new == Update(list, e)
<1>1. CASE at = {}
  <2>1. new = Append(list, e)
    BY <1>1 DEF Update
  <2>3. \A i \in 1..Len(list) : list[i].ip # e.ip
    BY <1>0, <1>1 DEF Place
  <2> HIDE DEF at, new
  <2>2. /\ Len(list) + 1 \in Nat
        /\ new = [i \in 1..Len(list) + 1 |-> new[i]]
        /\ \A i \in 1..Len(list) : new[i] = list[i]
        /\ new[Len(list) + 1] = e
    <3>1. list \in Seq(Entries) /\ Len(list) \in Nat
      BY <1>0
    <3>2. /\ new \in Seq(Entries) /\ Len(new) = Len(list) + 1
          /\ \A i \in 1..Len(list) : new[i] = list[i]
          /\ new[Len(list) + 1] = e
      BY <2>1, <3>1
    <3>3. QED
      BY <3>1, <3>2
  <2>4. \A i \in 1..Len(list) + 1 : i = Len(list) + 1 \/ i \in 1..Len(list)
    BY <1>0
  <2>5. new \in Histories /\ DOMAIN new = 1..Len(list) + 1
    <3>1. \A i \in 1..Len(list) + 1 : new[i] \in Entries
      BY <1>0, <2>2, <2>4
    <3>2. ASSUME NEW i \in 1..Len(list) + 1, NEW j \in 1..Len(list) + 1,
                 new[i].ip = new[j].ip
          PROVE  i = j
      BY <1>0, <2>2, <2>3, <2>4, <3>2
    <3>3. QED
      BY <2>2, <3>1, <3>2, HistoriesMade
  <2>6. Entry(new, e.ip) = e
    <3>1. Len(list) + 1 \in DOMAIN new
      BY <1>0, <2>5
    <3>2. QED
      BY <2>2, <2>5, <3>1, EntryIs
  <2>7. ASSUME NEW ip \in IPs \ {e.ip} PROVE Entry(new, ip) = Entry(list, ip)
    <3>1. CASE \E i \in DOMAIN list : list[i].ip = ip
      <4>1. PICK i \in DOMAIN list : list[i].ip = ip
        BY <3>1
      <4>2. i \in 1..Len(list) /\ Len(list) \in Nat
        BY <1>0
      <4>3. i \in DOMAIN new /\ new[i] = list[i]
        BY <2>2, <2>5, <4>2
      <4>4. QED
        BY <2>5, <4>1, <4>3, EntryIs
    <3>2. CASE \A i \in DOMAIN list : list[i].ip # ip
      <4>1. \A i \in DOMAIN new : new[i].ip # ip
        BY <1>0, <2>2, <2>4, <2>5, <2>7, <3>2
      <4>2. QED
        BY <2>5, <3>2, <4>1, EntryIs
    <3>3. QED
      BY <3>1, <3>2
  <2>8. QED
    BY <2>5, <2>6, <2>7 DEF new
<1>2. CASE at # {}
  <2>1. /\ new = [i \in 1..Len(list) |-> new[i]]
        /\ \A i \in 1..Len(list) :
              new[i] = IF list[i].ip = e.ip THEN e ELSE list[i]
    BY <1>0, <1>2 DEF Update, Place
  <2>2. PICK k \in DOMAIN list : list[k].ip = e.ip
    BY <1>2 DEF Place
  <2> HIDE DEF at, new
  <2>3. new \in Histories /\ DOMAIN new = 1..Len(list)
    <3>1. \A i \in 1..Len(list) : new[i] \in Entries
      BY <1>0, <2>1
    <3>2. ASSUME NEW i \in 1..Len(list), NEW j \in 1..Len(list),
                 new[i].ip = new[j].ip
          PROVE  i = j
      BY <1>0, <2>1, <3>2
    <3>3. QED
      BY <1>0, <2>1, <3>1, <3>2, HistoriesMade
  <2>4. Entry(new, e.ip) = e
    <3>1. k \in DOMAIN new /\ new[k] = e
      BY <1>0, <2>1, <2>2, <2>3
    <3>2. QED
      BY <2>3, <3>1, EntryIs
  <2>5. ASSUME NEW ip \in IPs \ {e.ip} PROVE Entry(new, ip) = Entry(list, ip)
    <3>1. CASE \E i \in DOMAIN list : list[i].ip = ip
      <4>1. PICK i \in DOMAIN list : list[i].ip = ip
        BY <3>1
      <4>2. i \in DOMAIN new /\ new[i] = list[i]
        BY <1>0, <2>1, <2>3, <2>5, <4>1
      <4>3. QED
        BY <2>3, <4>1, <4>2, EntryIs
    <3>2. CASE \A i \in DOMAIN list : list[i].ip # ip
      <4>1. \A i \in DOMAIN new : new[i].ip # ip
        BY <1>0, <2>1, <2>3, <2>5, <3>2
      <4>2. QED
        BY <2>3, <3>2, <4>1, EntryIs
    <3>3. QED
      BY <3>1, <3>2
  <2>6. QED
    BY <2>3, <2>4, <2>5 DEF new
<1>3. QED
  BY <1>1, <1>2

\* An entry with another time to live, and other pings and counts
Changed(e, t, p, a, b) == [e EXCEPT !.ttl = t, !.pings = p,
                                    !.connected = a, !.connecting = b]

LEMMA ChangedIs ==
  ASSUME NEW e \in Entries, NEW t \in {-1} \cup Nat, NEW p \in Nat,
         NEW a \in Int, NEW b \in Int, t < 0 => a <= 0 /\ b <= 0
  PROVE  /\ Changed(e, t, p, a, b) \in Entries
         /\ Changed(e, t, p, a, b).ip = e.ip
         /\ Changed(e, t, p, a, b).ttl = t
         /\ Changed(e, t, p, a, b).connected = a
         /\ Changed(e, t, p, a, b).connecting = b
<1> DEFINE new == Changed(e, t, p, a, b)
<1>1. e \in HistoryIP
  BY DEF Entries
<1>2. new \in HistoryIP
  BY <1>1 DEF HistoryIP, Changed
<1>3. /\ new.ip = e.ip /\ new.ttl = t
      /\ new.connected = a /\ new.connecting = b
  BY <1>1 DEF HistoryIP, Changed
<1> HIDE DEF new
<1>4. new \in Entries
  BY <1>2, <1>3 DEF Entries
<1>5. QED
  BY <1>3, <1>4 DEF new

\* What the handlers make of an entry is one.
LEMMA EntriesStay ==
  ASSUME NEW e \in Entries
  PROVE  /\ Pinged(e) \in Entries /\ Pinged(e).ip = e.ip
         /\ Pinged(e).connected = e.connected
         /\ Pinged(e).connecting = e.connecting
         /\ Pinged(e).ttl = TTL
         /\ InGame(e) \in Entries /\ InGame(e).ip = e.ip
         /\ InGame(e).connected = e.connected
         /\ InGame(e).connecting = e.connecting - 1
         /\ LeftGame(e) \in Entries /\ LeftGame(e).ip = e.ip
         /\ LeftGame(e).connected = e.connected - 1
         /\ LeftGame(e).connecting = e.connecting
         /\ LeftEarly(e) \in Entries /\ LeftEarly(e).ip = e.ip
         /\ LeftEarly(e).connected = e.connected - 1
         /\ LeftEarly(e).connecting = e.connecting - 1
         /\ Unblocked(e) \in Entries /\ Unblocked(e).ip = e.ip
         /\ Unblocked(e).connected = e.connected
         /\ Unblocked(e).connecting = e.connecting
<1>1. /\ e \in HistoryIP /\ e.connected \in Int /\ e.connecting \in Int
      /\ e.ttl < 0 => e.connected <= 0 /\ e.connecting <= 0
  BY DEF Entries, HistoryIP
<1>2. /\ Pinged(e) \in Entries /\ Pinged(e).ip = e.ip
      /\ Pinged(e).connected = e.connected
      /\ Pinged(e).connecting = e.connecting
      /\ Pinged(e).ttl = TTL
  <2> DEFINE p == IF e.blocked THEN e.pings ELSE e.pings + 1
  <2>1. p \in Nat
    BY DEF Entries, HistoryIP
  <2>2. Pinged(e) = Changed(e, TTL, p, e.connected, e.connecting)
    BY <1>1 DEF Pinged, HistoryIP, Changed
  <2> HIDE DEF p
  <2>3. QED
    BY <1>1, <2>1, <2>2, IPNumbers, ChangedIs
<1>3. /\ InGame(e) \in Entries /\ InGame(e).ip = e.ip
      /\ InGame(e).connected = e.connected
      /\ InGame(e).connecting = e.connecting - 1
  BY <1>1 DEF InGame, Entries, HistoryIP
<1>4. /\ LeftGame(e) \in Entries /\ LeftGame(e).ip = e.ip
      /\ LeftGame(e).connected = e.connected - 1
      /\ LeftGame(e).connecting = e.connecting
  BY <1>1 DEF LeftGame, Entries, HistoryIP
<1>5. /\ LeftEarly(e) \in Entries /\ LeftEarly(e).ip = e.ip
      /\ LeftEarly(e).connected = e.connected - 1
      /\ LeftEarly(e).connecting = e.connecting - 1
  <2>1. LeftEarly(e) = Changed(e, e.ttl, e.pings,
                               e.connected - 1, e.connecting - 1)
    BY <1>1 DEF LeftEarly, HistoryIP, Changed
  <2>2. /\ e.ttl \in {-1} \cup Nat /\ e.pings \in Nat
        /\ e.connected - 1 \in Int /\ e.connecting - 1 \in Int
        /\ e.ttl < 0 => e.connected - 1 <= 0 /\ e.connecting - 1 <= 0
    BY <1>1 DEF HistoryIP
  <2>3. QED
    BY <2>1, <2>2, ChangedIs
<1>6. /\ Unblocked(e) \in Entries /\ Unblocked(e).ip = e.ip
      /\ Unblocked(e).connected = e.connected
      /\ Unblocked(e).connecting = e.connecting
  BY <1>1 DEF Unblocked, Entries, HistoryIP, Forever
<1>7. QED
  BY <1>2, <1>3, <1>4, <1>5, <1>6

LEMMA BlockedStays ==
  ASSUME NEW e \in Entries, NEW timeout \in {Forever, Timeout}
  PROVE  /\ Blocked(e, timeout) \in Entries /\ Blocked(e, timeout).ip = e.ip
         /\ Blocked(e, timeout).connected = e.connected
         /\ Blocked(e, timeout).connecting = e.connecting
<1>1. timeout \in {Forever} \cup Nat
  BY IPNumbers
<1>2. QED
  BY <1>1 DEF Blocked, Entries, HistoryIP

\* A client that is new has pinged before, so that the time is not over.
LEMMA JoinedStays ==
  ASSUME NEW e \in Entries
  PROVE  /\ Joined(Pinged(e)) \in Entries /\ Joined(Pinged(e)).ip = e.ip
         /\ Joined(Pinged(e)).connected = e.connected + 1
         /\ Joined(Pinged(e)).connecting = e.connecting + 1
<1> DEFINE p == Pinged(e)
<1>1. /\ p \in HistoryIP /\ p.connected = e.connected
      /\ p.connecting = e.connecting /\ p.ttl = TTL /\ p.ip = e.ip
  BY EntriesStay DEF Entries
<1>2. e.connected \in Int /\ e.connecting \in Int
  BY DEF Entries, HistoryIP
<1> HIDE DEF p
<1>3. Joined(p) = Changed(p, TTL, p.pings, e.connected + 1, e.connecting + 1)
  BY <1>1 DEF Joined, HistoryIP, Changed
<1>4. /\ p \in Entries /\ p.pings \in Nat
      /\ e.connected + 1 \in Int /\ e.connecting + 1 \in Int
      /\ TTL \in {-1} \cup Nat /\ ~(TTL < 0)
  BY <1>1, <1>2, IPNumbers DEF Entries, HistoryIP
<1>5. /\ Joined(p) \in Entries /\ Joined(p).ip = p.ip
      /\ Joined(p).connected = e.connected + 1
      /\ Joined(p).connecting = e.connecting + 1
  BY <1>3, <1>4, ChangedIs
<1>6. QED
  BY <1>1, <1>5 DEF p

\* Time passes for an entry only while it counts nobody.
LEMMA DecayedStays ==
  ASSUME NEW e \in Entries
  PROVE  /\ Decayed(e) \in Entries /\ Decayed(e).ip = e.ip
         /\ Decayed(e).connected = e.connected
         /\ Decayed(e).connecting = e.connecting
<1>1. /\ e \in HistoryIP /\ e.connected \in Int /\ e.connecting \in Int
      /\ e.ttl \in {-1} \cup Nat /\ e.pings \in Nat /\ e.pingDecay \in Nat
      /\ e.ttl < 0 => e.connected <= 0 /\ e.connecting <= 0
  BY DEF Entries, HistoryIP
<1> DEFINE t == IF e.connected = 0 /\ e.connecting = 0 /\ e.ttl >= 0
                THEN e.ttl - 1 ELSE e.ttl
           pingOver == e.pings > 0 /\ e.pingDecay = 0
           p == IF pingOver THEN e.pings - 1 ELSE e.pings
           d == IF pingOver THEN PingDecay
                ELSE IF e.pings > 0 THEN e.pingDecay - 1 ELSE e.pingDecay
<1>2. /\ t \in {-1} \cup Nat /\ p \in Nat /\ d \in Nat
      /\ t < 0 => e.connected <= 0 /\ e.connecting <= 0
  BY <1>1, IPNumbers
<1>3. Decayed(e) = [e EXCEPT !.ttl = t, !.pings = p, !.pingDecay = d]
  BY DEF Decayed
<1> HIDE DEF t, p, d
<1>4. QED
  BY <1>1, <1>2, <1>3 DEF Entries, HistoryIP

LEMMA ExpiredStays ==
  ASSUME NEW e \in Entries
  PROVE  /\ Expired(e) \in Entries /\ Expired(e).ip = e.ip
         /\ Expired(e).connected = e.connected
         /\ Expired(e).connecting = e.connecting
<1>1. CASE e.expire = Forever
  BY <1>1 DEF Expired
<1>2. CASE e.expire # Forever /\ e.expire = 0
  BY <1>2, EntriesStay DEF Expired
<1>3. CASE e.expire # Forever /\ e.expire # 0
  <2>1. e.expire \in Nat /\ e.expire - 1 \in Nat
    BY <1>3 DEF Entries, HistoryIP
  <2>2. Expired(e) = [e EXCEPT !.expire = e.expire - 1]
    BY <1>3 DEF Expired
  <2>3. QED
    BY <2>1, <2>2 DEF Entries, HistoryIP
<1>4. QED
  BY <1>1, <1>2, <1>3

\* The same counts
Alike(e, f) == e.connected = f.connected /\ e.connecting = f.connecting

\* A tick changes each entry in its place.
LEMMA ChangedDoes ==
  ASSUME NEW list \in Histories, NEW n \in Nat, n = Len(list), NEW new,
         new = [i \in 1..n |-> new[i]],
         \A i \in 1..n : /\ new[i] \in Entries /\ new[i].ip = list[i].ip
                         /\ Alike(new[i], list[i])
  PROVE  /\ new \in Histories
         /\ \A ip \in IPs : Alike(Entry(new, ip), Entry(list, ip))
<1>1. /\ DOMAIN list = 1..n
      /\ \A i, j \in DOMAIN list : list[i].ip = list[j].ip => i = j
  BY HistoriesAre DEF Histories
<1>2. new \in Histories /\ DOMAIN new = 1..n
  <2>1. \A i, j \in 1..n : new[i].ip = new[j].ip => i = j
    BY <1>1
  <2>2. QED
    BY <2>1, HistoriesMade
<1>3. ASSUME NEW ip \in IPs
      PROVE  Alike(Entry(new, ip), Entry(list, ip))
  <2>1. CASE \E i \in 1..n : list[i].ip = ip
    <3>1. PICK i \in 1..n : list[i].ip = ip
      BY <2>1
    <3>2. Entry(new, ip) = new[i] /\ Entry(list, ip) = list[i]
      BY <1>1, <1>2, <3>1, EntryIs
    <3>3. QED
      BY <3>2
  <2>2. CASE \A i \in 1..n : list[i].ip # ip
    <3>1. \A i \in 1..n : new[i].ip # ip
      BY <2>2
    <3>2. Entry(new, ip) = NewHistory(ip) /\ Entry(list, ip) = NewHistory(ip)
      BY <1>1, <1>2, <2>2, <3>1, EntryIs
    <3>3. QED
      BY <3>2 DEF Alike
  <2>3. QED
    BY <2>1, <2>2
<1>4. QED
  BY <1>2, <1>3

\* vector::erase()
Erased(s, k) == SubSeq(s, 1, k - 1) \o SubSeq(s, k + 1, Len(s))

LEMMA OneErased ==
  ASSUME NEW S, NEW s \in Seq(S), NEW k \in DOMAIN s, NEW n, n = Len(s)
  PROVE  /\ Erased(s, k) \in Seq(S) /\ Len(Erased(s, k)) = n - 1
         /\ \A i \in 1..n - 1 : /\ i < k => Erased(s, k)[i] = s[i]
                                /\ ~(i < k) => Erased(s, k)[i] = s[i + 1]
<1> DEFINE a == SubSeq(s, 1, k - 1)
           b == SubSeq(s, k + 1, Len(s))
<1>1. n \in Nat /\ k \in 1..n
  OBVIOUS
<1>2. a \in Seq(S) /\ Len(a) = k - 1 /\ \A i \in 1..k - 1 : a[i] = s[i]
  BY <1>1
<1>3. b \in Seq(S) /\ Len(b) = n - k
  BY <1>1
<1>4. ASSUME NEW i \in 1..n - k PROVE b[i] = s[k + i]
  BY <1>1, <1>4
<1> HIDE DEF a, b
<1>5. a \o b \in Seq(S) /\ Len(a \o b) = n - 1
  BY <1>1, <1>2, <1>3
<1>6. ASSUME NEW i \in 1..n - 1
      PROVE  /\ i < k => (a \o b)[i] = s[i]
             /\ ~(i < k) => (a \o b)[i] = s[i + 1]
  <2>1. CASE i < k
    BY <1>1, <1>2, <1>3, <2>1
  <2>2. CASE ~(i < k)
    <3>1. /\ (a \o b)[i] = b[i - (k - 1)]
          /\ i - (k - 1) \in 1..n - k /\ k + (i - (k - 1)) = i + 1
      BY <1>1, <1>2, <1>3, <2>2
    <3>2. QED
      BY <1>4, <2>2, <3>1
  <2>3. QED
    BY <2>1, <2>2
<1>7. QED
  BY <1>5, <1>6 DEF Erased, a, b

\* What is erased counted nobody.
LEMMA EraseOldDoes ==
  ASSUME NEW list \in Histories
  PROVE  /\ EraseOld(list) \in Histories
         /\ \A ip \in IPs :
               \/ Entry(EraseOld(list), ip) = Entry(list, ip)
               \/ /\ Entry(list, ip).connected <= 0
                  /\ Entry(list, ip).connecting <= 0
                  /\ Entry(EraseOld(list), ip) = NewHistory(ip)
<1> DEFINE old == {i \in DOMAIN list : list[i].ttl < 0}
           n == Len(list)
<1>0. /\ n \in Nat /\ DOMAIN list = 1..n /\ list \in Seq(Entries)
      /\ \A i \in 1..n : list[i] \in Entries
      /\ \A i, j \in 1..n : list[i].ip = list[j].ip => i = j
  BY HistoriesAre DEF Histories
<1>1. CASE old = {}
  BY <1>1 DEF EraseOld
<1>2. CASE old # {}
  <2> DEFINE first == CHOOSE i \in old : \A j \in old : i <= j
             new == SubSeq(list, 1, first - 1) \o SubSeq(list, first + 1, n)
             WasAt(i) == IF i < first THEN i ELSE i + 1
             IsAt(i) == IF i < first THEN i ELSE i - 1
  <2>1. EraseOld(list) = new
    BY <1>2 DEF EraseOld
  <2>2. first \in old
    <3>1. old \in SUBSET Nat
      BY <1>0
    <3> HIDE DEF old
    <3>2. QED
      BY <1>2, <3>1, Least
  <2>3. first \in 1..n /\ list[first].ttl < 0 /\ list[first] \in Entries
    BY <1>0, <2>2
  <2> HIDE DEF first, n
  <2>4. /\ new = [i \in 1..n - 1 |-> new[i]]
        /\ \A i \in 1..n - 1 : new[i] = list[WasAt(i)]
    <3>1. list \in Seq(Entries) /\ first \in DOMAIN list /\ n = Len(list)
      BY <1>0, <2>3 DEF n
    <3>2. new = Erased(list, first)
      BY <3>1 DEF Erased
    <3> HIDE DEF new
    <3>3. /\ new \in Seq(Entries) /\ Len(new) = n - 1
          /\ \A i \in 1..n - 1 :
                /\ i < first => new[i] = list[i]
                /\ ~(i < first) => new[i] = list[i + 1]
      BY <3>1, <3>2, OneErased
    <3>4. new = [i \in 1..n - 1 |-> new[i]]
      BY <1>0, <3>3
    <3>5. QED
      BY <3>3, <3>4
  <2> HIDE DEF new
  <2>5. /\ n - 1 \in Nat
        /\ \A i \in 1..n - 1 : WasAt(i) \in 1..n /\ WasAt(i) # first
        /\ \A i, j \in 1..n - 1 : WasAt(i) = WasAt(j) => i = j
        /\ \A i \in 1..n : i # first =>
              IsAt(i) \in 1..n - 1 /\ WasAt(IsAt(i)) = i
    BY <1>0, <2>3
  <2> HIDE DEF WasAt, IsAt
  <2>6. new \in Histories /\ DOMAIN new = 1..n - 1
    <3>1. \A i \in 1..n - 1 : new[i] \in Entries
      BY <1>0, <2>4, <2>5
    <3>2. \A i, j \in 1..n - 1 : new[i].ip = new[j].ip => i = j
      BY <1>0, <2>4, <2>5
    <3>3. QED
      BY <2>4, <2>5, <3>1, <3>2, HistoriesMade
  <2>7. ASSUME NEW ip \in IPs
        PROVE  \/ Entry(new, ip) = Entry(list, ip)
               \/ /\ Entry(list, ip).connected <= 0
                  /\ Entry(list, ip).connecting <= 0
                  /\ Entry(new, ip) = NewHistory(ip)
    <3>1. CASE list[first].ip = ip
      <4>1. Entry(list, ip) = list[first]
        BY <1>0, <2>3, <3>1, EntryIs
      <4>2. \A i \in 1..n - 1 : new[i].ip # ip
        BY <1>0, <2>3, <2>4, <2>5, <3>1
      <4>3. Entry(new, ip) = NewHistory(ip)
        BY <2>6, <4>2, EntryIs
      <4>4. QED
        BY <2>3, <4>1, <4>3 DEF Entries
    <3>2. CASE \E i \in 1..n : i # first /\ list[i].ip = ip
      <4>1. PICK i \in 1..n : i # first /\ list[i].ip = ip
        BY <3>2
      <4>2. IsAt(i) \in 1..n - 1 /\ new[IsAt(i)] = list[i]
        BY <2>4, <2>5, <4>1
      <4>3. QED
        BY <1>0, <2>6, <4>1, <4>2, EntryIs
    <3>3. CASE \A i \in 1..n : list[i].ip # ip
      <4>1. \A i \in 1..n - 1 : new[i].ip # ip
        BY <2>4, <2>5, <3>3
      <4>2. QED
        BY <1>0, <2>6, <3>3, <4>1, EntryIs
    <3>4. QED
      BY <3>1, <3>2, <3>3
  <2>8. QED
    BY <2>1, <2>6, <2>7
<1>3. QED
  BY <1>1, <1>2

-----------------------------------------------------------------------------
(* What each step does to the history *)

LEMMA TickDoes ==
  ASSUME ips \in Histories, NEW second \in BOOLEAN, Tick(second)
  PROVE  /\ ips' \in Histories
         /\ \A ip \in IPs :
               \/ Alike(Entry(ips', ip), Entry(ips, ip))
               \/ /\ Entry(ips, ip).connected <= 0
                  /\ Entry(ips, ip).connecting <= 0
                  /\ Entry(ips', ip) = NewHistory(ip)
<1> DEFINE n == Len(ips)
           new == [i \in DOMAIN ips |->
                     IF ~second THEN ips[i]
                     ELSE IF ips[i].blocked THEN Expired(ips[i])
                     ELSE Decayed(ips[i])]
<1>1. n \in Nat /\ DOMAIN ips = 1..n /\ \A i \in 1..n : ips[i] \in Entries
  BY HistoriesAre
<1>2. ips' = EraseOld(new)
  BY DEF Tick
<1>3. ASSUME NEW i \in 1..n
      PROVE  /\ new[i] \in Entries /\ new[i].ip = ips[i].ip
             /\ Alike(new[i], ips[i])
  <2>1. ips[i] \in Entries
    BY <1>1
  <2>2. new[i] = IF ~second THEN ips[i]
                 ELSE IF ips[i].blocked THEN Expired(ips[i])
                 ELSE Decayed(ips[i])
    BY <1>1
  <2> HIDE DEF new
  <2>3. CASE ~second
    BY <2>1, <2>2, <2>3 DEF Alike
  <2>4. CASE second /\ ips[i].blocked
    BY <2>1, <2>2, <2>4, ExpiredStays DEF Alike
  <2>5. CASE second /\ ~ips[i].blocked
    BY <2>1, <2>2, <2>5, DecayedStays DEF Alike
  <2>6. QED
    BY <2>3, <2>4, <2>5
<1>4. new = [i \in 1..n |-> new[i]]
  BY <1>1
<1> HIDE DEF new
<1>5. /\ new \in Histories
      /\ \A ip \in IPs : Alike(Entry(new, ip), Entry(ips, ip))
  BY <1>1, <1>3, <1>4, ChangedDoes
<1>6. ASSUME NEW ip \in IPs
      PROVE  \/ Alike(Entry(ips', ip), Entry(ips, ip))
             \/ /\ Entry(ips, ip).connected <= 0
                /\ Entry(ips, ip).connecting <= 0
                /\ Entry(ips', ip) = NewHistory(ip)
  <2>1. \/ Entry(ips', ip) = Entry(new, ip)
        \/ /\ Entry(new, ip).connected <= 0 /\ Entry(new, ip).connecting <= 0
           /\ Entry(ips', ip) = NewHistory(ip)
    BY <1>2, <1>5, EraseOldDoes
  <2>2. Alike(Entry(new, ip), Entry(ips, ip))
    BY <1>5
  <2>3. QED
    BY <2>1, <2>2 DEF Alike
<1>7. QED
  BY <1>2, <1>5, <1>6, EraseOldDoes

\* The history when the entry of one address has become e
Becomes(new, old, ip, e) ==
    /\ new \in Histories /\ Entry(new, ip) = e
    /\ \A other \in IPs \ {ip} : Entry(new, other) = Entry(old, other)

LEMMA UpdateBecomes ==
  ASSUME NEW list \in Histories, NEW ip \in IPs, NEW e \in Entries, e.ip = ip
  PROVE  Becomes(Update(list, e), list, ip, e)
  BY UpdateDoes DEF Becomes

LEMMA DeletedDoes ==
  ASSUME ToDelete, NEW c \in dying, NEW list \in Histories
  PROVE  /\ Deleted(c, list) \in Histories
         /\ \A ip \in IPs :
              /\ Entry(Deleted(c, list), ip).connected =
                   IF ip = peer[net[c]] THEN Entry(list, ip).connected - 1
                   ELSE Entry(list, ip).connected
              /\ Entry(Deleted(c, list), ip).connecting =
                   IF ip = peer[net[c]] /\ c \notin game
                   THEN Entry(list, ip).connecting - 1
                   ELSE Entry(list, ip).connecting
<1> DEFINE ip == peer[net[c]]
           e == Entry(list, ip)
           f == IF c \in game THEN LeftGame(e) ELSE LeftEarly(e)
<1>1. ip \in IPs
  BY DEF ToDelete
<1>2. Deleted(c, list) = Update(list, f)
  BY DEF Deleted
<1> HIDE DEF ip
<1>3. e \in Entries /\ e.ip = ip
  BY <1>1, EntryDoes
<1> HIDE DEF e
<1>4. /\ f \in Entries /\ f.ip = ip /\ f.connected = e.connected - 1
      /\ f.connecting = IF c \in game THEN e.connecting ELSE e.connecting - 1
  BY <1>3, EntriesStay
<1> HIDE DEF f
<1>5. Becomes(Update(list, f), list, ip, f)
  BY <1>1, <1>4, UpdateBecomes
<1>6. ASSUME NEW a \in IPs
      PROVE  /\ Entry(Deleted(c, list), a).connected =
                   IF a = ip THEN Entry(list, a).connected - 1
                   ELSE Entry(list, a).connected
             /\ Entry(Deleted(c, list), a).connecting =
                   IF a = ip /\ c \notin game
                   THEN Entry(list, a).connecting - 1
                   ELSE Entry(list, a).connecting
  <2>1. CASE a = ip
    BY <1>2, <1>4, <1>5, <2>1 DEF Becomes, e
  <2>2. CASE a # ip
    BY <1>2, <1>5, <2>2 DEF Becomes
  <2>3. QED
    BY <2>1, <2>2
<1>7. QED
  BY <1>2, <1>5, <1>6 DEF Becomes, ip

LEMMA DyingFinite ==
  ASSUME IPTypeOK
  PROVE  /\ IsFiniteSet(dying)
         /\ \A ip : IsFiniteSet(Existing(ip)) /\ IsFiniteSet(Connecting(ip))
<1>1. IsFiniteSet(Clients)
  BY IPNumbers, FS_Interval DEF Clients
<1>2. dying \subseteq Clients
  BY DEF IPTypeOK
<1>3. \A ip : Existing(ip) \subseteq Clients /\ Connecting(ip) \subseteq Clients
  BY DEF Existing, Connecting
<1>4. QED
  BY <1>1, <1>2, <1>3, FS_Subset

LEMMA DeleteEachDoes ==
  ASSUME IPTypeOK, NEW c \in dying, NEW list \in Histories
  PROVE  DeleteEach[c][list] = Deleted(c, list)
<1>1. c \in Clients /\ list \in Seq(HistoryIP)
  BY HistoriesAre DEF IPTypeOK
<1>2. QED
  BY <1>1 DEF DeleteEach

\* DeleteAll() leaves a history.
LEMMA DeleteAllStays ==
  ASSUME IPTypeOK, ToDelete, ips \in Histories, DeleteAll
  PROVE  ips' \in Histories
<1>1. PICK order \in Orders(dying) : ips' = InTurn(DeleteEach, ips, order)
  BY DEF DeleteAll
<1>2. Len(order) \in Nat /\ \A n \in 1..Len(order) : order[n] \in dying
  BY DyingFinite, OrderHasAll
<1> DEFINE P == [n \in 0..Len(order) |-> Histories]
<1>3. ips \in P[0] /\ P[Len(order)] = Histories
  BY <1>2
<1>4. ASSUME NEW n \in 1..Len(order), NEW list \in P[n - 1]
      PROVE  DeleteEach[order[n]][list] \in P[n]
  <2>1. n \in 0..Len(order) /\ n - 1 \in 0..Len(order) /\ order[n] \in dying
    BY <1>2
  <2>2. list \in Histories
    BY <2>1
  <2>3. DeleteEach[order[n]][list] \in Histories
    BY <2>1, <2>2, DeleteEachDoes, DeletedDoes
  <2>4. QED
    BY <2>1, <2>3
<1> HIDE DEF P
<1>5. QED
  BY <1>1, <1>2, <1>3, <1>4, InTurnStays

-----------------------------------------------------------------------------
(* Each step keeps the invariant *)

LEMMA InitIPInv == IPInit => IPInv
<1> SUFFICES ASSUME IPInit PROVE IPInv
  OBVIOUS
<1> USE DEF IPInit
<1>1. ips \in Histories /\ ips \in Seq(HistoryIP)
  <2>1. ips \in Histories
    BY DEF Histories
  <2>2. QED
    BY <2>1, HistoriesAre
<1>2. IPTypeOK
  BY <1>1, IPNumbers DEF IPTypeOK, Slots, Clients, None
<1>3. InSlots /\ ToDelete /\ game \subseteq 1..tries
  BY DEF InSlots, ToDelete
<1>4. QED
  BY <1>1, <1>2, <1>3 DEF IPInv

\* Only the history changes.
LEMMA HistoryOnly ==
  ASSUME IPInv, UNCHANGED clientVars, ips' \in Histories,
         tries' \in 0..MaxTries, tries <= tries'
  PROVE  IPInv'
<1>1. tries \in Nat /\ \A c \in 1..tries : c \in 1..tries'
  BY IPNumbers DEF IPInv, IPTypeOK
<1>2. ips' \in Seq(HistoryIP)
  BY HistoriesAre
<1>3. IPTypeOK'
  BY <1>2 DEF IPInv, IPTypeOK, clientVars
<1>4. InSlots' /\ ToDelete' /\ (game \subseteq 1..tries)'
  BY <1>1 DEF IPInv, InSlots, ToDelete, clientVars
<1>5. QED
  BY <1>3, <1>4 DEF IPInv

LEMMA FreeSlot ==
  ASSUME \E s \in Slots : client[s] = None
  PROVE  FindFreeSlot \in Slots /\ client[FindFreeSlot] = None
<1> DEFINE free == {s \in Slots : client[s] = None}
           after == {s \in free : s > lastGiven}
           S == IF after = {} THEN free ELSE after
<1>1. S \in SUBSET free /\ S \in SUBSET Nat /\ S # {}
  BY IPNumbers DEF Slots
<1>2. FindFreeSlot = Min(S)
  BY DEF FindFreeSlot
<1> HIDE DEF S
<1>3. Min(S) \in S
  BY <1>1, Least DEF Min
<1>4. QED
  BY <1>1, <1>2, <1>3

\* The histories that the handlers make
LEMMA RefuseDoes ==
  ASSUME ips \in Histories, NEW ip \in IPs, Refuse(ip)
  PROVE  \E e \in Entries : /\ Becomes(ips', ips, ip, e)
                            /\ Alike(e, Entry(ips, ip))
<1>1. Entry(ips, ip) \in Entries /\ Entry(ips, ip).ip = ip
  BY EntryDoes
<1>2. /\ Pinged(Entry(ips, ip)) \in Entries
      /\ Pinged(Entry(ips, ip)).ip = ip
      /\ Alike(Pinged(Entry(ips, ip)), Entry(ips, ip))
  BY <1>1, EntriesStay DEF Alike
<1>3. ips' = Update(ips, Pinged(Entry(ips, ip)))
  BY DEF Refuse
<1>4. QED
  BY <1>2, <1>3, UpdateBecomes

LEMMA BlockDoes ==
  ASSUME ips \in Histories, NEW ip \in IPs, Block(ip) \/ Unblock(ip)
  PROVE  \E e \in Entries : /\ Becomes(ips', ips, ip, e)
                            /\ Alike(e, Entry(ips, ip))
<1>1. Entry(ips, ip) \in Entries /\ Entry(ips, ip).ip = ip
  BY EntryDoes
<1>2. CASE Block(ip)
  <2>1. PICK timeout \in {Forever, Timeout} :
               ips' = Update(ips, Blocked(Entry(ips, ip), timeout))
    BY <1>2 DEF Block
  <2>2. /\ Blocked(Entry(ips, ip), timeout) \in Entries
        /\ Blocked(Entry(ips, ip), timeout).ip = ip
        /\ Alike(Blocked(Entry(ips, ip), timeout), Entry(ips, ip))
    BY <1>1, BlockedStays DEF Alike
  <2>3. QED
    BY <2>1, <2>2, UpdateBecomes
<1>3. CASE Unblock(ip)
  <2>1. /\ Unblocked(Entry(ips, ip)) \in Entries
        /\ Unblocked(Entry(ips, ip)).ip = ip
        /\ Alike(Unblocked(Entry(ips, ip)), Entry(ips, ip))
    BY <1>1, EntriesStay DEF Alike
  <2>2. ips' = Update(ips, Unblocked(Entry(ips, ip)))
    BY <1>3 DEF Unblock
  <2>3. QED
    BY <2>1, <2>2, UpdateBecomes
<1>4. QED
  BY <1>2, <1>3

LEMMA AcceptDoes ==
  ASSUME ips \in Histories, NEW ip \in IPs, Accept(ip)
  PROVE  \E e \in Entries : /\ Becomes(ips', ips, ip, e)
                            /\ e.connected = Entry(ips, ip).connected + 1
                            /\ e.connecting = Entry(ips, ip).connecting + 1
<1>1. Entry(ips, ip) \in Entries /\ Entry(ips, ip).ip = ip
  BY EntryDoes
<1> DEFINE e == Joined(Pinged(Entry(ips, ip)))
<1>2. /\ e \in Entries /\ e.ip = ip
      /\ e.connected = Entry(ips, ip).connected + 1
      /\ e.connecting = Entry(ips, ip).connecting + 1
  BY <1>1, JoinedStays
<1>3. ips' = Update(ips, e)
  BY DEF Accept
<1> HIDE DEF e
<1>4. QED
  BY <1>2, <1>3, UpdateBecomes

LEMMA EnterGameDoes ==
  ASSUME ips \in Histories, NEW s \in Slots, peer[s] \in IPs, EnterGame(s)
  PROVE  \E e \in Entries :
           /\ Becomes(ips', ips, peer[s], e)
           /\ e.connected = Entry(ips, peer[s]).connected
           /\ e.connecting = Entry(ips, peer[s]).connecting - 1
<1>1. /\ Entry(ips, peer[s]) \in Entries
      /\ Entry(ips, peer[s]).ip = peer[s]
  BY EntryDoes
<1> DEFINE e == InGame(Entry(ips, peer[s]))
<1>2. /\ e \in Entries /\ e.ip = peer[s]
      /\ e.connected = Entry(ips, peer[s]).connected
      /\ e.connecting = Entry(ips, peer[s]).connecting - 1
  BY <1>1, EntriesStay
<1>3. ips' = Update(ips, e)
  BY DEF EnterGame
<1> HIDE DEF e
<1>4. QED
  BY <1>2, <1>3, UpdateBecomes

\* Where the new client goes
LEMMA AcceptGives ==
  ASSUME IPInv, NEW ip \in IPs, Accept(ip)
  PROVE  \E s \in Slots :
           /\ client[s] = None /\ tries + 1 \in Clients
           /\ tries' = tries + 1 /\ lastGiven' = s
           /\ peer' = [peer EXCEPT ![s] = ip]
           /\ client' = [client EXCEPT ![s] = tries + 1]
           /\ net' = [net EXCEPT ![tries + 1] = s]
           /\ of' = [of EXCEPT ![tries + 1] = ip]
<1>1. lastGiven' \in Slots /\ client[lastGiven'] = None
  BY FreeSlot DEF Accept
<1>2. tries + 1 \in Clients
  BY IPNumbers DEF Accept, IPInv, IPTypeOK, Clients
<1>3. QED
  BY <1>1, <1>2 DEF Accept

LEMMA AcceptInv ==
  ASSUME IPInv, NEW ip \in IPs, Accept(ip)
  PROVE  IPInv'
<1> DEFINE c == tries + 1
<1>1. PICK s \in Slots :
           /\ client[s] = None /\ c \in Clients
           /\ tries' = c /\ lastGiven' = s
           /\ peer' = [peer EXCEPT ![s] = ip]
           /\ client' = [client EXCEPT ![s] = c]
           /\ net' = [net EXCEPT ![c] = s]
           /\ of' = [of EXCEPT ![c] = ip]
  BY AcceptGives
<1>2. /\ IPTypeOK /\ ips \in Histories /\ InSlots /\ ToDelete
      /\ game \subseteq 1..tries
      /\ dying' = dying /\ game' = game /\ relays' = relays
  BY DEF IPInv, Accept
<1>3. /\ tries \in Nat /\ c \in 1..c /\ c \notin 1..tries /\ c \in 0..MaxTries
      /\ \A d \in 1..tries : d \in 1..c
      /\ c # None
  BY <1>1, <1>2, IPNumbers DEF IPTypeOK, Clients, None
<1> HIDE DEF c
<1>4. /\ peer' \in [Slots -> IPs \cup {NoIP}]
      /\ client' \in [Slots -> Clients \cup {None}]
      /\ net' \in [Clients -> Slots \cup {None}]
      /\ of' \in [Clients -> IPs \cup {NoIP}]
      /\ peer'[s] = ip /\ \A t \in Slots \ {s} : peer'[t] = peer[t]
      /\ client'[s] = c /\ \A t \in Slots \ {s} : client'[t] = client[t]
      /\ net'[c] = s /\ \A d \in Clients \ {c} : net'[d] = net[d]
      /\ of'[c] = ip /\ \A d \in Clients \ {c} : of'[d] = of[d]
  BY <1>1, <1>2 DEF IPTypeOK
<1>5. ips' \in Histories /\ ips' \in Seq(HistoryIP)
  <2>1. ips' \in Histories
    BY <1>2, AcceptDoes DEF Becomes
  <2>2. QED
    BY <2>1, HistoriesAre
<1>6. lastGiven' \in 0..SlotCount
  BY <1>1, IPNumbers DEF Slots
<1>7. IPTypeOK'
  BY <1>1, <1>2, <1>3, <1>4, <1>5, <1>6 DEF IPTypeOK
<1>8. \A d \in 1..tries : d \in Clients \ {c}
  BY <1>1, <1>2, <1>3, IPNumbers DEF IPTypeOK, Clients
<1>9. InSlots'
  <2> SUFFICES ASSUME NEW t \in Slots, client'[t] # None
               PROVE  /\ client'[t] \in 1..tries' /\ client'[t] \notin dying'
                      /\ net'[client'[t]] = t /\ of'[client'[t]] = peer'[t]
                      /\ peer'[t] \in IPs
    BY DEF InSlots
  <2>1. CASE t = s
    <3>1. c \notin dying
      BY <1>2, <1>3 DEF ToDelete
    <3>2. QED
      BY <1>1, <1>2, <1>3, <1>4, <2>1, <3>1
  <2>2. CASE t # s
    <3>1. /\ client'[t] = client[t] /\ peer'[t] = peer[t]
          /\ client[t] \in 1..tries /\ client[t] \notin dying
          /\ net[client[t]] = t /\ of[client[t]] = peer[t] /\ peer[t] \in IPs
      BY <1>2, <1>4, <2>2 DEF InSlots
    <3>2. QED
      BY <1>1, <1>2, <1>3, <1>4, <1>8, <3>1
  <2>3. QED
    BY <2>1, <2>2
<1>10. ToDelete'
  <2> SUFFICES ASSUME NEW d \in dying
               PROVE  /\ d \in 1..tries' /\ net'[d] \in Slots
                      /\ peer'[net'[d]] \in IPs /\ of'[d] \in IPs
    BY <1>2 DEF ToDelete
  <2>1. /\ d \in 1..tries /\ net[d] \in Slots
        /\ peer[net[d]] \in IPs /\ of[d] \in IPs
    BY <1>2 DEF ToDelete
  <2>2. net'[d] = net[d] /\ of'[d] = of[d]
    BY <1>4, <1>8, <2>1
  <2>3. peer'[net[d]] \in IPs
    BY <1>4, <2>1
  <2>4. QED
    BY <1>1, <1>3, <2>1, <2>2, <2>3
<1>11. (game \subseteq 1..tries)'
  BY <1>1, <1>2, <1>3
<1>12. QED
  BY <1>5, <1>7, <1>9, <1>10, <1>11 DEF IPInv

LEMMA EnterGameInv ==
  ASSUME IPInv, NEW s \in Slots, EnterGame(s)
  PROVE  IPInv'
<1>1. /\ IPTypeOK /\ ips \in Histories /\ InSlots /\ ToDelete
      /\ game \subseteq 1..tries
      /\ client[s] # None /\ game' = game \cup {client[s]}
      /\ UNCHANGED <<peer, client, lastGiven, dying, of, net, tries>>
  BY DEF IPInv, EnterGame
<1>2. client[s] \in 1..tries /\ peer[s] \in IPs
  BY <1>1 DEF InSlots
<1>3. ips' \in Histories /\ ips' \in Seq(HistoryIP)
  <2>1. ips' \in Histories
    BY <1>1, <1>2, EnterGameDoes DEF Becomes
  <2>2. QED
    BY <2>1, HistoriesAre
<1>4. client[s] \in Clients
  BY <1>1, <1>2, IPNumbers DEF IPTypeOK, Clients
<1>5. relays' \in [Clients -> 0..MaxRelays]
  <2>1. CASE client[s] \in game
    <3>1. relays[client[s]] \in 0..MaxRelays
      BY <1>1, <1>4 DEF IPTypeOK
    <3>2. relays[client[s]] + 1 \in 0..MaxRelays
      BY <2>1, <3>1, IPNumbers DEF EnterGame
    <3>3. QED
      BY <1>1, <2>1, <3>2 DEF EnterGame, IPTypeOK
  <2>2. CASE client[s] \notin game
    BY <1>1, <2>2 DEF EnterGame, IPTypeOK
  <2>3. QED
    BY <2>1, <2>2
<1>6. IPTypeOK'
  BY <1>1, <1>3, <1>4, <1>5 DEF IPTypeOK
<1>7. InSlots' /\ ToDelete'
  BY <1>1 DEF InSlots, ToDelete
<1>8. (game \subseteq 1..tries)'
  BY <1>1, <1>2
<1>9. QED
  BY <1>3, <1>6, <1>7, <1>8 DEF IPInv

LEMMA ClearInv ==
  ASSUME IPInv, NEW s \in Slots, Clear(s)
  PROVE  IPInv'
<1> DEFINE c == client[s]
<1>1. /\ IPTypeOK /\ ips \in Histories /\ InSlots /\ ToDelete
      /\ game \subseteq 1..tries
      /\ c # None /\ dying' = dying \cup {c}
      /\ client' = [client EXCEPT ![s] = None]
      /\ UNCHANGED <<ips, peer, lastGiven, of, net, game, relays, tries>>
  BY DEF IPInv, Clear
<1>2. /\ c \in 1..tries /\ net[c] = s /\ of[c] = peer[s] /\ peer[s] \in IPs
  BY <1>1 DEF InSlots
<1>3. c \in Clients
  BY <1>1, <1>2, IPNumbers DEF IPTypeOK, Clients
<1> HIDE DEF c
<1>4. /\ client' \in [Slots -> Clients \cup {None}]
      /\ client'[s] = None /\ \A t \in Slots \ {s} : client'[t] = client[t]
  BY <1>1 DEF IPTypeOK
<1>5. IPTypeOK'
  BY <1>1, <1>3, <1>4 DEF IPTypeOK
<1>6. InSlots'
  <2> SUFFICES ASSUME NEW t \in Slots, client'[t] # None
               PROVE  /\ client'[t] \in 1..tries /\ client'[t] \notin dying'
                      /\ net[client'[t]] = t /\ of[client'[t]] = peer[t]
                      /\ peer[t] \in IPs
    BY <1>1 DEF InSlots
  <2>1. t # s /\ client'[t] = client[t]
    BY <1>4
  <2>2. /\ client[t] \in 1..tries /\ client[t] \notin dying
        /\ net[client[t]] = t /\ of[client[t]] = peer[t] /\ peer[t] \in IPs
    BY <1>1, <2>1 DEF InSlots
  <2>3. client[t] # c
    BY <1>2, <2>1, <2>2
  <2>4. QED
    BY <1>1, <2>1, <2>2, <2>3
<1>7. ToDelete'
  BY <1>1, <1>2 DEF ToDelete
<1>8. QED
  BY <1>1, <1>5, <1>6, <1>7 DEF IPInv

LEMMA DeleteAllInv ==
  ASSUME IPInv, DeleteAll
  PROVE  IPInv'
<1>1. ips' \in Histories /\ ips' \in Seq(HistoryIP)
  <2>1. ips' \in Histories
    BY DeleteAllStays DEF IPInv
  <2>2. QED
    BY <2>1, HistoriesAre
<1>2. /\ dying' = {}
      /\ UNCHANGED <<peer, client, lastGiven, of, net, game, relays, tries>>
  BY DEF DeleteAll
<1>3. IPTypeOK'
  BY <1>1, <1>2 DEF IPInv, IPTypeOK
<1>4. InSlots' /\ ToDelete' /\ (game \subseteq 1..tries)'
  BY <1>2 DEF IPInv, InSlots, ToDelete
<1>5. QED
  BY <1>1, <1>3, <1>4 DEF IPInv

LEMMA NextIPInv ==
  ASSUME IPInv, [IPNext]_ipVars
  PROVE  IPInv'
<1>0. ips \in Histories /\ tries \in 0..MaxTries /\ tries \in Nat
  BY IPNumbers DEF IPInv, IPTypeOK
<1>1. ASSUME NEW second \in BOOLEAN, Tick(second) PROVE IPInv'
  <2>1. ips' \in Histories
    BY <1>0, <1>1, TickDoes
  <2>2. UNCHANGED clientVars /\ tries' = tries
    BY <1>1 DEF Tick
  <2>3. QED
    BY <1>0, <2>1, <2>2, HistoryOnly
<1>2. ASSUME NEW ip \in IPs, Refuse(ip) PROVE IPInv'
  <2>1. ips' \in Histories
    BY <1>0, <1>2, RefuseDoes DEF Becomes
  <2>2. /\ UNCHANGED clientVars /\ tries' \in 0..MaxTries /\ tries <= tries'
    BY <1>0, <1>2, IPNumbers DEF Refuse
  <2>3. QED
    BY <2>1, <2>2, HistoryOnly
<1>3. ASSUME NEW ip \in IPs, Block(ip) \/ Unblock(ip) PROVE IPInv'
  <2>1. ips' \in Histories
    BY <1>0, <1>3, BlockDoes DEF Becomes
  <2>2. UNCHANGED clientVars /\ tries' = tries
    BY <1>3 DEF Block, Unblock
  <2>3. QED
    BY <1>0, <2>1, <2>2, HistoryOnly
<1>4. CASE UNCHANGED ipVars
  <2>1. ips' \in Histories /\ UNCHANGED clientVars /\ tries' = tries
    BY <1>0, <1>4 DEF ipVars
  <2>2. QED
    BY <1>0, <2>1, HistoryOnly
<1>5. QED
  BY <1>1, <1>2, <1>3, <1>4, AcceptInv, EnterGameInv, ClearInv, DeleteAllInv
  DEF IPNext

THEOREM IPInvariance == IPSpec => []IPInv
<1>1. IPInv /\ [IPNext]_ipVars => IPInv'
  BY NextIPInv
<1>2. QED
  BY <1>1, InitIPInv, PTL DEF IPSpec

-----------------------------------------------------------------------------
(* Each step keeps the counts *)

\* The counts are those of the clients, without some that are deleted.
Counted(list, gone) ==
    \A ip \in IPs :
        /\ Entry(list, ip).connected = Cardinality(Existing(ip) \ gone)
        /\ Entry(list, ip).connecting = Cardinality(Connecting(ip) \ gone)

LEMMA OneLess ==
  ASSUME NEW S, IsFiniteSet(S), NEW D, NEW c
  PROVE  /\ Cardinality(S \ D) \in Nat
         /\ Cardinality(S \ (D \cup {c})) =
              IF c \in S \ D THEN Cardinality(S \ D) - 1 ELSE Cardinality(S \ D)
<1>1. IsFiniteSet(S \ D)
  BY FS_Subset
<1>2. S \ (D \cup {c}) = (S \ D) \ {c}
  OBVIOUS
<1>3. QED
  BY <1>1, <1>2, FS_RemoveElement, FS_CardinalityType

LEMMA OrderOnce ==
  ASSUME NEW S, IsFiniteSet(S), NEW s \in Orders(S)
  PROVE  \A m, n \in 1..Len(s) : s[m] = s[n] => m = n
<1>1. Cardinality(S) \in Nat
  BY FS_CardinalityType
<1>2. /\ s \in [1..Cardinality(S) -> S]
      /\ \A m, n \in 1..Cardinality(S) : s[m] = s[n] => m = n
  BY DEF Orders, Bijection, Injection, IsInjective
<1>3. Len(s) = Cardinality(S)
  BY <1>1, <1>2
<1>4. QED
  BY <1>2, <1>3

\* ~CClient() counts its client down and no other.
LEMMA DeletedCounts ==
  ASSUME IPInv, SlotsTell, NEW c \in dying, NEW gone, c \notin gone,
         NEW list \in Histories, Counted(list, gone)
  PROVE  Counted(Deleted(c, list), gone \cup {c})
<1>1. c \in Clients /\ of[c] = peer[net[c]] /\ ToDelete /\ IPTypeOK
  BY DEF IPInv, IPTypeOK, SlotsTell
<1>2. ASSUME NEW ip \in IPs
      PROVE  /\ Entry(Deleted(c, list), ip).connected =
                  Cardinality(Existing(ip) \ (gone \cup {c}))
             /\ Entry(Deleted(c, list), ip).connecting =
                  Cardinality(Connecting(ip) \ (gone \cup {c}))
  <2>1. /\ c \in Existing(ip) \ gone <=> ip = peer[net[c]]
        /\ c \in Connecting(ip) \ gone <=> ip = peer[net[c]] /\ c \notin game
    BY <1>1 DEF Existing, Connecting
  <2>2. /\ IsFiniteSet(Existing(ip)) /\ IsFiniteSet(Connecting(ip))
    BY <1>1, DyingFinite
  <2>3. /\ Entry(list, ip).connected = Cardinality(Existing(ip) \ gone)
        /\ Entry(list, ip).connecting = Cardinality(Connecting(ip) \ gone)
    BY DEF Counted
  <2>4. /\ Entry(Deleted(c, list), ip).connected =
             IF ip = peer[net[c]] THEN Entry(list, ip).connected - 1
             ELSE Entry(list, ip).connected
        /\ Entry(Deleted(c, list), ip).connecting =
             IF ip = peer[net[c]] /\ c \notin game
             THEN Entry(list, ip).connecting - 1
             ELSE Entry(list, ip).connecting
    BY <1>1, DeletedDoes
  <2>5. /\ Cardinality(Existing(ip) \ (gone \cup {c})) =
             IF c \in Existing(ip) \ gone
             THEN Cardinality(Existing(ip) \ gone) - 1
             ELSE Cardinality(Existing(ip) \ gone)
        /\ Cardinality(Connecting(ip) \ (gone \cup {c})) =
             IF c \in Connecting(ip) \ gone
             THEN Cardinality(Connecting(ip) \ gone) - 1
             ELSE Cardinality(Connecting(ip) \ gone)
    BY <2>2, OneLess
  <2>6. QED
    BY <2>1, <2>3, <2>4, <2>5
<1>3. QED
  BY <1>2 DEF Counted

LEMMA DeleteAllCounts ==
  ASSUME IPInv, SlotsTell, CountsExact, DeleteAll
  PROVE  CountsExact'
<1>0. /\ IPTypeOK /\ ToDelete /\ InSlots /\ ips \in Histories
      /\ dying \subseteq Clients /\ IsFiniteSet(dying)
  BY DyingFinite DEF IPInv, IPTypeOK
<1>1. PICK order \in Orders(dying) : ips' = InTurn(DeleteEach, ips, order)
  BY DEF DeleteAll
<1>2. /\ Len(order) \in Nat /\ \A n \in 1..Len(order) : order[n] \in dying
      /\ \A c \in dying : \E n \in 1..Len(order) : order[n] = c
      /\ \A m, n \in 1..Len(order) : order[m] = order[n] => m = n
  BY <1>0, OrderHasAll, OrderOnce
<1> DEFINE Done(n) == {order[k] : k \in 1..n}
           P == [n \in 0..Len(order) |->
                   {list \in Histories : Counted(list, Done(n))}]
<1>3. ips \in P[0]
  <2>1. Done(0) = {}
    OBVIOUS
  <2>2. Counted(ips, {})
    <3>1. \A ip : Existing(ip) \ {} = Existing(ip)
                  /\ Connecting(ip) \ {} = Connecting(ip)
      OBVIOUS
    <3>2. QED
      BY <3>1 DEF Counted, CountsExact
  <2>3. 0 \in 0..Len(order)
    BY <1>2
  <2> HIDE DEF Done
  <2>4. Counted(ips, Done(0))
    BY <2>1, <2>2
  <2>5. QED
    BY <1>0, <2>3, <2>4
<1>4. ASSUME NEW n \in 1..Len(order), NEW list \in P[n - 1]
      PROVE  DeleteEach[order[n]][list] \in P[n]
  <2>1. n \in 0..Len(order) /\ n - 1 \in 0..Len(order) /\ order[n] \in dying
    BY <1>2
  <2>2. list \in Histories /\ Counted(list, Done(n - 1))
    BY <2>1
  <2>3. order[n] \notin Done(n - 1)
    <3>1. ASSUME NEW k \in 1..n - 1 PROVE order[k] # order[n]
      <4>1. k \in 1..Len(order) /\ k # n
        BY <1>2
      <4>2. QED
        BY <1>2, <4>1
    <3>2. QED
      BY <3>1
  <2>4. Done(n) = Done(n - 1) \cup {order[n]}
    <3>1. \A k : k \in 1..n <=> k \in 1..n - 1 \/ k = n
      BY <1>2
    <3>2. QED
      BY <3>1
  <2> HIDE DEF Done
  <2>5. /\ Deleted(order[n], list) \in Histories
        /\ Counted(Deleted(order[n], list), Done(n))
    BY <1>0, <2>1, <2>2, <2>3, <2>4, DeletedDoes, DeletedCounts
  <2>6. DeleteEach[order[n]][list] = Deleted(order[n], list)
    BY <1>0, <2>1, <2>2, DeleteEachDoes
  <2>7. QED
    BY <2>1, <2>5, <2>6
<1>5. P[Len(order)] = {list \in Histories : Counted(list, Done(Len(order)))}
  BY <1>2
<1>6. Done(Len(order)) = dying
  BY <1>2
<1> HIDE DEF P, Done
<1>7. ips' \in P[Len(order)]
  BY <1>1, <1>2, <1>3, <1>4, InTurnStays
<1>8. Counted(ips', dying)
  BY <1>5, <1>6, <1>7
<1>9. ASSUME NEW ip \in IPs
      PROVE  /\ Existing(ip)' = Existing(ip) \ dying
             /\ Connecting(ip)' = Connecting(ip) \ dying
  <2>1. dying' = {} /\ UNCHANGED <<client, of, game>>
    BY DEF DeleteAll
  <2>2. \A c \in Clients : \A s \in Slots : client[s] = c => c \notin dying
    BY <1>0 DEF InSlots, Clients, None
  <2>3. QED
    BY <2>1, <2>2 DEF Existing, Connecting
<1>10. QED
  BY <1>8, <1>9 DEF Counted, CountsExact

\* Steps that leave the clients alone, and the counts
LEMMA CountsStay ==
  ASSUME CountsExact, \A ip \in IPs : Alike(Entry(ips', ip), Entry(ips, ip)),
         \A ip \in IPs : /\ Existing(ip)' = Existing(ip)
                         /\ Connecting(ip)' = Connecting(ip)
  PROVE  CountsExact'
  BY DEF CountsExact, Alike

LEMMA SameClients ==
  ASSUME UNCHANGED clientVars
  PROVE  \A ip \in IPs : /\ Existing(ip)' = Existing(ip)
                         /\ Connecting(ip)' = Connecting(ip)
  BY DEF clientVars, Existing, Connecting

LEMMA BecomesAlike ==
  ASSUME NEW ip \in IPs, NEW e, Becomes(ips', ips, ip, e),
         Alike(e, Entry(ips, ip))
  PROVE  \A a \in IPs : Alike(Entry(ips', a), Entry(ips, a))
<1> SUFFICES ASSUME NEW a \in IPs PROVE Alike(Entry(ips', a), Entry(ips, a))
  OBVIOUS
<1>1. CASE a = ip
  BY <1>1 DEF Becomes
<1>2. CASE a # ip
  BY <1>2 DEF Becomes, Alike
<1>3. QED
  BY <1>1, <1>2

\* An entry is erased only when it counts nobody, as a new one does.
LEMMA TickCounts ==
  ASSUME IPInv, CountsExact, NEW second \in BOOLEAN, Tick(second)
  PROVE  CountsExact'
<1>1. ASSUME NEW ip \in IPs PROVE Alike(Entry(ips', ip), Entry(ips, ip))
  <2>1. /\ Entry(ips, ip).connected = Cardinality(Existing(ip))
        /\ Entry(ips, ip).connecting = Cardinality(Connecting(ip))
        /\ Cardinality(Existing(ip)) \in Nat
        /\ Cardinality(Connecting(ip)) \in Nat
    BY DyingFinite, FS_CardinalityType DEF IPInv, CountsExact
  <2>2. \/ Alike(Entry(ips', ip), Entry(ips, ip))
        \/ /\ Entry(ips, ip).connected <= 0
           /\ Entry(ips, ip).connecting <= 0
           /\ Entry(ips', ip) = NewHistory(ip)
    BY TickDoes DEF IPInv
  <2>3. QED
    BY <2>1, <2>2, NewHistoryDoes DEF Alike
<1>2. UNCHANGED clientVars
  BY DEF Tick
<1>3. QED
  BY <1>1, <1>2, SameClients, CountsStay

LEMMA AcceptCounts ==
  ASSUME IPInv, CountsExact, NEW ip \in IPs, Accept(ip)
  PROVE  CountsExact'
<1> DEFINE c == tries + 1
<1>1. PICK s \in Slots :
           /\ client[s] = None /\ c \in Clients
           /\ tries' = c /\ lastGiven' = s
           /\ peer' = [peer EXCEPT ![s] = ip]
           /\ client' = [client EXCEPT ![s] = c]
           /\ net' = [net EXCEPT ![c] = s]
           /\ of' = [of EXCEPT ![c] = ip]
  BY AcceptGives
<1>2. /\ IPTypeOK /\ ips \in Histories /\ InSlots /\ ToDelete
      /\ game \subseteq 1..tries /\ dying' = dying /\ game' = game
  BY DEF IPInv, Accept
<1>3. c \notin 1..tries /\ None \notin Clients
  BY <1>2, IPNumbers DEF IPTypeOK, Clients, None
<1> HIDE DEF c
<1>4. /\ c \notin dying /\ c \notin game
      /\ \A t \in Slots : client[t] # c
  BY <1>1, <1>2, <1>3 DEF InSlots, ToDelete
<1>5. /\ \A d \in Clients \ {c} :
            (\E t \in Slots : client'[t] = d)
              <=> \E t \in Slots : client[t] = d
      /\ client'[s] = c
      /\ \A d \in Clients \ {c} : of'[d] = of[d]
      /\ of'[c] = ip
  BY <1>1, <1>2, <1>3 DEF IPTypeOK
<1>6. ASSUME NEW a \in IPs
      PROVE  /\ Existing(a)' = IF a = ip THEN Existing(a) \cup {c}
                               ELSE Existing(a)
             /\ Connecting(a)' = IF a = ip THEN Connecting(a) \cup {c}
                                 ELSE Connecting(a)
             /\ c \notin Existing(a) /\ c \notin Connecting(a)
  <2>1. c \notin Existing(a) /\ c \notin Connecting(a)
    BY <1>4 DEF Existing, Connecting
  <2>2. \A d \in Clients \ {c} : d \in Existing(a)' <=> d \in Existing(a)
    BY <1>2, <1>5 DEF Existing
  <2>3. c \in Existing(a)' <=> a = ip
    BY <1>1, <1>5 DEF Existing
  <2>4. Existing(a) \subseteq Clients /\ Existing(a)' \subseteq Clients
    BY DEF Existing
  <2>5. Existing(a)' = IF a = ip THEN Existing(a) \cup {c} ELSE Existing(a)
    BY <1>1, <2>1, <2>2, <2>3, <2>4
  <2>6. /\ Connecting(a)' = Existing(a)' \ game
        /\ Connecting(a) = Existing(a) \ game
    BY <1>2 DEF Connecting
  <2>7. QED
    BY <1>4, <2>1, <2>5, <2>6
<1>7. PICK e \in Entries :
           /\ Becomes(ips', ips, ip, e)
           /\ e.connected = Entry(ips, ip).connected + 1
           /\ e.connecting = Entry(ips, ip).connecting + 1
  BY <1>2, AcceptDoes
<1>8. ASSUME NEW a \in IPs
      PROVE  /\ Entry(ips', a).connected = Cardinality(Existing(a)')
             /\ Entry(ips', a).connecting = Cardinality(Connecting(a)')
  <2>1. /\ Entry(ips, a).connected = Cardinality(Existing(a))
        /\ Entry(ips, a).connecting = Cardinality(Connecting(a))
    BY DEF CountsExact
  <2>2. CASE a = ip
    <3>1. /\ Cardinality(Existing(a) \cup {c}) = Cardinality(Existing(a)) + 1
          /\ Cardinality(Connecting(a) \cup {c})
               = Cardinality(Connecting(a)) + 1
      BY <1>2, <1>6, DyingFinite, FS_AddElement
    <3>2. QED
      BY <1>6, <1>7, <2>1, <2>2, <3>1 DEF Becomes
  <2>3. CASE a # ip
    BY <1>6, <1>7, <2>1, <2>3 DEF Becomes
  <2>4. QED
    BY <2>2, <2>3
<1>9. QED
  BY <1>8 DEF CountsExact

\* Nobody is counted down twice unless he selects a server again.
LEMMA EnterGameCounts ==
  ASSUME IPInv, CountsExact, NEW s \in Slots, EnterGame(s), ~SelectsAgain
  PROVE  CountsExact'
<1> DEFINE c == client[s]
           ip == peer[s]
<1>1. /\ IPTypeOK /\ ips \in Histories /\ InSlots
      /\ c # None /\ game' = game \cup {c}
      /\ UNCHANGED <<client, dying, of>>
  BY DEF IPInv, EnterGame
<1>2. c \in Clients /\ of[c] = ip /\ ip \in IPs
  BY <1>1 DEF InSlots, IPTypeOK
<1>3. c \notin game
  BY DEF SelectsAgain
<1>4. PICK e \in Entries :
           /\ Becomes(ips', ips, ip, e)
           /\ e.connected = Entry(ips, ip).connected
           /\ e.connecting = Entry(ips, ip).connecting - 1
  BY <1>1, <1>2, EnterGameDoes
<1>5. ASSUME NEW a \in IPs
      PROVE  /\ Existing(a)' = Existing(a)
             /\ Connecting(a)' = Connecting(a) \ {c}
             /\ c \in Connecting(a) <=> a = ip
  BY <1>1, <1>2, <1>3 DEF Existing, Connecting
<1> HIDE DEF c, ip
<1>6. ASSUME NEW a \in IPs
      PROVE  /\ Entry(ips', a).connected = Cardinality(Existing(a)')
             /\ Entry(ips', a).connecting = Cardinality(Connecting(a)')
  <2>1. /\ Entry(ips, a).connected = Cardinality(Existing(a))
        /\ Entry(ips, a).connecting = Cardinality(Connecting(a))
    BY DEF CountsExact
  <2>2. Cardinality(Connecting(a) \ {c}) =
          IF a = ip THEN Cardinality(Connecting(a)) - 1
          ELSE Cardinality(Connecting(a))
    BY <1>1, <1>5, DyingFinite, FS_RemoveElement
  <2>3. CASE a = ip
    BY <1>4, <1>5, <2>1, <2>2, <2>3 DEF Becomes
  <2>4. CASE a # ip
    BY <1>4, <1>5, <2>1, <2>2, <2>4 DEF Becomes
  <2>5. QED
    BY <2>3, <2>4
<1>7. QED
  BY <1>6 DEF CountsExact

LEMMA ClearCounts ==
  ASSUME IPInv, CountsExact, NEW s \in Slots, Clear(s)
  PROVE  CountsExact'
<1>1. /\ client[s] # None /\ dying' = dying \cup {client[s]}
      /\ client' = [client EXCEPT ![s] = None]
      /\ UNCHANGED <<ips, of, game>> /\ IPTypeOK
  BY DEF IPInv, Clear
<1>2. /\ client'[s] = None /\ \A t \in Slots \ {s} : client'[t] = client[t]
      /\ None \notin Clients
  BY <1>1, IPNumbers DEF IPTypeOK, Clients, None
<1>3. ASSUME NEW c \in Clients
      PROVE  (c \in dying' \/ \E t \in Slots : client'[t] = c)
               <=> (c \in dying \/ \E t \in Slots : client[t] = c)
  BY <1>1, <1>2
<1>4. \A ip \in IPs : /\ Existing(ip)' = Existing(ip)
                      /\ Connecting(ip)' = Connecting(ip)
  BY <1>1, <1>3 DEF Existing, Connecting
<1>5. \A ip \in IPs : Alike(Entry(ips', ip), Entry(ips, ip))
  BY <1>1 DEF Alike
<1>6. QED
  BY <1>4, <1>5, CountsStay

LEMMA NextCounts ==
  ASSUME IPInv, CountsExact, [IPNext]_ipVars,
         ~SelectsAgain, DeleteAll => SlotsTell
  PROVE  CountsExact'
<1>0. ips \in Histories
  BY DEF IPInv
<1>1. ASSUME NEW ip \in IPs, Refuse(ip) \/ Block(ip) \/ Unblock(ip)
      PROVE  CountsExact'
  <2>1. \A a \in IPs : Alike(Entry(ips', a), Entry(ips, a))
    BY <1>0, <1>1, RefuseDoes, BlockDoes, BecomesAlike
  <2>2. UNCHANGED clientVars
    BY <1>1 DEF Refuse, Block, Unblock
  <2>3. QED
    BY <2>1, <2>2, SameClients, CountsStay
<1>2. CASE UNCHANGED ipVars
  <2>1. UNCHANGED clientVars /\ ips' = ips
    BY <1>2 DEF ipVars
  <2>2. \A a \in IPs : Alike(Entry(ips', a), Entry(ips, a))
    BY <2>1 DEF Alike
  <2>3. QED
    BY <2>1, <2>2, SameClients, CountsStay
<1>3. QED
  BY <1>1, <1>2, TickCounts, AcceptCounts, EnterGameCounts, ClearCounts,
     DeleteAllCounts
  DEF IPNext

-----------------------------------------------------------------------------
(* What a reader should know of the address history *)

\* From however many addresses clients come, and whatever a slot tells of where
\* they came from, every entry of the history keeps its type: the time to live
\* stops at -1, and no ping is taken back that was not counted.
THEOREM IPTypeCorrect == IPSpec => []IPTypeOK
<1>1. IPInv => IPTypeOK
  BY DEF IPInv
<1>2. QED
  BY <1>1, IPInvariance, PTL

\* A client that is accepted, logs in, is cleared and is deleted, in whatever
\* order that of others, counts itself up and down exactly, although its entry
\* may be erased and made again meanwhile.  Exact counts become wrong in two
\* ways only: by a client that is in game and selects a server again, and by the
\* deletion of one whose slot another address has (~CClient() asks the slot).
THEOREM WrongInTwoWays == IPSpec => CountsKept
<1>1. IPInv /\ [IPNext]_ipVars
        => [CountsExact /\ ~CountsExact'
              => SelectsAgain \/ (DeleteAll /\ ~SlotsTell)]_ipVars
  BY NextCounts
<1>2. QED
  BY <1>1, IPInvariance, PTL DEF IPSpec, CountsKept
=============================================================================
