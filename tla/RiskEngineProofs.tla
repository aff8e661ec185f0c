-------------------------- MODULE RiskEngineProofs --------------------------
(***************************************************************************)
(* Proofs about RiskEngine: what evaluate() approved stays within its      *)
(* limits through every fill, modify, cancel, restart and tick that comes  *)
(* between the approval, the submission and later, for any number of       *)
(* orders and any limits.                                                  *)
(*                                                                         *)
(* The limits are checked against a snapshot, and the order reaches the    *)
(* broker later.  The invariant says that they hold for the orders as they *)
(* are and for the orders as they will be once the prepared intent, if     *)
(* any, is submitted.                                                      *)
(***************************************************************************)
EXTENDS RiskEngine, FiniteSetTheorems, WellFoundedInduction, TLAPS

OrderType ==
    [state : {"none", "working", "filled", "cancelled"}, side : Sides,
     quantity : Nat, price : Nat, filled : Nat]

\* No order has more fills than its quantity, and none works for nothing.
Sound(r) == r.filled <= r.quantity /\ (r.state = "working" => r.price > 0)
Books == [Orders -> {r \in OrderType : Sound(r)}]

IntentType ==
    [action : {"place", "modify", "cancel"}, order : Orders, side : Sides,
     quantity : Nat, price : Nat \ {0}]

\* What an order still may sell, and the premium it still may cost.
Selling(r) == IF r.state = "working" /\ r.side = "sell" THEN r.quantity - r.filled ELSE 0
Costing(r) == IF r.state = "working" THEN (r.quantity - r.filled) * r.price ELSE 0

SellsOf(orders) == Total([o \in Orders |-> Selling(orders[o])])
PremiumOf(orders) == Total([o \in Orders |-> Costing(orders[o])])
WorkingOf(orders) == {o \in Orders : orders[o].state = "working"}

\* The limits, for some orders and a position.
Within(orders, held) ==
    /\ SellsOf(orders) <= held + SaturationSlack
    /\ PremiumOf(orders) <= MaxGross
    /\ Cardinality(WorkingOf(orders)) <= MaxOutstanding

\* The orders once the broker has done what i asks, for any orders (Submitted).
Asked(r, i) ==
    CASE i.action = "place" ->
            [state |-> "working", side |-> i.side, quantity |-> i.quantity,
             price |-> i.price, filled |-> 0]
      [] i.action = "modify" /\ r.state = "working" /\ i.quantity >= r.filled ->
            [state |-> r.state, side |-> r.side, quantity |-> i.quantity,
             price |-> i.price, filled |-> r.filled]
      [] i.action = "cancel" /\ r.state = "working" ->
            [state |-> "cancelled", side |-> r.side, quantity |-> r.quantity,
             price |-> r.price, filled |-> r.filled]
      [] OTHER -> r
SubmittedTo(orders, i) ==
    [o \in Orders |-> IF o = i.order THEN Asked(orders[o], i) ELSE orders[o]]

\* A prepared place finds its order unused, a modify one of its own side.
Finds(orders, i) ==
    /\ i.action = "place" => orders[i.order].state = "none"
    /\ i.action = "modify" => /\ orders[i.order].state # "none"
                              /\ orders[i.order].side = i.side

Types ==
    /\ fillModel \in {"d51", "scripted"} /\ health \in {"ready", "lost"}
    /\ order \in Books
    /\ InInt(position) /\ tracked \in BOOLEAN /\ mark \in Prices \cup {0}
    /\ now \in 0..LastTime /\ attempts \in Seq(0..now) /\ recent \subseteq DOMAIN attempts
    /\ prepared \subseteq IntentType
    /\ \A i, j \in prepared : i = j

Exposure ==
    /\ Within(order, position)
    /\ \A i \in prepared : Finds(order, i) /\ Within(SubmittedTo(order, i), position)

\* The attempts of the last window are all remembered.
Remembered == {k \in DOMAIN attempts : attempts[k] > now - Window} \subseteq recent

IInv == Types /\ Exposure /\ Remembered /\ RateIsBounded

-----------------------------------------------------------------------------
(* Functions defined by recursion on 0..N.                                 *)

\* A set of numbers with 0 and every successor is Nat: the induction with
\* which the sums over the orders are followed.
LEMMA NatSetInduction ==
    ASSUME NEW T \in SUBSET Nat, 0 \in T, \A n \in T : n + 1 \in T
    PROVE  T = Nat
<1> DEFINE R == OpToRel(<, Nat)
           U == Nat \ T
<1>1. \A x, y \in Nat : <<x, y>> \in R <=> x < y
  BY DEF OpToRel
<1>2. IsWellFoundedOn(R, Nat)
  BY NatLessThanWellFounded
<1> SUFFICES ASSUME U # {} PROVE FALSE
  OBVIOUS
<1>3. \E x \in U : \A y \in U : ~(<<y, x>> \in R)
  <2> HIDE DEF R, U
  <2>1. U \subseteq Nat
    BY DEF U
  <2> QED BY <1>2, <2>1, WFMin
<1>4. PICK x \in U : \A y \in U : ~(y < x)
  BY <1>1, <1>3
<1>5. x # 0 /\ x - 1 \in Nat /\ x - 1 < x
  BY <1>4
<1>6. x - 1 \in T
  BY <1>4, <1>5
<1> QED BY <1>5, <1>6

\* f takes N steps from s0, each from the value before.
IsRecursion(f, N, s0, next) == f[0] = s0 /\ \A n \in 1..N : f[n] = next[<<n, f[n - 1]>>]

\* A function defined step by step from its value before exists, as the loops
\* of capture_risk_snapshot over the orders compute one.
LEMMA BoundedRecursion ==
    ASSUME NEW N \in Nat, NEW S, NEW s0 \in S, NEW next,
           \A n \in 1..N, s \in S : next[<<n, s>>] \in S
    PROVE  \E f \in [0..N -> S] : IsRecursion(f, N, s0, next)
<1> DEFINE Good(m) == \E f \in [0..m -> S] : IsRecursion(f, m, s0, next)
           T == {m \in Nat : m <= N => Good(m)}
<1>1. 0 \in T
  <2>1. [n \in 0..0 |-> s0] \in [0..0 -> S] /\ [n \in 0..0 |-> s0][0] = s0
    OBVIOUS
  <2>2. \A n \in 1..0 : FALSE
    OBVIOUS
  <2>3. Good(0)
    BY <2>1, <2>2 DEF IsRecursion
  <2> QED BY <2>3
<1>2. ASSUME NEW m \in T PROVE m + 1 \in T
  <2> SUFFICES ASSUME m + 1 <= N PROVE Good(m + 1)
    OBVIOUS
  <2>1. PICK f \in [0..m -> S] :
          f[0] = s0 /\ \A n \in 1..m : f[n] = next[<<n, f[n - 1]>>]
    BY <1>2 DEF IsRecursion
  <2> DEFINE g == [n \in 0..(m + 1) |-> IF n = m + 1 THEN next[<<m + 1, f[m]>>] ELSE f[n]]
  <2>2. m \in Nat /\ m \in 0..m /\ m + 1 \in 1..N /\ f[m] \in S
    BY <1>2, <2>1
  <2>3. next[<<m + 1, f[m]>>] \in S
    BY <2>2
  <2>4. g \in [0..(m + 1) -> S]
    BY <2>1, <2>2, <2>3
  <2>5. g[0] = s0
    BY <2>1, <2>2
  <2>6. ASSUME NEW n \in 1..(m + 1) PROVE g[n] = next[<<n, g[n - 1]>>]
    <3>1. n - 1 \in 0..m /\ n \in 0..(m + 1) /\ n - 1 # m + 1 /\ n - 1 \in 0..(m + 1)
      BY <2>2
    <3>2. g[n - 1] = f[n - 1]
      BY <3>1
    <3>3. CASE n = m + 1
      <4>1. g[n] = next[<<m + 1, f[m]>>] /\ n - 1 = m
        BY <3>1, <3>3, <2>2
      <4> QED BY <4>1, <3>2, <3>3
    <3>4. CASE n # m + 1
      <4>1. n \in 1..m /\ g[n] = f[n]
        BY <3>1, <3>4, <2>2
      <4> QED BY <4>1, <3>2, <2>1
    <3> QED BY <3>3, <3>4
  <2> HIDE DEF g
  <2> QED BY <2>4, <2>5, <2>6 DEF IsRecursion
<1>3. T = Nat
  <2> HIDE DEF Good
  <2> QED BY <1>1, <1>2, NatSetInduction
<1>4. N \in T
  BY <1>3
<1> QED BY <1>4

-----------------------------------------------------------------------------
(* Sums over the orders.                                                   *)

\* The sum grows by one order at a time (Total).
LEMMA TotalSteps ==
    ASSUME NEW f \in [Orders -> Int]
    PROVE  \E t \in [0..NumOrders -> Int] :
             /\ t[0] = 0 /\ \A k \in 1..NumOrders : t[k] = t[k - 1] + f[k]
             /\ Total(f) = t[NumOrders]
<1> DEFINE N == NumOrders
           next == [x \in (1..N) \X Int |-> x[2] + f[x[1]]]
           Solves(g) == g = [k \in 0..N |-> IF k = 0 THEN 0 ELSE g[k - 1] + f[k]]
           upto == CHOOSE g : Solves(g)
<1>1. N \in Nat /\ Orders = 1..N
  BY LimitsAssumption DEF Orders
<1>2. \A k \in 1..N, s \in Int : next[<<k, s>>] \in Int /\ next[<<k, s>>] = s + f[k]
  BY <1>1
<1>3. PICK h \in [0..N -> Int] : IsRecursion(h, N, 0, next)
  <2> DEFINE S == Int
             s0 == 0
  <2>1. N \in Nat /\ s0 \in S /\ \A k \in 1..N, s \in S : next[<<k, s>>] \in S
    BY <1>1, <1>2
  <2> HIDE DEF N, next, S, s0
  <2>2. \E h \in [0..N -> S] : IsRecursion(h, N, s0, next)
    BY <2>1, BoundedRecursion
  <2> QED BY <2>2 DEF S, s0
<1>4. Solves(h)
  <2>1. \A k \in 0..N : h[k] = IF k = 0 THEN 0 ELSE h[k - 1] + f[k]
    <3> SUFFICES ASSUME NEW k \in 0..N, k # 0 PROVE h[k] = h[k - 1] + f[k]
      BY <1>3 DEF IsRecursion
    <3>1. k \in 1..N /\ k - 1 \in 0..N
      BY <1>1
    <3>2. h[k] = next[<<k, h[k - 1]>>] /\ h[k - 1] \in Int
      BY <1>3, <3>1 DEF IsRecursion
    <3> HIDE DEF next
    <3> QED BY <1>2, <3>1, <3>2
  <2> QED BY <2>1
<1>5. Solves(upto)
  <2> HIDE DEF Solves
  <2> QED BY <1>4
<1>6. Total(f) = upto[N]
  BY DEF Total
<1> HIDE DEF upto
<1>7. upto[0] = 0 /\ \A k \in 1..N : upto[k] = upto[k - 1] + f[k]
  BY <1>1, <1>5
<1> DEFINE T == {k \in Nat : k <= N => upto[k] \in Int}
<1>8. T = Nat
  <2>1. 0 \in T
    BY <1>7
  <2>2. ASSUME NEW k \in T PROVE k + 1 \in T
    <3> SUFFICES ASSUME k + 1 <= N PROVE upto[k + 1] \in Int
      OBVIOUS
    <3>1. k + 1 \in 1..N /\ (k + 1) - 1 = k /\ upto[k] \in Int
      BY <1>1, <2>2
    <3>2. f[k + 1] \in Int
      BY <1>1, <3>1
    <3> QED BY <1>7, <3>1, <3>2
  <2> QED BY <2>1, <2>2, NatSetInduction
<1>9. upto \in [0..N -> Int]
  <2>1. \A k \in 0..N : upto[k] \in Int
    <3> TAKE k \in 0..N
    <3>1. k \in Nat /\ k <= N
      BY <1>1
    <3> QED BY <1>8, <3>1
  <2> QED BY <1>5, <2>1
<1> QED BY <1>6, <1>7, <1>9

\* A sum is a number, not below that of smaller parts, and not below zero or
\* any part when no part is negative.
LEMMA TotalMonotone ==
    ASSUME NEW f \in [Orders -> Int], NEW g \in [Orders -> Int],
           \A o \in Orders : f[o] <= g[o]
    PROVE  Total(f) \in Int /\ Total(g) \in Int /\ Total(f) <= Total(g)
<1> DEFINE N == NumOrders
<1>1. N \in Nat /\ Orders = 1..N
  BY LimitsAssumption DEF Orders
<1>2. PICK s \in [0..N -> Int] :
        /\ s[0] = 0 /\ \A k \in 1..N : s[k] = s[k - 1] + f[k]
        /\ Total(f) = s[N]
  BY TotalSteps
<1>3. PICK t \in [0..N -> Int] :
        /\ t[0] = 0 /\ \A k \in 1..N : t[k] = t[k - 1] + g[k]
        /\ Total(g) = t[N]
  BY TotalSteps
<1> DEFINE T == {k \in Nat : k <= N => s[k] <= t[k]}
<1>4. 0 \in T
  BY <1>2, <1>3
<1>5. ASSUME NEW k \in T PROVE k + 1 \in T
  <2> SUFFICES ASSUME k + 1 <= N PROVE s[k + 1] <= t[k + 1]
    OBVIOUS
  <2>1. k + 1 \in 1..N /\ (k + 1) - 1 = k /\ k \in 0..N /\ s[k] <= t[k]
    BY <1>1, <1>5
  <2>2. f[k + 1] \in Int /\ g[k + 1] \in Int /\ f[k + 1] <= g[k + 1]
    BY <1>1, <2>1
  <2>3. s[k] \in Int /\ t[k] \in Int
    BY <2>1
  <2> QED BY <1>2, <1>3, <2>1, <2>2, <2>3
<1>6. T = Nat
  BY <1>4, <1>5, NatSetInduction
<1>7. s[N] <= t[N] /\ s[N] \in Int /\ t[N] \in Int
  <2>1. N \in T
    BY <1>1, <1>6
  <2>2. N \in 0..N
    BY <1>1
  <2> QED BY <2>1, <2>2
<1> QED BY <1>2, <1>3, <1>7

\* The sum of two contributions is the sum of their sums.
LEMMA TotalAdds ==
    ASSUME NEW f \in [Orders -> Int], NEW g \in [Orders -> Int], NEW h \in [Orders -> Int],
           \A o \in Orders : h[o] = f[o] + g[o]
    PROVE  Total(h) = Total(f) + Total(g)
<1> DEFINE N == NumOrders
<1>1. N \in Nat /\ Orders = 1..N
  BY LimitsAssumption DEF Orders
<1>2. PICK s \in [0..N -> Int] :
        /\ s[0] = 0 /\ \A k \in 1..N : s[k] = s[k - 1] + f[k]
        /\ Total(f) = s[N]
  BY TotalSteps
<1>3. PICK t \in [0..N -> Int] :
        /\ t[0] = 0 /\ \A k \in 1..N : t[k] = t[k - 1] + g[k]
        /\ Total(g) = t[N]
  BY TotalSteps
<1>4. PICK u \in [0..N -> Int] :
        /\ u[0] = 0 /\ \A k \in 1..N : u[k] = u[k - 1] + h[k]
        /\ Total(h) = u[N]
  BY TotalSteps
<1> DEFINE T == {k \in Nat : k <= N => u[k] = s[k] + t[k]}
<1>5. 0 \in T
  BY <1>2, <1>3, <1>4
<1>6. ASSUME NEW k \in T PROVE k + 1 \in T
  <2> SUFFICES ASSUME k + 1 <= N PROVE u[k + 1] = s[k + 1] + t[k + 1]
    OBVIOUS
  <2>1. k + 1 \in 1..N /\ (k + 1) - 1 = k /\ k \in 0..N /\ u[k] = s[k] + t[k]
    BY <1>1, <1>6
  <2>2. f[k + 1] \in Int /\ g[k + 1] \in Int /\ h[k + 1] = f[k + 1] + g[k + 1]
    BY <1>1, <2>1
  <2>3. s[k] \in Int /\ t[k] \in Int
    BY <2>1
  <2> QED BY <1>2, <1>3, <1>4, <2>1, <2>2, <2>3
<1>7. T = Nat
  BY <1>5, <1>6, NatSetInduction
<1>8. u[N] = s[N] + t[N]
  <2>1. N \in T
    BY <1>1, <1>7
  <2> QED BY <2>1
<1> QED BY <1>2, <1>3, <1>4, <1>8

\* A sum with one part is that part.
LEMMA TotalOfOne ==
    ASSUME NEW f \in [Orders -> Int], NEW p \in Orders, \A o \in Orders \ {p} : f[o] = 0
    PROVE  Total(f) = f[p]
<1> DEFINE N == NumOrders
<1>1. N \in Nat /\ Orders = 1..N
  BY LimitsAssumption DEF Orders
<1>2. PICK s \in [0..N -> Int] :
        /\ s[0] = 0 /\ \A k \in 1..N : s[k] = s[k - 1] + f[k]
        /\ Total(f) = s[N]
  BY TotalSteps
<1> DEFINE T == {k \in Nat : k <= N => s[k] = IF k < p THEN 0 ELSE f[p]}
<1>3. 0 \in T
  BY <1>1, <1>2
<1>4. ASSUME NEW k \in T PROVE k + 1 \in T
  <2> SUFFICES ASSUME k + 1 <= N PROVE s[k + 1] = IF k + 1 < p THEN 0 ELSE f[p]
    OBVIOUS
  <2>1. /\ k + 1 \in 1..N /\ (k + 1) - 1 = k /\ p \in 1..N /\ k \in Nat
        /\ s[k] = IF k < p THEN 0 ELSE f[p]
    BY <1>1, <1>4
  <2>2. f[k + 1] = IF k + 1 = p THEN f[p] ELSE 0
    BY <1>1, <2>1
  <2>3. f[p] \in Int /\ s[k + 1] = s[k] + f[k + 1]
    BY <1>2, <2>1
  <2> QED BY <2>1, <2>2, <2>3
<1>5. T = Nat
  BY <1>3, <1>4, NatSetInduction
<1>6. s[N] = f[p]
  <2>1. N \in T /\ ~(N < p)
    BY <1>1, <1>5
  <2> QED BY <2>1
<1> QED BY <1>2, <1>6

\* No negative parts: the sum is at least zero and at least each part.
LEMMA TotalCovers ==
    ASSUME NEW f \in [Orders -> Int], \A o \in Orders : f[o] >= 0
    PROVE  Total(f) \in Int /\ Total(f) >= 0 /\ \A o \in Orders : f[o] <= Total(f)
<1> DEFINE zero == [o \in Orders |-> 0]
<1>1. zero \in [Orders -> Int] /\ \A o \in Orders : zero[o] <= f[o]
  OBVIOUS
<1>2. Total(zero) \in Int /\ Total(f) \in Int /\ Total(zero) <= Total(f)
  <2> HIDE DEF zero
  <2> QED BY <1>1, TotalMonotone
<1>3. Total(zero) = 0
  <2>1. \A o \in Orders : zero[o] = zero[o] + zero[o]
    OBVIOUS
  <2> HIDE DEF zero
  <2>2. Total(zero) = Total(zero) + Total(zero)
    BY <1>1, <2>1, TotalAdds
  <2> DEFINE z == Total(zero)
  <2>3. z \in Int /\ z = z + z
    BY <1>2, <2>2
  <2> HIDE DEF z
  <2>4. z = 0
    BY <2>3
  <2> QED BY <2>4 DEF z
<1>4. ASSUME NEW p \in Orders PROVE f[p] <= Total(f)
  <2> DEFINE g == [o \in Orders |-> IF o = p THEN f[p] ELSE 0]
  <2>1. /\ g \in [Orders -> Int] /\ g[p] = f[p] /\ \A o \in Orders : g[o] <= f[o]
        /\ \A o \in Orders \ {p} : g[o] = 0
    OBVIOUS
  <2> HIDE DEF g
  <2>2. Total(g) = g[p]
    BY <2>1, TotalOfOne
  <2>3. Total(g) <= Total(f)
    BY <2>1, TotalMonotone
  <2> QED BY <2>1, <2>2, <2>3
<1> QED BY <1>2, <1>3, <1>4

\* A sum in which one part has another value.
LEMMA TotalChanges ==
    ASSUME NEW f \in [Orders -> Int], NEW g \in [Orders -> Int], NEW p \in Orders,
           \A o \in Orders \ {p} : f[o] = g[o]
    PROVE  Total(g) = Total(f) + (g[p] - f[p])
<1> DEFINE d == [o \in Orders |-> g[o] - f[o]]
<1>1. /\ d \in [Orders -> Int] /\ d[p] = g[p] - f[p]
      /\ \A o \in Orders \ {p} : d[o] = 0
      /\ \A o \in Orders : g[o] = f[o] + d[o]
  OBVIOUS
<1> HIDE DEF d
<1>2. Total(d) = d[p]
  BY <1>1, TotalOfOne
<1>3. Total(g) = Total(f) + Total(d)
  BY <1>1, TotalAdds
<1> QED BY <1>1, <1>2, <1>3

-----------------------------------------------------------------------------
(* The orders of the broker and the limits.                                *)

\* What an order is once its quantity and price, or its fills and state, change
\* (PaperBroker::modify, PaperBroker::fill).
LEMMA Repriced ==
    ASSUME NEW r \in OrderType, NEW q, NEW p
    PROVE  [r EXCEPT !.quantity = q, !.price = p]
             = [state |-> r.state, side |-> r.side, quantity |-> q, price |-> p,
                filled |-> r.filled]
<1> DEFINE s == [r EXCEPT !.quantity = q]
<1>1. s = [state |-> r.state, side |-> r.side, quantity |-> q, price |-> r.price,
           filled |-> r.filled]
  BY DEF OrderType
<1>2. [r EXCEPT !.quantity = q, !.price = p] = [s EXCEPT !.price = p]
  BY DEF OrderType
<1>3. /\ s.state = r.state /\ s.side = r.side /\ s.quantity = q /\ s.filled = r.filled
      /\ DOMAIN s = {"state", "side", "quantity", "price", "filled"}
  BY <1>1
<1>4. s \in [state : {s.state}, side : {s.side}, quantity : {q}, price : {s.price},
            filled : {s.filled}]
  BY <1>1
<1> HIDE DEF s
<1>5. [s EXCEPT !.price = p] = [state |-> s.state, side |-> s.side, quantity |-> s.quantity,
                               price |-> p, filled |-> s.filled]
  BY <1>4
<1> QED BY <1>2, <1>3, <1>5

\* PaperBroker::fill.
LEMMA Refilled ==
    ASSUME NEW r \in OrderType, NEW c, NEW st
    PROVE  [r EXCEPT !.filled = c, !.state = st]
             = [state |-> st, side |-> r.side, quantity |-> r.quantity, price |-> r.price,
                filled |-> c]
<1> DEFINE s == [r EXCEPT !.filled = c]
<1>1. s = [state |-> r.state, side |-> r.side, quantity |-> r.quantity, price |-> r.price,
           filled |-> c]
  BY DEF OrderType
<1>2. [r EXCEPT !.filled = c, !.state = st] = [s EXCEPT !.state = st]
  BY DEF OrderType
<1>3. /\ s.price = r.price /\ s.side = r.side /\ s.quantity = r.quantity /\ s.filled = c
  BY <1>1
<1>4. s \in [state : {s.state}, side : {s.side}, quantity : {s.quantity}, price : {s.price},
            filled : {c}]
  BY <1>1
<1> HIDE DEF s
<1>5. [s EXCEPT !.state = st] = [state |-> st, side |-> s.side, quantity |-> s.quantity,
                               price |-> s.price, filled |-> s.filled]
  BY <1>4
<1> QED BY <1>2, <1>3, <1>5

\* What an order contributes to the sums is never negative.
LEMMA Contributions ==
    ASSUME NEW x \in Books
    PROVE  /\ \A o \in Orders : Selling(x[o]) \in Nat /\ Costing(x[o]) \in Nat
           /\ [o \in Orders |-> Selling(x[o])] \in [Orders -> Int]
           /\ [o \in Orders |-> Costing(x[o])] \in [Orders -> Int]
           /\ SellsOf(x) \in Int /\ PremiumOf(x) \in Int
<1>1. ASSUME NEW o \in Orders PROVE Selling(x[o]) \in Nat /\ Costing(x[o]) \in Nat
  <2>1. /\ x[o].quantity \in Nat /\ x[o].filled \in Nat /\ x[o].price \in Nat
        /\ x[o].filled <= x[o].quantity
    BY DEF Books, Sound, OrderType
  <2>2. x[o].quantity - x[o].filled \in Nat
    BY <2>1
  <2>3. (x[o].quantity - x[o].filled) * x[o].price \in Nat
    BY <2>1, <2>2
  <2> QED BY <2>2, <2>3 DEF Selling, Costing
<1> DEFINE f == [o \in Orders |-> Selling(x[o])]
           g == [o \in Orders |-> Costing(x[o])]
<1>2. f \in [Orders -> Int] /\ g \in [Orders -> Int]
  BY <1>1
<1>3. \A o \in Orders : f[o] >= 0 /\ g[o] >= 0
  BY <1>1
<1> HIDE DEF f, g
<1>4. Total(f) \in Int /\ Total(g) \in Int
  BY <1>2, <1>3, TotalCovers
<1> QED BY <1>1, <1>2, <1>4 DEF f, g, SellsOf, PremiumOf

\* Saturation lets one unit through at most.
LEMMA SlackIsSmall == SaturationSlack \in {0, 1}
<1> QED BY DEF SaturationSlack

\* There are finitely many orders, so the working ones can be counted.
LEMMA WorkingIsFinite ==
    ASSUME NEW S, S \subseteq Orders
    PROVE  IsFiniteSet(S) /\ Cardinality(S) \in Nat
<1>1. IsFiniteSet(Orders)
  BY LimitsAssumption, FS_Interval DEF Orders
<1> QED BY <1>1, FS_Subset, FS_CardinalityType

\* The snapshot's sums over the working orders are those of all orders.
LEMMA SnapshotSums ==
    ASSUME order \in Books
    PROVE  /\ Working = WorkingOf(order)
           /\ WorkingSells(Working) = SellsOf(order)
           /\ Premium(Working) = PremiumOf(order)
<1>1. Working = WorkingOf(order)
  BY DEF Working, WorkingOf
<1>2. [o \in Orders |-> IF o \in Working /\ order[o].side = "sell" THEN Remaining(o) ELSE 0]
        = [o \in Orders |-> Selling(order[o])]
  BY DEF Working, Remaining, Selling
<1>3. [o \in Orders |-> IF o \in Working THEN Remaining(o) * order[o].price ELSE 0]
        = [o \in Orders |-> Costing(order[o])]
  BY DEF Working, Remaining, Costing
<1> QED BY <1>1, <1>2, <1>3 DEF WorkingSells, Premium, SellsOf, PremiumOf

\* Orders y that sell less than x by d at least, cost no more and are working
\* in x are within the limits when x was and the position fell by d at most.
LEMMA WithinReduced ==
    ASSUME NEW x \in Books, NEW y \in Books, NEW held \in Int, NEW left \in Int,
           NEW d \in [Orders -> Int], Within(x, held), left >= held - Total(d),
           \A o \in Orders : /\ Selling(y[o]) + d[o] <= Selling(x[o])
                             /\ Costing(y[o]) <= Costing(x[o])
                             /\ y[o].state = "working" => x[o].state = "working"
    PROVE  Within(y, left)
<1> DEFINE f == [o \in Orders |-> Selling(y[o])]
           g == [o \in Orders |-> Selling(x[o])]
           h == [o \in Orders |-> Selling(y[o]) + d[o]]
           p == [o \in Orders |-> Costing(y[o])]
           q == [o \in Orders |-> Costing(x[o])]
<1>1. /\ f \in [Orders -> Int] /\ g \in [Orders -> Int] /\ p \in [Orders -> Int]
      /\ q \in [Orders -> Int] /\ \A o \in Orders : Selling(y[o]) \in Int
  BY Contributions
<1>2. /\ h \in [Orders -> Int] /\ \A o \in Orders : h[o] = f[o] + d[o]
      /\ \A o \in Orders : h[o] <= g[o]
      /\ \A o \in Orders : p[o] <= q[o]
  BY <1>1
<1> HIDE DEF f, g, h, p, q
<1>3. Total(h) = Total(f) + Total(d)
  BY <1>1, <1>2, TotalAdds
<1>4. Total(h) <= Total(g) /\ Total(g) \in Int /\ Total(h) \in Int
  BY <1>1, <1>2, TotalMonotone
<1>5. Total(p) <= Total(q) /\ Total(p) \in Int /\ Total(q) \in Int
  BY <1>1, <1>2, TotalMonotone
<1>6. Total(f) \in Int /\ Total(d) \in Int
  BY <1>1, TotalMonotone
<1>7. Total(g) <= held + SaturationSlack /\ Total(q) <= MaxGross
  BY DEF Within, SellsOf, PremiumOf, g, q
<1>8. Total(f) <= left + SaturationSlack
  BY <1>3, <1>4, <1>6, <1>7, SlackIsSmall
<1>9. Total(p) <= MaxGross
  BY <1>5, <1>7, LimitsAssumption
<1>10. Cardinality(WorkingOf(y)) <= MaxOutstanding
  <2>1. WorkingOf(y) \subseteq WorkingOf(x) /\ WorkingOf(x) \subseteq Orders
    BY DEF WorkingOf
  <2>2. /\ IsFiniteSet(WorkingOf(x)) /\ Cardinality(WorkingOf(x)) \in Nat
        /\ Cardinality(WorkingOf(y)) \in Nat
    BY <2>1, WorkingIsFinite
  <2>3. Cardinality(WorkingOf(y)) <= Cardinality(WorkingOf(x))
    BY <2>1, <2>2, FS_Subset
  <2> QED BY <2>2, <2>3, LimitsAssumption DEF Within
<1> QED BY <1>8, <1>9, <1>10 DEF Within, SellsOf, PremiumOf, f, p

\* The others sell no more than all working orders, and less than them by what
\* the target still sells.
LEMMA OthersSell ==
    ASSUME order \in Books, NEW i, i.order \in Orders
    PROVE  /\ WorkingSells(Working) \in Int /\ WorkingSells(Others(i)) \in Int
           /\ 0 <= WorkingSells(Others(i)) /\ WorkingSells(Others(i)) <= WorkingSells(Working)
           /\ i.order \in Working /\ order[i.order].side = "sell"
                => /\ WorkingSells(Others(i)) = WorkingSells(Working) - Remaining(i.order)
                   /\ Remaining(i.order) \in Nat
<1> DEFINE f == [o \in Orders |->
                  IF o \in Others(i) /\ order[o].side = "sell" THEN Remaining(o) ELSE 0]
           g == [o \in Orders |->
                  IF o \in Working /\ order[o].side = "sell" THEN Remaining(o) ELSE 0]
           p == i.order
<1>1. \A o \in Orders : Remaining(o) \in Nat
  BY DEF Remaining, Books, Sound, OrderType
<1>2. f \in [Orders -> Int] /\ g \in [Orders -> Int]
  BY <1>1
<1>3. \A o \in Orders : f[o] <= g[o]
  BY <1>1 DEF Others
<1>4. \A o \in Orders \ {p} : g[o] = f[o]
  BY DEF Others
<1>5. f[p] = 0 /\ (p \in Working /\ order[p].side = "sell" => g[p] = Remaining(p))
  BY DEF Others
<1>6. WorkingSells(Others(i)) = Total(f) /\ WorkingSells(Working) = Total(g) /\ p \in Orders
  BY DEF WorkingSells
<1>11. \A o \in Orders : f[o] >= 0
  BY <1>1
<1> HIDE DEF f, g
<1>7. Total(f) \in Int /\ Total(g) \in Int /\ 0 <= Total(f) /\ Total(f) <= Total(g)
  BY <1>2, <1>3, <1>11, TotalMonotone, TotalCovers
<1>8. Total(f) = Total(g) + (f[p] - g[p])
  BY <1>2, <1>4, <1>6, TotalChanges
<1>9. f[p] \in Int /\ g[p] \in Int
  BY <1>2, <1>6
<1> HIDE DEF p
<1>10. p \in Working /\ order[p].side = "sell" => Total(f) = Total(g) - Remaining(p)
  BY <1>5, <1>7, <1>8, <1>9
<1> QED BY <1>1, <1>6, <1>7, <1>10 DEF p

\* What the others still sell they sell for a paisa a unit at least, so their
\* premium is not below their sells.
LEMMA OthersCost ==
    ASSUME order \in Books, NEW i
    PROVE  /\ WorkingSells(Others(i)) \in Int /\ Premium(Others(i)) \in Nat
           /\ WorkingSells(Others(i)) <= Premium(Others(i))
<1> DEFINE f == [o \in Orders |->
                  IF o \in Others(i) /\ order[o].side = "sell" THEN Remaining(o) ELSE 0]
           g == [o \in Orders |->
                  IF o \in Others(i) THEN Remaining(o) * order[o].price ELSE 0]
<1>1. ASSUME NEW o \in Orders PROVE f[o] \in Nat /\ g[o] \in Nat /\ f[o] <= g[o]
  <2>1. /\ Remaining(o) \in Nat /\ order[o].price \in Nat
        /\ o \in Others(i) => order[o].price > 0
    BY DEF Remaining, Books, Sound, OrderType, Others, Working
  <2> DEFINE n == Remaining(o)
             w == order[o].price
  <2>2. n * w \in Nat /\ (w > 0 => n <= n * w)
    <3>1. n \in Nat /\ w \in Nat
      BY <2>1
    <3> HIDE DEF n, w
    <3> QED BY <3>1
  <2> QED BY <2>1, <2>2
<1>2. /\ f \in [Orders -> Int] /\ g \in [Orders -> Int]
      /\ \A o \in Orders : g[o] >= 0 /\ f[o] <= g[o]
  BY <1>1
<1>3. WorkingSells(Others(i)) = Total(f) /\ Premium(Others(i)) = Total(g)
  BY DEF WorkingSells, Premium
<1> HIDE DEF f, g
<1> QED BY <1>2, <1>3, TotalMonotone, TotalCovers

\* A sell that evaluate() approves has its inventory after the others' sells,
\* but where the saturated requirement hides one unit: the premium, which counts
\* a paisa at least for each unit held, reserved and asked for, leaves no more.
LEMMA SellsWithinReach ==
    ASSUME Types, NEW i \in Intents, Approves(i), i.side = "sell"
    PROVE  /\ WorkingSells(Others(i)) \in Int
           /\ \/ WorkingSells(Others(i)) + Projected(i) <= position
              \/ SaturatedSell(i) /\ MaxGross >= MaxUint
<1> DEFINE p == i.order
           n == Projected(i)
           sells == WorkingSells(Others(i))
           all == WorkingSells(Working)
           own == Remaining(p)
           reserved == IF i.action = "modify" /\ order[p].side = "sell" /\ all >= own
                       THEN all - own ELSE all
<1>1. /\ order \in Books /\ position \in Int /\ position <= MaxInt /\ mark \in Nat
      /\ MaxInt \in Nat /\ MaxUint = 2 * MaxInt + 1 /\ MaxGross \in Nat
  BY LimitsAssumption DEF Types, InInt
<1>2. /\ i.action \in {"place", "modify"} /\ p \in Orders
      /\ i.quantity \in Nat \ {0} /\ i.price \in Nat \ {0}
  <2>1. i \in [action : {"place", "modify"}, order : Orders, side : Sides,
               quantity : Quantities, price : Prices]
    BY DEF Intents
  <2> QED BY <2>1, LimitsAssumption
<1>3. n \in Nat \ {0}
  <2>1. order[p].filled \in Nat
    BY <1>1, <1>2 DEF Books, Sound, OrderType
  <2> QED BY <1>2, <2>1 DEF Projected
<1>4. /\ all \in Int /\ sells \in Int /\ 0 <= sells /\ sells <= all
      /\ p \in Working /\ order[p].side = "sell" => sells = all - own /\ own \in Nat
  BY <1>1, <1>2, OthersSell
<1>5. reserved = sells
  <2>1. CASE i.action = "place"
    <3>1. order[p].state = "none"
      BY <2>1 DEF Approves, TargetFits
    <3>2. Others(i) = Working
      BY <3>1 DEF Others, Working
    <3> QED BY <2>1, <3>2
  <2>2. CASE i.action = "modify"
    <3>1. p \in Working /\ order[p].side = "sell"
      BY <2>2 DEF Approves, TargetFits
    <3> HIDE DEF own, all, sells, p
    <3>2. sells = all - own /\ own \in Nat /\ all >= own
      BY <1>4, <3>1
    <3> QED BY <2>2, <3>1, <3>2
  <2> QED BY <1>2, <2>1, <2>2
<1>6. /\ reserved <= MaxInt
      /\ position >= IF reserved + n <= MaxInt THEN reserved + n ELSE MaxInt
  BY DEF Approves, SellFits
<1> DEFINE held == Abs(position) * mark
           premium == Premium(Others(i))
           cost == n * i.price
<1>7. /\ InUint((IF InUint(held) THEN held ELSE MaxUint) + premium + cost)
      /\ (IF InUint(held) THEN held ELSE MaxUint) + premium + cost <= MaxGross
  BY DEF Approves, GrossFits
<1>8. premium \in Nat /\ sells <= premium
  BY <1>1, OthersCost
<1>9. cost \in Nat /\ n <= cost
  <2> DEFINE w == i.price
  <2>1. w \in Nat \ {0}
    BY <1>2
  <2> HIDE DEF n, w
  <2> QED BY <1>3, <2>1 DEF w
<1>10. ExactGross(i) = held + premium + cost
  BY DEF ExactGross
<1>11. CASE reserved + n <= MaxInt
  <2> HIDE DEF reserved, n, sells
  <2> QED BY <1>4, <1>5, <1>6, <1>11 DEF n, sells
<1>12. CASE ~(reserved + n <= MaxInt)
  <2>1. position = MaxInt
    <3> HIDE DEF reserved, n
    <3> QED BY <1>1, <1>6, <1>12
  <2>2. mark > 0
    BY DEF Approves
  <2>3. held \in Nat /\ held >= MaxInt
    <3>1. Abs(position) = MaxInt
      BY <1>1, <2>1 DEF Abs
    <3> QED BY <1>1, <2>2, <3>1
  <2> HIDE DEF reserved, n, sells, held, premium, cost
  <2>4. InUint(held)
    BY <1>1, <1>3, <1>4, <1>5, <1>7, <1>8, <1>9, <1>12, <2>3 DEF InUint
  <2>5. held + premium + cost <= MaxUint /\ held + premium + cost <= MaxGross
    BY <1>7, <2>4 DEF InUint
  <2>6. sells + n = MaxInt + 1 /\ held + premium + cost = MaxUint /\ MaxGross >= MaxUint
    BY <1>1, <1>3, <1>4, <1>5, <1>8, <1>9, <1>12, <2>3, <2>5
  <2> QED BY <1>4, <1>10, <2>1, <2>6 DEF SaturatedSell, n, sells
<1> QED BY <1>11, <1>12

\* evaluate() leaves room for the order it approves: the limits hold of the
\* orders that submitting it will lead to (SellFits, GrossFits, OutstandingFits).
LEMMA ApprovedIsWithin ==
    ASSUME Types, Within(order, position), NEW i \in Intents, Approves(i)
    PROVE  Submitted(i) \in Books /\ Finds(order, i) /\ Within(Submitted(i), position)
<1> DEFINE p == i.order
           y == Submitted(i)
           old == IF i.action = "modify" THEN order[p].filled ELSE 0
           new == [state |-> "working", side |-> i.side, quantity |-> i.quantity,
                   price |-> i.price, filled |-> old]
<1>1. /\ order \in Books /\ p \in Orders /\ i.side \in Sides /\ i.action \in {"place", "modify"}
      /\ i.quantity \in Nat \ {0} /\ i.price \in Nat \ {0} /\ position \in Int /\ mark \in Nat
      /\ order[p] \in OrderType /\ order[p].filled <= order[p].quantity
  <2>1. i \in [action : {"place", "modify"}, order : Orders, side : Sides,
               quantity : Quantities, price : Prices]
    BY DEF Intents
  <2>2. position \in Int /\ mark \in Nat
    BY LimitsAssumption DEF Types, InInt
  <2>3. order \in Books
    BY DEF Types
  <2> QED BY <2>1, <2>2, <2>3, LimitsAssumption DEF Books, Sound
<1>2. /\ i.action = "place" => order[p].state = "none"
      /\ i.action = "modify" => /\ order[p].state = "working" /\ order[p].side = i.side
                                /\ i.quantity > order[p].filled
  BY DEF Approves, TargetFits, Working
<1>3. Finds(order, i)
  BY <1>2 DEF Finds
<1>4. y = [order EXCEPT ![p] = new] /\ new \in OrderType /\ old < i.quantity /\ old \in Nat
  <2>1. CASE i.action = "place"
    BY <1>1, <2>1 DEF Submitted, OrderType
  <2>2. CASE i.action = "modify"
    <3>1. Modifiable(i)
      BY <1>1, <1>2, <2>2 DEF Modifiable, Working, OrderType
    <3>2. y = [order EXCEPT ![p].quantity = i.quantity, ![p].price = i.price]
      BY <2>2, <3>1 DEF Submitted
    <3>3. [order[p] EXCEPT !.quantity = i.quantity, !.price = i.price] = new
      <4>1. [order[p] EXCEPT !.quantity = i.quantity, !.price = i.price]
              = [state |-> order[p].state, side |-> order[p].side, quantity |-> i.quantity,
                 price |-> i.price, filled |-> order[p].filled]
        BY <1>1, Repriced
      <4> QED BY <1>2, <2>2, <4>1
    <3>4. y = [order EXCEPT ![p] = new]
      BY <1>1, <3>2, <3>3 DEF Books
    <3> QED BY <1>1, <1>2, <2>2, <3>4 DEF OrderType
  <2> QED BY <1>1, <2>1, <2>2
<1>5. /\ y \in Books /\ y[p] = new /\ \A o \in Orders \ {p} : y[o] = order[o]
  <2>1. new \in {r \in OrderType : Sound(r)}
    BY <1>1, <1>4 DEF Sound
  <2> HIDE DEF new, y
  <2> QED BY <1>1, <1>4, <2>1 DEF Books
<1>6. Projected(i) = i.quantity - old /\ Projected(i) \in Nat
  BY <1>1, <1>2, <1>4 DEF Projected, OrderType
<1>7. /\ Selling(new) = (IF i.side = "sell" THEN Projected(i) ELSE 0)
      /\ Costing(new) = Projected(i) * i.price
  BY <1>6 DEF Selling, Costing
<1> HIDE DEF y, new, old
<1>8. SellsOf(y) <= position + SaturationSlack
  <2> DEFINE f == [o \in Orders |-> Selling(order[o])]
             g == [o \in Orders |-> Selling(y[o])]
  <2>1. /\ f \in [Orders -> Int] /\ g \in [Orders -> Int] /\ f[p] = Selling(order[p])
        /\ g[p] = Selling(new) /\ Selling(order[p]) \in Nat /\ Selling(new) \in Nat
        /\ \A o \in Orders \ {p} : f[o] = g[o]
    BY <1>1, <1>5, Contributions
  <2>2. SellsOf(order) = Total(f) /\ SellsOf(y) = Total(g)
    BY DEF SellsOf
  <2>3. f[p] <= Total(f) /\ Total(f) \in Int
    <3>1. \A o \in Orders : f[o] >= 0
      BY <1>1, Contributions
    <3> HIDE DEF f
    <3> QED BY <1>1, <2>1, <3>1, TotalCovers
  <2> HIDE DEF f, g
  <2>4. Total(g) = Total(f) + (g[p] - f[p])
    BY <1>1, <2>1, TotalChanges
  <2>5. Total(f) <= position + SaturationSlack
    BY <2>2 DEF Within
  <2>6. CASE i.side = "sell"
    <3> DEFINE sells == WorkingSells(Others(i))
    <3>1. /\ sells \in Int
          /\ \/ sells + Projected(i) <= position
             \/ SaturatedSell(i) /\ MaxGross >= MaxUint
      BY <2>6, SellsWithinReach
    <3>2. sells + Projected(i) <= position + SaturationSlack
      <4>1. MaxGross \in Nat /\ MaxUint \in Nat /\ MaxInt \in Nat
        BY LimitsAssumption
      <4>2. CASE SaturatedSell(i) /\ MaxGross >= MaxUint
        <5>1. SaturationSlack = 1
          BY <4>1, <4>2 DEF SaturationSlack
        <5> QED BY <1>1, <1>6, <3>1, <4>1, <4>2, <5>1 DEF SaturatedSell
      <4> HIDE DEF sells
      <4> QED BY <1>1, <1>6, <3>1, <4>2, SlackIsSmall
    <3>3. sells = Total(f) - f[p]
      <4>1. WorkingSells(Working) = Total(f)
        BY <1>1, <2>2, SnapshotSums
      <4>2. CASE i.action = "place"
        <5>1. Others(i) = Working
          BY <1>2, <4>2 DEF Others, Working
        <5>2. f[p] = 0
          BY <1>2, <2>1, <4>2 DEF Selling
        <5> QED BY <2>3, <4>1, <5>1, <5>2
      <4>3. CASE i.action = "modify"
        <5>1. p \in Working /\ order[p].side = "sell" /\ f[p] = Remaining(p)
          BY <1>1, <1>2, <2>1, <2>6, <4>3 DEF Remaining, Selling, Working
        <5>2. sells = WorkingSells(Working) - Remaining(p)
          BY <1>1, <5>1, OthersSell
        <5> QED BY <4>1, <5>1, <5>2
      <4> QED BY <1>1, <4>2, <4>3
    <3>4. g[p] = Projected(i)
      BY <1>7, <2>1, <2>6
    <3> HIDE DEF sells
    <3> QED BY <1>1, <1>6, <2>1, <2>2, <2>3, <2>4, <3>1, <3>2, <3>3, <3>4, SlackIsSmall
  <2>7. CASE i.side # "sell"
    <3>1. g[p] = 0
      BY <1>7, <2>1, <2>7
    <3> QED BY <1>1, <2>1, <2>2, <2>3, <2>4, <2>5, <3>1, SlackIsSmall
  <2> QED BY <2>6, <2>7
<1>9. PremiumOf(y) <= MaxGross
  <2> DEFINE f == [o \in Orders |-> IF o \in Others(i) THEN Remaining(o) * order[o].price ELSE 0]
             g == [o \in Orders |-> Costing(y[o])]
             gain == Projected(i) * i.price
  <2>1. \A o \in Orders \ {p} : f[o] = g[o]
    BY <1>5 DEF Others, Working, Costing, Remaining
  <2>2. f[p] = 0 /\ g[p] = gain /\ gain \in Nat
    BY <1>1, <1>5, <1>6, <1>7 DEF Others
  <2>3. g \in [Orders -> Int] /\ f \in [Orders -> Int]
    <3>1. g \in [Orders -> Int]
      BY <1>5, Contributions
    <3>2. \A o \in Orders : f[o] \in Int
      BY <2>1, <2>2, <3>1
    <3> QED BY <3>1, <3>2
  <2>4. Premium(Others(i)) = Total(f) /\ PremiumOf(y) = Total(g)
    BY DEF Premium, PremiumOf
  <2> HIDE DEF f, g
  <2>5. Total(g) = Total(f) + (g[p] - f[p]) /\ Total(f) \in Int
    BY <1>1, <2>1, <2>3, TotalChanges, TotalCovers, TotalMonotone
  <2> DEFINE held == Abs(position) * mark
             base == IF InUint(held) THEN held ELSE MaxUint
  <2>6. base + Total(f) + gain <= MaxGross
    BY <2>4 DEF Approves, GrossFits
  <2>7. base \in Nat
    <3>1. Abs(position) \in Nat
      BY <1>1 DEF Abs
    <3>2. held \in Nat
      BY <1>1, <3>1
    <3> QED BY <3>2, LimitsAssumption
  <2> HIDE DEF base, gain
  <2>8. Total(g) = Total(f) + gain
    BY <2>2, <2>5
  <2> QED BY <2>2, <2>4, <2>5, <2>6, <2>7, <2>8, LimitsAssumption
<1>10. Cardinality(WorkingOf(y)) <= MaxOutstanding
  <2>1. WorkingOf(y) = Others(i) \cup {p} /\ p \notin Others(i)
    BY <1>1, <1>5 DEF WorkingOf, Others, Working, new
  <2>2. IsFiniteSet(Others(i)) /\ Cardinality(Others(i)) \in Nat
    <3>1. Others(i) \subseteq Orders
      BY DEF Others, Working
    <3> QED BY <3>1, WorkingIsFinite
  <2>3. Cardinality(WorkingOf(y)) = Cardinality(Others(i)) + 1
    BY <2>1, <2>2, FS_AddElement
  <2>4. Cardinality(Others(i)) < MaxOutstanding
    BY DEF Approves, OutstandingFits
  <2> QED BY <2>2, <2>3, <2>4, LimitsAssumption
<1> QED BY <1>3, <1>5, <1>8, <1>9, <1>10 DEF Within, y

\* What the broker is asked keeps the types of its orders.
LEMMA SubmittedToTyped ==
    ASSUME NEW x \in Books, NEW i \in IntentType
    PROVE  SubmittedTo(x, i) \in Books
<1> DEFINE p == i.order
           r == x[p]
<1>1. /\ p \in Orders /\ i.side \in Sides /\ i.quantity \in Nat /\ i.price \in Nat \ {0}
      /\ i.action \in {"place", "modify", "cancel"} /\ r \in OrderType /\ Sound(r)
  BY DEF IntentType, Books
<1>2. Asked(r, i) \in {s \in OrderType : Sound(s)}
  <2> HIDE DEF r, p
  <2>1. /\ r.state \in {"none", "working", "filled", "cancelled"} /\ r.side \in Sides
        /\ r.quantity \in Nat /\ r.price \in Nat /\ r.filled \in Nat
        /\ r.filled <= r.quantity /\ (r.state = "working" => r.price > 0)
    BY <1>1 DEF OrderType, Sound
  <2>2. CASE i.action = "place"
    BY <1>1, <2>2 DEF Asked, Sound, OrderType
  <2>3. CASE i.action = "modify"
    BY <1>1, <2>1, <2>3 DEF Asked, Sound, OrderType
  <2>4. CASE i.action = "cancel"
    BY <1>1, <2>1, <2>4 DEF Asked, Sound, OrderType
  <2> QED BY <1>1, <2>2, <2>3, <2>4
<1> HIDE DEF r
<1>3. SubmittedTo(x, i) = [o \in Orders |-> IF o = p THEN Asked(r, i) ELSE x[o]]
  BY DEF SubmittedTo, r
<1>4. \A o \in Orders : x[o] \in {s \in OrderType : Sound(s)}
  BY DEF Books
<1> QED BY <1>2, <1>3, <1>4 DEF Books

\* What submitting an intent does, order by order.
LEMMA SubmittedIs ==
    ASSUME order \in Books, NEW i \in IntentType
    PROVE  Submitted(i) = SubmittedTo(order, i) /\ SubmittedTo(order, i) \in Books
<1> DEFINE p == i.order
           r == order[p]
<1>1. /\ p \in Orders /\ i.side \in Sides /\ i.quantity \in Nat /\ i.price \in Nat
      /\ i.action \in {"place", "modify", "cancel"} /\ r \in OrderType /\ r.filled <= r.quantity
  BY DEF IntentType, Books, Sound
<1>3. SubmittedTo(order, i) = [order EXCEPT ![p] = Asked(r, i)]
  BY DEF SubmittedTo, Books
<1>4. Submitted(i) = [order EXCEPT ![p] = Asked(r, i)]
  <2>1. CASE i.action = "place"
    BY <2>1 DEF Submitted, Asked
  <2>2. CASE i.action = "modify"
    <3>1. Modifiable(i) <=> r.state = "working" /\ i.quantity >= r.filled
      BY <1>1 DEF Modifiable, Working
    <3>2. CASE Modifiable(i)
      <4>1. Submitted(i) = [order EXCEPT ![p].quantity = i.quantity, ![p].price = i.price]
        BY <2>2, <3>2 DEF Submitted
      <4>2. Submitted(i) = [order EXCEPT ![p] = [r EXCEPT !.quantity = i.quantity,
                                                         !.price = i.price]]
        BY <1>1, <4>1 DEF Books
      <4>3. Asked(r, i) = [state |-> r.state, side |-> r.side, quantity |-> i.quantity,
                           price |-> i.price, filled |-> r.filled]
        BY <2>2, <3>1, <3>2 DEF Asked
      <4>4. [r EXCEPT !.quantity = i.quantity, !.price = i.price] = Asked(r, i)
        <5> HIDE DEF r
        <5> QED BY <1>1, <4>3, Repriced
      <4> QED BY <4>2, <4>4
    <3>3. CASE ~Modifiable(i)
      <4>1. Submitted(i) = order /\ Asked(r, i) = r
        BY <2>2, <3>1, <3>3 DEF Submitted, Asked
      <4> QED BY <1>1, <4>1 DEF Books
    <3> QED BY <3>2, <3>3
  <2>3. CASE i.action = "cancel"
    <3>1. CASE r.state = "working"
      <4>1. Submitted(i) = [order EXCEPT ![p].state = "cancelled"]
        BY <1>1, <2>3, <3>1 DEF Submitted, Working
      <4>2. Submitted(i) = [order EXCEPT ![p] = [r EXCEPT !.state = "cancelled"]]
        BY <1>1, <4>1 DEF Books
      <4>3. [r EXCEPT !.state = "cancelled"] = Asked(r, i)
        BY <1>1, <2>3, <3>1 DEF Asked, OrderType
      <4> QED BY <4>2, <4>3
    <3>2. CASE r.state # "working"
      <4>1. Submitted(i) = order /\ Asked(r, i) = r
        BY <2>3, <3>2 DEF Submitted, Asked, Working
      <4> QED BY <1>1, <4>1 DEF Books
    <3> QED BY <3>1, <3>2
  <2> QED BY <1>1, <2>1, <2>2, <2>3
<1>5. SubmittedTo(order, i) \in Books
  BY SubmittedToTyped
<1> QED BY <1>3, <1>4, <1>5

Bookings == [0..NumOrders -> [position : (-MaxInt - 1)..MaxInt, fits : BOOLEAN]]

\* The loop of PaperBroker::fill over the orders, step by step (Booked).
StepsOf(a, S, c) ==
    /\ a[0] = [position |-> position, fits |-> TRUE]
    /\ \A k \in 1..NumOrders :
         LET p == a[k - 1].position + Signed(order[k].side, c[k] - order[k].filled)
         IN a[k] = IF k \notin S THEN a[k - 1]
                   ELSE IF InInt(p) THEN [a[k - 1] EXCEPT !.position = p]
                   ELSE [a[k - 1] EXCEPT !.fits = FALSE]
    /\ Booked(S, c) = a[NumOrders]

\* What the loop books is what its steps lead to.
LEMMA BookedSteps ==
    ASSUME InInt(position), NEW S, NEW c
    PROVE  \E a \in Bookings : StepsOf(a, S, c)
<1> DEFINE N == NumOrders
           T == [position : (-MaxInt - 1)..MaxInt, fits : BOOLEAN]
           P(k, r) == r.position + Signed(order[k].side, c[k] - order[k].filled)
           Step(k, r) == IF k \notin S THEN r
                         ELSE IF InInt(P(k, r)) THEN [r EXCEPT !.position = P(k, r)]
                         ELSE [r EXCEPT !.fits = FALSE]
           next == [x \in (1..N) \X T |-> Step(x[1], x[2])]
           s0 == [position |-> position, fits |-> TRUE]
           Solves(g) == g = [k \in 0..N |-> IF k = 0 THEN s0 ELSE Step(k, g[k - 1])]
           after == CHOOSE g : Solves(g)
<1>1. N \in Nat
  BY LimitsAssumption
<1>2. s0 \in T
  BY DEF InInt
<1>3. \A k \in 1..N, r \in T : next[<<k, r>>] = Step(k, r) /\ Step(k, r) \in T
  <2> TAKE k \in 1..N, r \in T
  <2>1. Step(k, r) \in T
    <3>1. CASE k \in S /\ InInt(P(k, r))
      <4> DEFINE q == P(k, r)
      <4>1. q \in (-MaxInt - 1)..MaxInt
        BY <3>1 DEF InInt
      <4> HIDE DEF q
      <4>2. [r EXCEPT !.position = q] \in T
        BY <4>1
      <4> QED BY <3>1, <4>2 DEF q
    <3>2. CASE k \in S /\ ~InInt(P(k, r))
      <4>1. [r EXCEPT !.fits = FALSE] \in T
        OBVIOUS
      <4> HIDE DEF P
      <4> QED BY <3>2, <4>1
    <3>3. CASE k \notin S
      BY <3>3
    <3> QED BY <3>1, <3>2, <3>3
  <2> HIDE DEF Step, T
  <2> QED BY <2>1
<1> HIDE DEF T, s0, Step, next
<1>4. PICK h \in [0..N -> T] : IsRecursion(h, N, s0, next)
  <2> HIDE DEF N
  <2>1. \A k \in 1..N, r \in T : next[<<k, r>>] \in T
    BY <1>3
  <2> QED BY <1>1, <1>2, <2>1, BoundedRecursion
<1>5. h[0] = s0 /\ \A k \in 1..N : h[k] = Step(k, h[k - 1])
  <2>1. ASSUME NEW k \in 1..N PROVE h[k] = Step(k, h[k - 1])
    <3>1. k - 1 \in 0..N
      BY <1>1
    <3>2. h[k - 1] \in T
      BY <3>1
    <3> QED BY <1>3, <1>4, <3>2 DEF IsRecursion
  <2> QED BY <1>4, <2>1 DEF IsRecursion
<1>6. Solves(h)
  <2>1. \A k \in 0..N : h[k] = IF k = 0 THEN s0 ELSE Step(k, h[k - 1])
    BY <1>1, <1>5
  <2> QED BY <2>1
<1>7. Solves(after)
  <2> HIDE DEF Solves
  <2> QED BY <1>6
<1>8. Booked(S, c) = after[N]
  BY DEF Booked, Step, s0
<1> HIDE DEF after
<1>9. after[0] = s0 /\ \A k \in 1..N : after[k] = Step(k, after[k - 1])
  BY <1>1, <1>7
<1> DEFINE E == {k \in Nat : k <= N => after[k] = h[k]}
<1>10. E = Nat
  <2>1. 0 \in E
    BY <1>5, <1>9
  <2>2. ASSUME NEW k \in E PROVE k + 1 \in E
    <3> SUFFICES ASSUME k + 1 <= N PROVE after[k + 1] = h[k + 1]
      OBVIOUS
    <3>1. k + 1 \in 1..N /\ (k + 1) - 1 = k /\ after[k] = h[k]
      BY <1>1, <2>2
    <3> QED BY <1>5, <1>9, <3>1
  <2> QED BY <2>1, <2>2, NatSetInduction
<1>11. after[N] = h[N]
  BY <1>1, <1>10
<1> QED BY <1>5, <1>8, <1>11 DEF T, s0, Step, StepsOf, Bookings

\* A fill takes from the position no more than the sold orders had left, and an
\* overflow leaves it as it was (PaperBroker::fill).
LEMMA FillPosition ==
    ASSUME order \in Books, InInt(position), NEW S \in SUBSET Orders, NEW c,
           \A o \in S : c[o] \in order[o].filled..order[o].quantity,
           NEW d \in [Orders -> Int],
           \A o \in Orders : d[o] = IF o \in S /\ order[o].side = "sell"
                                    THEN c[o] - order[o].filled ELSE 0
    PROVE  /\ InInt(Booked(S, c).position) /\ Booked(S, c).fits \in BOOLEAN
           /\ Booked(S, c).position >= position - Total(d)
<1> DEFINE N == NumOrders
           I == (-MaxInt - 1)..MaxInt
<1>1. N \in Nat /\ Orders = 1..N /\ MaxInt \in Nat
  BY LimitsAssumption DEF Orders
<1>2. PICK t \in [0..N -> Int] :
        /\ t[0] = 0 /\ \A k \in 1..N : t[k] = t[k - 1] + d[k]
        /\ Total(d) = t[N]
  BY TotalSteps
<1>3. PICK a \in Bookings : StepsOf(a, S, c)
  <2>1. InInt(position)
    OBVIOUS
  <2> QED BY <2>1, BookedSteps
<1>4. position \in Int /\ \A k \in 0..N : a[k].position \in Int /\ a[k] \in [position : I, fits : BOOLEAN]
  BY <1>1 DEF InInt, Bookings
<1>5. ASSUME NEW k \in 1..N PROVE a[k].position >= a[k - 1].position - d[k]
  <2> DEFINE r == a[k - 1]
             n == c[k] - order[k].filled
             p == r.position + Signed(order[k].side, n)
  <2>1. k \in Orders /\ k - 1 \in 0..N
    BY <1>1
  <2>2. r \in [position : I, fits : BOOLEAN] /\ r.position \in Int
    BY <1>4, <2>1
  <2>3. a[k] = IF k \notin S THEN r ELSE IF InInt(p) THEN [r EXCEPT !.position = p]
               ELSE [r EXCEPT !.fits = FALSE]
    BY <1>3 DEF StepsOf
  <2>4. k \in S => n \in Nat
    <3>1. k \in S => /\ order[k].filled \in Nat /\ order[k].quantity \in Nat
                     /\ c[k] \in order[k].filled..order[k].quantity
      BY <2>1 DEF Books, Sound, OrderType
    <3> QED BY <3>1
  <2>5. d[k] = IF k \in S /\ order[k].side = "sell" THEN n ELSE 0
    BY <2>1
  <2>6. k \in S => p = IF order[k].side = "sell" THEN r.position - n ELSE r.position + n
    <3>1. order[k].side \in {"buy", "sell"}
      BY <2>1 DEF Books, Sound, OrderType, Sides
    <3> HIDE DEF r, n
    <3> QED BY <2>2, <2>4, <3>1 DEF Signed
  <2> HIDE DEF n, p, r
  <2>7. a[k].position = IF k \in S /\ InInt(p) THEN p ELSE r.position
    BY <2>2, <2>3
  <2>8. a[k].position >= r.position - d[k]
    BY <2>2, <2>4, <2>5, <2>6, <2>7
  <2> QED BY <2>8 DEF r
<1> DEFINE E == {k \in Nat : k <= N => a[k].position >= position - t[k]}
<1>6. E = Nat
  <2>1. 0 \in E
    BY <1>2, <1>3, <1>4 DEF StepsOf
  <2>2. ASSUME NEW k \in E PROVE k + 1 \in E
    <3> SUFFICES ASSUME k + 1 <= N PROVE a[k + 1].position >= position - t[k + 1]
      OBVIOUS
    <3>1. /\ k + 1 \in 1..N /\ (k + 1) - 1 = k /\ k \in 0..N /\ k + 1 \in 0..N
          /\ k + 1 \in Orders /\ a[k].position >= position - t[k]
      BY <1>1, <2>2
    <3>2. a[k + 1].position >= a[k].position - d[k + 1] /\ t[k + 1] = t[k] + d[k + 1]
      BY <1>2, <1>5, <3>1
    <3>3. /\ t[k] \in Int /\ t[k + 1] \in Int /\ d[k + 1] \in Int
          /\ a[k].position \in Int /\ a[k + 1].position \in Int
      BY <1>4, <3>1
    <3> QED BY <1>4, <3>1, <3>2, <3>3
  <2> QED BY <2>1, <2>2, NatSetInduction
<1>7. N \in E /\ N \in 0..N
  BY <1>1, <1>6
<1>8. a[N].position >= position - t[N] /\ a[N].position \in I /\ a[N].fits \in BOOLEAN
  BY <1>7 DEF Bookings
<1> QED BY <1>2, <1>3, <1>8 DEF InInt, StepsOf

\* Orders z that fills take from orders x, and d what the sells among them gave.
Refills(x, z, d) ==
    \A o \in Orders :
        \/ z[o] = x[o] /\ d[o] = 0
        \/ /\ x[o].state = "working"
           /\ \E c \in x[o].filled..x[o].quantity :
                /\ z[o] = [state |-> IF c = x[o].quantity THEN "filled" ELSE "working",
                           side |-> x[o].side, quantity |-> x[o].quantity,
                           price |-> x[o].price, filled |-> c]
                /\ d[o] = IF x[o].side = "sell" THEN c - x[o].filled ELSE 0

\* What one order costs and may sell only shrinks with its fills.
LEMMA RefilledOrder ==
    ASSUME NEW quantity \in Nat, NEW filled \in Nat, NEW price \in Nat,
           NEW c \in filled..quantity
    PROVE  /\ quantity - c >= 0 /\ quantity - filled >= 0 /\ c \in Nat
           /\ (quantity - c) * price <= (quantity - filled) * price
           /\ (quantity - c) * price >= 0 /\ (quantity - filled) * price >= 0
<1> DEFINE a == quantity - c
           b == quantity - filled
<1>1. a \in Nat /\ b \in Nat /\ a <= b /\ c \in Nat
  OBVIOUS
<1> HIDE DEF a, b
<1>2. \E k \in Nat : b = a + k
  BY <1>1
<1>3. PICK k \in Nat : b = a + k
  BY <1>2
<1>4. b * price = a * price + k * price /\ a * price \in Nat /\ k * price \in Nat
  BY <1>1, <1>3
<1>5. a * price <= b * price /\ a * price >= 0 /\ b * price >= 0
  BY <1>4
<1> QED BY <1>1, <1>5 DEF a, b

\* A fill between the approval and the submission keeps the limits, for the
\* orders as they are and as they will be.
LEMMA FillWithin ==
    ASSUME NEW x \in Books, NEW z \in Books, NEW d \in [Orders -> Int], Refills(x, z, d),
           NEW held \in Int, NEW left \in Int, left >= held - Total(d), Within(x, held)
    PROVE  /\ Within(z, left)
           /\ \A i \in IntentType :
                Finds(x, i) /\ Within(SubmittedTo(x, i), held) /\ SubmittedTo(x, i) \in Books
                  /\ SubmittedTo(z, i) \in Books
                => Finds(z, i) /\ Within(SubmittedTo(z, i), left)
<1>1. ASSUME NEW o \in Orders
      PROVE  /\ Selling(z[o]) + d[o] <= Selling(x[o]) /\ Costing(z[o]) <= Costing(x[o])
             /\ z[o].state = "working" => x[o].state = "working"
             /\ z[o].state = "none" <=> x[o].state = "none"
             /\ z[o].side = x[o].side
             /\ x[o].state # "working" => z[o] = x[o] /\ d[o] = 0
             /\ d[o] = IF x[o].side = "sell" THEN z[o].filled - x[o].filled ELSE 0
             /\ x[o].filled <= z[o].filled /\ z[o].filled <= x[o].quantity
             /\ z[o].filled \in Nat /\ x[o].filled \in Nat
             /\ Selling(z[o]) \in Nat /\ Costing(z[o]) \in Nat
  <2>1. /\ x[o].quantity \in Nat /\ x[o].filled \in Nat /\ x[o].price \in Nat
        /\ x[o].filled <= x[o].quantity /\ x[o].side \in Sides
        /\ Selling(x[o]) \in Nat /\ Costing(x[o]) \in Nat
        /\ Selling(z[o]) \in Nat /\ Costing(z[o]) \in Nat
    BY Contributions DEF Books, Sound, OrderType
  <2>2. CASE z[o] = x[o] /\ d[o] = 0
    BY <2>1, <2>2
  <2>3. CASE ~(z[o] = x[o] /\ d[o] = 0)
    <3>1. /\ x[o].state = "working"
          /\ \E c \in x[o].filled..x[o].quantity :
                /\ z[o] = [state |-> IF c = x[o].quantity THEN "filled" ELSE "working",
                           side |-> x[o].side, quantity |-> x[o].quantity,
                           price |-> x[o].price, filled |-> c]
                /\ d[o] = IF x[o].side = "sell" THEN c - x[o].filled ELSE 0
      BY <2>3 DEF Refills
    <3>2. PICK c \in x[o].filled..x[o].quantity :
                /\ z[o] = [state |-> IF c = x[o].quantity THEN "filled" ELSE "working",
                           side |-> x[o].side, quantity |-> x[o].quantity,
                           price |-> x[o].price, filled |-> c]
                /\ d[o] = IF x[o].side = "sell" THEN c - x[o].filled ELSE 0
      BY <3>1
    <3>3. /\ z[o].state = (IF c = x[o].quantity THEN "filled" ELSE "working")
          /\ z[o].side = x[o].side /\ z[o].quantity = x[o].quantity
          /\ z[o].price = x[o].price /\ z[o].filled = c
      BY <3>2
    <3> DEFINE q == x[o].quantity
               f == x[o].filled
               p == x[o].price
    <3>4. /\ q - c >= 0 /\ q - f >= 0 /\ c \in Nat
          /\ (q - c) * p <= (q - f) * p /\ (q - c) * p >= 0 /\ (q - f) * p >= 0
      BY <2>1, RefilledOrder
    <3>5. Costing(x[o]) = (q - f) * p /\ Selling(x[o]) = IF x[o].side = "sell" THEN q - f ELSE 0
      BY <3>1 DEF Costing, Selling
    <3>6. /\ Costing(z[o]) = IF c = q THEN 0 ELSE (q - c) * p
          /\ Selling(z[o]) = IF c = q THEN 0 ELSE IF x[o].side = "sell" THEN q - c ELSE 0
      BY <3>3 DEF Costing, Selling
    <3>7. /\ q \in Nat /\ f \in Nat /\ c \in f..q
      BY <2>1
    <3> DEFINE cost == (q - c) * p
               costs == (q - f) * p
    <3>8. Costing(z[o]) <= Costing(x[o])
      <4>1. Costing(x[o]) \in Nat /\ Costing(z[o]) \in Nat
        BY <2>1
      <4>2. cost <= costs /\ Costing(x[o]) = costs /\ 0 <= costs
            /\ Costing(z[o]) = IF c = q THEN 0 ELSE cost
        BY <3>4, <3>5, <3>6
      <4> HIDE DEF cost, costs
      <4> QED BY <4>1, <4>2
    <3>9. Selling(z[o]) + d[o] <= Selling(x[o])
      <4> HIDE DEF q, f, p
      <4>1. d[o] = IF x[o].side = "sell" THEN c - f ELSE 0
        BY <3>2 DEF f
      <4> QED BY <3>4, <3>5, <3>6, <3>7, <4>1
    <3> HIDE DEF cost, costs
    <3> QED BY <2>1, <3>1, <3>2, <3>3, <3>4, <3>7, <3>8, <3>9
  <2> QED BY <2>2, <2>3
<1>2. Within(z, left)
  BY <1>1, WithinReduced
<1>3. ASSUME NEW i \in IntentType, Finds(x, i), Within(SubmittedTo(x, i), held),
             SubmittedTo(x, i) \in Books, SubmittedTo(z, i) \in Books
      PROVE  Finds(z, i) /\ Within(SubmittedTo(z, i), left)
  <2> DEFINE p == i.order
             X == SubmittedTo(x, i)
             Z == SubmittedTo(z, i)
  <2>1. /\ p \in Orders /\ i.quantity \in Nat /\ i.price \in Nat /\ i.side \in Sides
        /\ i.action \in {"place", "modify", "cancel"}
    BY DEF IntentType
  <2>2. Finds(z, i)
    BY <1>1, <1>3, <2>1 DEF Finds
  <2>3. /\ \A o \in Orders \ {p} : X[o] = x[o] /\ Z[o] = z[o]
        /\ X[p] = Asked(x[p], i) /\ Z[p] = Asked(z[p], i)
    BY <2>1 DEF SubmittedTo
  <2>4. /\ \A o \in Orders : Selling(X[o]) \in Nat /\ Costing(X[o]) \in Nat
        /\ \A o \in Orders : Selling(x[o]) \in Nat /\ Costing(x[o]) \in Nat
    BY <1>3, Contributions
  <2>5. CASE i.action = "place"
    <3>1. Z[p] = X[p] /\ d[p] = 0
      BY <1>1, <1>3, <2>1, <2>3, <2>5 DEF Finds, Asked
    <3>2. \A o \in Orders : /\ Selling(Z[o]) + d[o] <= Selling(X[o])
                            /\ Costing(Z[o]) <= Costing(X[o])
                            /\ Z[o].state = "working" => X[o].state = "working"
      <4> HIDE DEF X, Z
      <4> TAKE o \in Orders
      <4>1. CASE o = p
        BY <2>4, <3>1, <4>1
      <4>2. CASE o # p
        BY <1>1, <2>3, <4>2
      <4> QED BY <4>1, <4>2
    <3> HIDE DEF X, Z
    <3>3. Within(Z, left)
      BY <1>3, <3>2, WithinReduced DEF X, Z
    <3> QED BY <2>2, <3>3 DEF Z
  <2>6. CASE i.action = "modify" /\ z[p].state = "working" /\ i.quantity >= z[p].filled
    <3>1. x[p].state = "working" /\ i.quantity >= x[p].filled
      BY <1>1, <2>1, <2>6
    <3>2. /\ X[p] = [state |-> x[p].state, side |-> x[p].side, quantity |-> i.quantity,
                     price |-> i.price, filled |-> x[p].filled]
          /\ Z[p] = [state |-> z[p].state, side |-> z[p].side, quantity |-> i.quantity,
                     price |-> i.price, filled |-> z[p].filled]
      BY <2>3, <2>6, <3>1 DEF Asked
    <3> DEFINE q == i.quantity
               f == x[p].filled
               c == z[p].filled
               w == i.price
    <3>3. /\ q \in Nat /\ f \in Nat /\ c \in Nat /\ c \in f..q /\ w \in Nat
          /\ d[p] = (IF x[p].side = "sell" THEN c - f ELSE 0) /\ z[p].side = x[p].side
      BY <1>1, <2>1, <2>6
    <3>4. /\ Costing(X[p]) = (q - f) * w /\ Costing(Z[p]) = (q - c) * w
          /\ Selling(X[p]) = (IF x[p].side = "sell" THEN q - f ELSE 0)
          /\ Selling(Z[p]) = (IF x[p].side = "sell" THEN q - c ELSE 0)
          /\ X[p].state = "working"
      <4> HIDE DEF X, Z
      <4> QED BY <2>6, <3>1, <3>2, <3>3 DEF Costing, Selling
    <3>5. (q - c) * w <= (q - f) * w
      BY <3>3, RefilledOrder
    <3>6. \A o \in Orders : /\ Selling(Z[o]) + d[o] <= Selling(X[o])
                            /\ Costing(Z[o]) <= Costing(X[o])
                            /\ Z[o].state = "working" => X[o].state = "working"
      <4> HIDE DEF X, Z, q, f, c, w
      <4> TAKE o \in Orders
      <4>1. CASE o = p
        <5>1. Selling(Z[p]) + d[p] <= Selling(X[p])
          BY <3>3, <3>4
        <5>2. Costing(Z[p]) <= Costing(X[p])
          BY <3>4, <3>5
        <5> QED BY <3>4, <4>1, <5>1, <5>2
      <4>2. CASE o # p
        BY <1>1, <2>3, <4>2
      <4> QED BY <4>1, <4>2
    <3> HIDE DEF X, Z
    <3>7. Within(Z, left)
      BY <1>3, <3>6, WithinReduced DEF X, Z
    <3> QED BY <2>2, <3>7 DEF Z
  <2>7. CASE ~(i.action = "place") /\ ~(i.action = "modify" /\ z[p].state = "working" /\ i.quantity >= z[p].filled)
    <3>1. Z[p] = z[p] \/ (Selling(Z[p]) = 0 /\ Costing(Z[p]) = 0 /\ Z[p].state # "working"
                          /\ z[p].state = "working")
      <4>1. CASE i.action = "cancel" /\ z[p].state = "working"
        BY <2>3, <4>1 DEF Asked, Selling, Costing
      <4>2. CASE ~(i.action = "cancel" /\ z[p].state = "working")
        BY <2>1, <2>3, <2>7, <4>2 DEF Asked
      <4> QED BY <4>1, <4>2
    <3>2. \A o \in Orders : /\ Selling(Z[o]) + d[o] <= Selling(x[o])
                            /\ Costing(Z[o]) <= Costing(x[o])
                            /\ Z[o].state = "working" => x[o].state = "working"
      <4> HIDE DEF Z
      <4> TAKE o \in Orders
      <4>1. CASE o = p /\ Z[p] # z[p]
        <5>1. /\ Selling(z[p]) + d[p] <= Selling(x[p]) /\ Costing(z[p]) <= Costing(x[p])
              /\ Selling(z[p]) \in Nat /\ Costing(z[p]) \in Nat
              /\ Selling(x[p]) \in Nat /\ Costing(x[p]) \in Nat /\ d[p] \in Int
          BY <1>1, <2>1, <2>4
        <5> QED BY <3>1, <4>1, <5>1
      <4>2. CASE o # p \/ Z[p] = z[p]
        BY <1>1, <2>3, <4>2
      <4> QED BY <4>1, <4>2
    <3> HIDE DEF Z
    <3>3. Within(Z, left)
      BY <1>3, <3>2, WithinReduced DEF Z
    <3> QED BY <2>2, <3>3 DEF Z
  <2> QED BY <2>5, <2>6, <2>7
<1> QED BY <1>2, <1>3

\* What Types says is what TypeOK says.
LEMMA TypesSuffice == Types => TypeOK
<1> SUFFICES ASSUME Types PROVE TypeOK
  OBVIOUS
<1>1. ASSUME NEW o \in Orders
      PROVE  /\ order[o].state \in {"none", "working", "filled", "cancelled"}
             /\ order[o].side \in Sides /\ order[o].filled \in 0..order[o].quantity
  BY DEF Types, Books, Sound, OrderType
<1>2. Cardinality(prepared) <= 1
  <2>1. CASE prepared = {}
    BY <2>1, FS_EmptySet
  <2>2. CASE prepared # {}
    <3>1. PICK i \in prepared : TRUE
      BY <2>2
    <3>2. prepared = {i}
      BY <3>1 DEF Types
    <3>3. Cardinality({i}) = 1
      BY FS_Singleton
    <3> QED BY <3>2, <3>3
  <2> QED BY <2>1, <2>2
<1> QED BY <1>1, <1>2 DEF Types, TypeOK

\* The snapshot's fills (PaperBroker::fill) keep the books and the exposure.
LEMMA FillKeeps ==
    ASSUME Types, Exposure, NEW S, S \subseteq Working, NEW c,
           \A o \in S : c[o] \in order[o].filled..order[o].quantity,
           Fill(S, c), prepared' = prepared
    PROVE  /\ order' \in Books /\ InInt(position') /\ health' \in {"ready", "lost"}
           /\ tracked' \in BOOLEAN /\ Exposure'
<1> DEFINE result == Booked(S, c)
           D == [o \in Orders |-> IF o \in S /\ order[o].side = "sell"
                                  THEN c[o] - order[o].filled ELSE 0]
           Z == [o \in Orders |->
                  IF o \notin S THEN order[o]
                  ELSE [order[o] EXCEPT !.filled = c[o],
                          !.state = IF c[o] = order[o].quantity THEN "filled" ELSE "working"]]
<1>1. /\ position' = result.position
      /\ health' = IF result.fits THEN health ELSE "lost"
      /\ tracked' = (tracked \/ S # {})
      /\ order' = Z
  BY DEF Fill
<1>2. /\ order \in Books /\ InInt(position) /\ position \in Int /\ S \in SUBSET Orders
      /\ prepared \subseteq IntentType /\ health \in {"ready", "lost"}
  <2>1. MaxInt \in Nat
    BY LimitsAssumption
  <2> QED BY <2>1 DEF Types, Working, InInt
<1>3. ASSUME NEW o \in S
      PROVE  /\ o \in Orders /\ order[o] \in OrderType /\ order[o].state = "working"
             /\ c[o] \in Nat /\ c[o] <= order[o].quantity /\ c[o] - order[o].filled \in Nat
             /\ Z[o] = [state |-> IF c[o] = order[o].quantity THEN "filled" ELSE "working",
                        side |-> order[o].side, quantity |-> order[o].quantity,
                        price |-> order[o].price, filled |-> c[o]]
  <2>1. o \in Orders /\ order[o].state = "working" /\ order[o] \in OrderType
    BY <1>2 DEF Working, Books
  <2>2. /\ order[o].filled \in Nat /\ order[o].quantity \in Nat
        /\ c[o] \in order[o].filled..order[o].quantity
    BY <2>1 DEF OrderType
  <2>3. Z[o] = [order[o] EXCEPT !.filled = c[o],
                  !.state = IF c[o] = order[o].quantity THEN "filled" ELSE "working"]
    BY <2>1
  <2> DEFINE r == order[o]
             st == IF c[o] = order[o].quantity THEN "filled" ELSE "working"
             n == c[o]
  <2>4. [r EXCEPT !.filled = n, !.state = st]
          = [state |-> st, side |-> r.side, quantity |-> r.quantity, price |-> r.price,
             filled |-> n]
    <3>1. r \in OrderType
      BY <2>1
    <3> HIDE DEF r, st, n
    <3> QED BY <3>1, Refilled
  <2>5. Z[o] = [state |-> st, side |-> r.side, quantity |-> r.quantity, price |-> r.price,
                filled |-> n]
    <3> HIDE DEF Z
    <3> QED BY <2>3, <2>4
  <2>6. c[o] \in Nat /\ c[o] <= order[o].quantity /\ c[o] - order[o].filled \in Nat
    BY <2>2
  <2> HIDE DEF Z
  <2> QED BY <2>1, <2>5, <2>6
<1>4. \A o \in Orders \ S : Z[o] = order[o]
  OBVIOUS
<1>5. Z \in Books
  <2>1. ASSUME NEW o \in Orders PROVE Z[o] \in {r \in OrderType : Sound(r)}
    <3>1. CASE o \notin S
      BY <1>2, <1>4, <3>1 DEF Books
    <3>2. CASE o \in S
      <4>1. Z[o] = [state |-> IF c[o] = order[o].quantity THEN "filled" ELSE "working",
                        side |-> order[o].side, quantity |-> order[o].quantity,
                        price |-> order[o].price, filled |-> c[o]]
        BY <1>3, <3>2
      <4>2. /\ order[o] \in OrderType /\ c[o] \in Nat /\ c[o] <= order[o].quantity
            /\ order[o].price > 0
        BY <1>2, <1>3, <3>2 DEF Books, Sound, Working
      <4> HIDE DEF Z
      <4> QED BY <4>1, <4>2 DEF OrderType, Sound
    <3> QED BY <3>1, <3>2
  <2> QED BY <2>1 DEF Books
<1>6. D \in [Orders -> Int]
  <2>1. ASSUME NEW o \in Orders PROVE D[o] \in Int
    <3>1. CASE o \in S
      <4>1. c[o] - order[o].filled \in Int
        <5>1. c[o] - order[o].filled \in Nat
          <6> HIDE DEF Z, D
          <6> QED BY <1>3, <3>1
        <5> DEFINE n == c[o] - order[o].filled
        <5> HIDE DEF Z, D, n
        <5> QED BY <5>1 DEF n
      <4> QED BY <4>1
    <3>2. CASE o \notin S
      BY <3>2
    <3> QED BY <3>1, <3>2
  <2> QED BY <2>1
<1>7. Refills(order, Z, D)
  <2> SUFFICES ASSUME NEW o \in Orders
      PROVE \/ Z[o] = order[o] /\ D[o] = 0
            \/ /\ order[o].state = "working"
               /\ \E n \in order[o].filled..order[o].quantity :
                    /\ Z[o] = [state |-> IF n = order[o].quantity THEN "filled" ELSE "working",
                               side |-> order[o].side, quantity |-> order[o].quantity,
                               price |-> order[o].price, filled |-> n]
                    /\ D[o] = IF order[o].side = "sell" THEN n - order[o].filled ELSE 0
    BY DEF Refills
  <2>1. CASE o \notin S
    BY <1>4, <2>1
  <2>2. CASE o \in S
    <3>1. D[o] = IF order[o].side = "sell" THEN c[o] - order[o].filled ELSE 0
      BY <2>2
    <3> HIDE DEF Z, D
    <3> QED BY <1>3, <2>2, <3>1
  <2> QED BY <2>1, <2>2
<1>8. InInt(result.position) /\ result.fits \in BOOLEAN /\ result.position >= position - Total(D)
  <2>1. \A o \in Orders : D[o] = IF o \in S /\ order[o].side = "sell"
                                    THEN c[o] - order[o].filled ELSE 0
    OBVIOUS
  <2>2. \A o \in S : c[o] \in order[o].filled..order[o].quantity
    OBVIOUS
  <2> HIDE DEF D
  <2> QED BY <1>2, <1>6, <2>1, <2>2, FillPosition
<1>9. result.position \in Int
  BY <1>8, LimitsAssumption DEF InInt
<1> HIDE DEF Z, D, result
<1>10. tracked' \in BOOLEAN
  BY <1>1, Zenon
<1>11. health' \in {"ready", "lost"}
  BY <1>1, <1>2
<1>12. /\ Within(Z, result.position)
       /\ \A i \in IntentType :
            Finds(order, i) /\ Within(SubmittedTo(order, i), position)
              /\ SubmittedTo(order, i) \in Books /\ SubmittedTo(Z, i) \in Books
            => Finds(Z, i) /\ Within(SubmittedTo(Z, i), result.position)
  BY <1>2, <1>5, <1>6, <1>7, <1>8, <1>9, FillWithin DEF Exposure
<1>13. ASSUME NEW i \in prepared
       PROVE  Finds(Z, i) /\ Within(SubmittedTo(Z, i), result.position)
  <2>1. i \in IntentType /\ Finds(order, i) /\ Within(SubmittedTo(order, i), position)
    BY <1>2 DEF Exposure
  <2>2. SubmittedTo(order, i) \in Books
    BY <1>2, <2>1, SubmittedIs
  <2>3. SubmittedTo(Z, i) \in Books
    BY <1>5, <2>1, SubmittedToTyped
  <2> QED BY <1>12, <2>1, <2>2, <2>3
<1>14. Exposure'
  <2>1. Within(order, position)'
    BY <1>1, <1>12 DEF Within
  <2>2. \A i \in prepared : Finds(Z, i) /\ Within(SubmittedTo(Z, i), result.position)
    BY <1>13
  <2>3. \A i \in prepared' : (Finds(order, i) /\ Within(SubmittedTo(order, i), position))'
    BY <1>1, <2>2 DEF Finds, SubmittedTo, Within
  <2> QED BY <2>1, <2>3 DEF Exposure
<1> QED BY <1>1, <1>5, <1>8, <1>10, <1>11, <1>14

-----------------------------------------------------------------------------
(* The rate window.                                                        *)

\* The attempts that a window ending at t has.
InWindow(times, t) == {k \in DOMAIN times : times[k] > t - Window /\ times[k] <= t}

\* The attempts up to now were made at times up to now.
LEMMA TimesSoFar ==
    ASSUME NEW n \in Nat, NEW times \in Seq(0..n)
    PROVE  /\ Len(times) \in Nat /\ DOMAIN times = 1..Len(times)
           /\ \A k \in DOMAIN times : times[k] \in Nat /\ times[k] <= n
           /\ \A m \in Nat : m >= n => times \in Seq(0..m)
<1>1. \A k \in 1..Len(times) : times[k] \in 0..n
  OBVIOUS
<1>2. ASSUME NEW m \in Nat, m >= n PROVE times \in Seq(0..m)
  <2>1. \A k \in 1..Len(times) : times[k] \in 0..m
    BY <1>1, <1>2
  <2>2. Len(times) \in Nat /\ times = [k \in 1..Len(times) |-> times[k]]
    OBVIOUS
  <2>3. times \in [1..Len(times) -> 0..m]
    BY <2>1, <2>2
  <2> QED BY <2>2, <2>3
<1> QED BY <1>1, <1>2

\* Every window has a number of attempts.
LEMMA WindowIsFinite ==
    ASSUME NEW n \in Nat, NEW times \in Seq(0..n), NEW S, S \subseteq DOMAIN times
    PROVE  IsFiniteSet(S) /\ Cardinality(S) \in Nat
<1>1. Len(times) \in Nat /\ DOMAIN times = 1..Len(times)
  BY TimesSoFar
<1>2. IsFiniteSet(1..Len(times))
  BY <1>1, FS_Interval
<1> QED BY <1>1, <1>2, FS_Subset, FS_CardinalityType

\* A clock that only advances opens no fuller window.
LEMMA RateAfterTick ==
    ASSUME NEW n \in Nat, NEW times \in Seq(0..n), NEW limit \in Nat,
           \A u \in 0..n : Cardinality(InWindow(times, u)) <= limit
    PROVE  \A u \in 0..(n + 1) : Cardinality(InWindow(times, u)) <= limit
<1> SUFFICES ASSUME NEW u \in 0..(n + 1), u = n + 1
             PROVE  Cardinality(InWindow(times, u)) <= limit
  OBVIOUS
<1>1. Window \in Nat
  BY LimitsAssumption
<1>2. \A k \in DOMAIN times : times[k] \in Nat /\ times[k] <= n
  BY TimesSoFar
<1>3. InWindow(times, u) \subseteq InWindow(times, n)
  BY <1>1, <1>2 DEF InWindow
<1>4. InWindow(times, n) \subseteq DOMAIN times /\ InWindow(times, u) \subseteq DOMAIN times
  BY DEF InWindow
<1>5. /\ IsFiniteSet(InWindow(times, n)) /\ Cardinality(InWindow(times, n)) \in Nat
      /\ Cardinality(InWindow(times, u)) \in Nat
  BY <1>4, WindowIsFinite
<1>6. Cardinality(InWindow(times, u)) <= Cardinality(InWindow(times, n))
  BY <1>3, <1>5, FS_Subset
<1>7. Cardinality(InWindow(times, n)) <= limit
  <2>1. n \in 0..n
    OBVIOUS
  <2> QED BY <2>1
<1> QED BY <1>5, <1>6, <1>7

\* An attempt that found room among the remembered ones leaves no window
\* fuller than the limit, at a time the clock has reached since (RateFits).
LEMMA RateAfterAttempt ==
    ASSUME NEW n \in Nat, NEW times \in Seq(0..n), NEW limit \in Nat,
           \A u \in 0..n : Cardinality(InWindow(times, u)) <= limit,
           NEW kept, kept \subseteq DOMAIN times,
           {k \in DOMAIN times : times[k] > n - Window} \subseteq kept,
           Cardinality({k \in kept : times[k] > n - Window /\ times[k] <= n}) < limit,
           NEW t \in {n, n + 1}
    PROVE  \A u \in 0..t : Cardinality(InWindow(Append(times, t), u)) <= limit
<1> DEFINE more == Append(times, t)
           last == Len(times) + 1
           seen == {k \in kept : times[k] > n - Window /\ times[k] <= n}
<1>1. Window \in Nat /\ Window > 0 /\ t \in Nat /\ n <= t
  BY LimitsAssumption
<1>2. /\ Len(times) \in Nat /\ DOMAIN times = 1..Len(times)
      /\ \A k \in DOMAIN times : times[k] \in Nat /\ times[k] <= n
  BY TimesSoFar
<1>3. /\ DOMAIN more = 1..last /\ last \notin DOMAIN times /\ more[last] = t
      /\ \A k \in DOMAIN times : more[k] = times[k]
      /\ DOMAIN more = DOMAIN times \cup {last}
  BY <1>1, <1>2
<1> HIDE DEF more, last
<1>4. seen \subseteq DOMAIN times
  OBVIOUS
<1>5. IsFiniteSet(seen) /\ Cardinality(seen) \in Nat
  <2> HIDE DEF seen
  <2> QED BY <1>4, WindowIsFinite
<1> SUFFICES ASSUME NEW u \in 0..t PROVE Cardinality(InWindow(more, u)) <= limit
  BY DEF more
<1>6. CASE u < t
  <2>1. InWindow(more, u) = InWindow(times, u)
    <3>1. ASSUME NEW k PROVE k \in InWindow(more, u) <=> k \in InWindow(times, u)
      <4>1. CASE k \in DOMAIN times
        BY <1>3, <4>1 DEF InWindow
      <4>2. CASE k = last
        BY <1>1, <1>3, <1>6, <4>2 DEF InWindow
      <4>3. CASE k \notin DOMAIN times \cup {last}
        BY <1>3, <4>3 DEF InWindow
      <4> QED BY <4>1, <4>2, <4>3
    <3> QED BY <3>1
  <2>2. u \in 0..n
    BY <1>6
  <2> QED BY <2>1, <2>2
<1>7. CASE u = t
  <2> DEFINE old == InWindow(times, t)
  <2>1. InWindow(more, u) = old \cup {last}
    <3>1. ASSUME NEW k PROVE k \in InWindow(more, u) <=> k \in old \cup {last}
      <4>1. CASE k \in DOMAIN times
        BY <1>3, <1>7, <4>1 DEF InWindow
      <4>2. CASE k = last
        <5>1. k \in DOMAIN more /\ more[k] = t
          BY <1>3, <4>2
        <5>2. t > t - Window /\ t <= t
          BY <1>1
        <5> QED BY <1>7, <4>2, <5>1, <5>2 DEF InWindow
      <4>3. CASE k \notin DOMAIN times \cup {last}
        BY <1>3, <4>3 DEF InWindow
      <4> QED BY <4>1, <4>2, <4>3
    <3> QED BY <3>1
  <2>2. old \subseteq seen
    BY <1>1, <1>2 DEF InWindow
  <2>3. old \subseteq DOMAIN times /\ last \notin old
    BY <1>3 DEF InWindow
  <2> HIDE DEF old
  <2>4. IsFiniteSet(old) /\ Cardinality(old) \in Nat
    BY <2>3, WindowIsFinite
  <2>5. Cardinality(old) <= Cardinality(seen)
    <3> HIDE DEF seen
    <3> QED BY <1>5, <2>2, FS_Subset
  <2>6. Cardinality(old \cup {last}) = Cardinality(old) + 1
    BY <2>3, <2>4, FS_AddElement
  <2>7. Cardinality(seen) < limit
    OBVIOUS
  <2> HIDE DEF seen
  <2> QED BY <1>5, <2>1, <2>4, <2>5, <2>6, <2>7
<1> QED BY <1>6, <1>7

\* RateIsBounded, with its windows named.
LEMMA RateByWindow ==
    RateIsBounded <=> \A u \in 0..now : Cardinality(InWindow(attempts, u)) <= MaxPerWindow
BY DEF RateIsBounded, InWindow

-----------------------------------------------------------------------------
(* The invariant.                                                          *)

\* A broker without orders sells and costs nothing.
LEMMA InvInit == Init => IInv
<1> SUFFICES ASSUME Init PROVE IInv
  OBVIOUS
<1>1. /\ MaxInt \in Nat /\ MaxGross \in Nat /\ MaxOutstanding \in Nat
      /\ MaxPerWindow \in Nat /\ LastTime \in Nat
  BY LimitsAssumption
<1>2. NoOrder \in {r \in OrderType : Sound(r)}
  BY DEF NoOrder, Sound, OrderType, Sides
<1>3. order \in Books
  BY <1>2 DEF Init, Books
<1>4. Types
  <2>1. attempts \in Seq(0..now) /\ recent \subseteq DOMAIN attempts
    BY DEF Init
  <2>2. now \in 0..LastTime /\ 0 \in (-MaxInt - 1)..MaxInt
    BY <1>1 DEF Init
  <2> QED BY <1>3, <2>1, <2>2 DEF Init, Types, InInt
<1>5. Within(order, position)
  <2> DEFINE f == [o \in Orders |-> Selling(order[o])]
             g == [o \in Orders |-> Costing(order[o])]
  <2>1. \A o \in Orders : Selling(order[o]) = 0 /\ Costing(order[o]) = 0 /\ order[o].state # "working"
    BY DEF Init, NoOrder, Selling, Costing
  <2>2. /\ f \in [Orders -> Int] /\ g \in [Orders -> Int]
        /\ \A o \in Orders : f[o] = f[o] + f[o] /\ g[o] = g[o] + g[o]
    BY <2>1
  <2>3. SellsOf(order) = Total(f) /\ PremiumOf(order) = Total(g)
    BY DEF SellsOf, PremiumOf
  <2> HIDE DEF f, g
  <2>4. /\ Total(f) \in Int /\ Total(f) = Total(f) + Total(f)
        /\ Total(g) \in Int /\ Total(g) = Total(g) + Total(g)
    BY <2>2, TotalAdds, TotalMonotone
  <2>5. Total(f) = 0 /\ Total(g) = 0
    <3> DEFINE a == Total(f)
               b == Total(g)
    <3>1. a \in Int /\ a = a + a /\ b \in Int /\ b = b + b
      BY <2>4
    <3> HIDE DEF a, b
    <3>2. a = 0 /\ b = 0
      BY <3>1
    <3> QED BY <3>2 DEF a, b
  <2>6. WorkingOf(order) = {}
    BY <2>1 DEF WorkingOf
  <2>7. Cardinality(WorkingOf(order)) = 0
    BY <2>6, FS_EmptySet
  <2>8. position = 0
    BY DEF Init
  <2> QED BY <1>1, <2>3, <2>5, <2>7, <2>8, SlackIsSmall DEF Within
<1>6. Exposure
  BY <1>5 DEF Init, Exposure
<1>7. Remembered
  BY DEF Init, Remembered
<1>8. RateIsBounded
  <2>1. \A u : InWindow(attempts, u) = {}
    BY DEF Init, InWindow
  <2>2. \A u : Cardinality(InWindow(attempts, u)) = 0
    BY <2>1, FS_EmptySet
  <2> QED BY <1>1, <2>2, RateByWindow
<1> QED BY <1>4, <1>6, <1>7, <1>8 DEF IInv

\* prepare_intent: the limits hold for what will be submitted, and the attempt
\* enters the window.
LEMMA PrepareKeeps ==
    ASSUME IInv, NEW i \in Intents, Prepare(i)
    PROVE  IInv'
<1>1. Types /\ Within(order, position) /\ Remembered /\ RateIsBounded /\ Approves(i)
  BY DEF IInv, Exposure, Prepare
<1>2. /\ order' = order /\ position' = position /\ prepared' = {i}
      /\ UNCHANGED <<fillModel, health, tracked, mark>>
  BY DEF Prepare
<1>3. PICK t \in {now, now + 1} :
        /\ t <= LastTime
        /\ now' = t
        /\ attempts' = Append(attempts, t)
        /\ recent' = {k \in recent \cup {Len(attempts')} : attempts'[k] > t - Window}
  BY DEF Prepare
<1>4. i \in IntentType
  <2>1. i \in [action : {"place", "modify"}, order : Orders, side : Sides,
               quantity : Quantities, price : Prices]
    BY DEF Intents
  <2> QED BY <2>1, LimitsAssumption DEF IntentType
<1>5. /\ now \in Nat /\ now \in 0..LastTime /\ LastTime \in Nat /\ Window \in Nat
      /\ MaxPerWindow \in Nat /\ attempts \in Seq(0..now) /\ t \in Nat /\ t \in 0..LastTime
      /\ recent \subseteq DOMAIN attempts /\ now <= t
  BY <1>1, <1>3, LimitsAssumption DEF Types
<1>6. /\ Len(attempts) \in Nat /\ DOMAIN attempts = 1..Len(attempts)
      /\ \A k \in DOMAIN attempts : attempts[k] \in Nat /\ attempts[k] <= now
      /\ attempts \in Seq(0..t)
  BY <1>5, TimesSoFar
<1> DEFINE last == Len(attempts) + 1
<1>7. /\ attempts' \in Seq(0..t) /\ Len(attempts') = last
      /\ DOMAIN attempts' = DOMAIN attempts \cup {last}
      /\ attempts'[last] = t
      /\ \A k \in DOMAIN attempts : attempts'[k] = attempts[k]
  <2>1. t \in 0..t
    BY <1>5
  <2>2. Append(attempts, t) \in Seq(0..t)
    BY <1>6, <2>1
  <2>3. DOMAIN Append(attempts, t) = 1..last
    BY <1>6
  <2> QED BY <1>3, <1>6, <2>2, <2>3
<1>8. Types'
  <2>1. recent' \subseteq DOMAIN attempts'
    BY <1>3, <1>5, <1>7
  <2>2. prepared' \subseteq IntentType /\ \A a, b \in prepared' : a = b
    BY <1>2, <1>4
  <2>3. now' \in 0..LastTime /\ attempts' \in Seq(0..now')
    BY <1>3, <1>5, <1>7
  <2> QED BY <1>1, <1>2, <2>1, <2>2, <2>3 DEF Types, InInt
<1>9. Finds(order, i) /\ Within(SubmittedTo(order, i), position)
  <2>1. order \in Books
    BY <1>1 DEF Types
  <2>2. Submitted(i) = SubmittedTo(order, i)
    BY <1>4, <2>1, SubmittedIs
  <2> QED BY <1>1, <2>2, ApprovedIsWithin
<1>10. Exposure'
  BY <1>1, <1>2, <1>9 DEF Exposure, Within, Finds, SubmittedTo
<1>11. Remembered'
  <2>1. \A k \in DOMAIN attempts : attempts[k] > t - Window => k \in recent
    BY <1>1, <1>5, <1>6 DEF Remembered
  <2>2. {k \in DOMAIN attempts' : attempts'[k] > t - Window} \subseteq recent'
    BY <1>3, <1>7, <2>1
  <2> QED BY <1>3, <2>2 DEF Remembered
<1>12. RateIsBounded'
  <2>1. \A u \in 0..now : Cardinality(InWindow(attempts, u)) <= MaxPerWindow
    BY <1>1, RateByWindow
  <2>2. {k \in DOMAIN attempts : attempts[k] > now - Window} \subseteq recent
    BY <1>1 DEF Remembered
  <2>3. Cardinality({k \in recent : attempts[k] > now - Window /\ attempts[k] <= now}) < MaxPerWindow
    BY <1>1 DEF Approves, RateFits
  <2>4. \A u \in 0..t : Cardinality(InWindow(Append(attempts, t), u)) <= MaxPerWindow
    BY <1>5, <2>1, <2>2, <2>3, RateAfterAttempt
  <2>5. (\A u \in 0..now : Cardinality(InWindow(attempts, u)) <= MaxPerWindow)'
    BY <1>3, <2>4 DEF InWindow
  <2>6. (RateIsBounded <=> \A u \in 0..now : Cardinality(InWindow(attempts, u)) <= MaxPerWindow)'
    BY RateByWindow, PTL
  <2> QED BY <2>5, <2>6
<1> QED BY <1>8, <1>10, <1>11, <1>12 DEF IInv

\* A cancel only takes away what its order may sell or cost.
LEMMA PrepareCancelKeeps ==
    ASSUME IInv, NEW o \in Orders, PrepareCancel(o)
    PROVE  IInv'
<1> DEFINE i == CancelOf(o)
           Z == SubmittedTo(order, i)
           zero == [p \in Orders |-> 0]
<1>1. /\ Types /\ Within(order, position) /\ o \in Working /\ order \in Books
      /\ position \in Int
  BY LimitsAssumption DEF IInv, Exposure, PrepareCancel, ApprovesCancel, Types, InInt
<1>2. /\ prepared' = {i}
      /\ UNCHANGED <<fillModel, health, order, position, tracked, mark, now, recent, attempts>>
  BY DEF PrepareCancel
<1>3. i \in IntentType /\ i.action = "cancel" /\ i.order = o
  <2>1. order[o] \in OrderType /\ order[o].price > 0
    BY <1>1 DEF Books, Sound, Working
  <2> QED BY <2>1 DEF CancelOf, IntentType, OrderType
<1>4. Z \in Books /\ \A p \in Orders \ {o} : Z[p] = order[p]
  BY <1>1, <1>3, SubmittedToTyped DEF SubmittedTo
<1>5. Selling(Z[o]) = 0 /\ Costing(Z[o]) = 0 /\ Z[o].state # "working"
  <2>1. Z[o] = Asked(order[o], i) /\ order[o].state = "working"
    BY <1>1, <1>3 DEF SubmittedTo, Working
  <2>2. Asked(order[o], i).state = "cancelled"
    BY <1>3, <2>1 DEF Asked
  <2> QED BY <2>1, <2>2 DEF Selling, Costing
<1>6. \A p \in Orders : Selling(order[p]) \in Nat /\ Costing(order[p]) \in Nat
  BY <1>1, Contributions
<1>7. zero \in [Orders -> Int] /\ \A p \in Orders : zero[p] = 0
  OBVIOUS
<1> HIDE DEF i, Z, zero
<1>8. Total(zero) = 0
  <2>1. \A p \in Orders \ {o} : zero[p] = 0
    BY <1>7
  <2> QED BY <1>7, <2>1, TotalOfOne
<1>9. Within(Z, position)
  <2>1. \A p \in Orders : /\ Selling(Z[p]) + zero[p] <= Selling(order[p])
                          /\ Costing(Z[p]) <= Costing(order[p])
                          /\ Z[p].state = "working" => order[p].state = "working"
    <3> TAKE p \in Orders
    <3>1. CASE p = o
      BY <1>5, <1>6, <1>7, <3>1
    <3>2. CASE p # o
      BY <1>4, <1>6, <1>7, <3>2
    <3> QED BY <3>1, <3>2
  <2>2. position >= position - Total(zero)
    BY <1>1, <1>8
  <2> QED BY <1>1, <1>4, <1>7, <2>1, <2>2, WithinReduced
<1>10. Types'
  <2>1. prepared' \subseteq IntentType /\ \A a, b \in prepared' : a = b
    BY <1>2, <1>3
  <2> QED BY <1>1, <1>2, <2>1 DEF Types, InInt
<1>11. Exposure'
  <2>1. Finds(order, i)
    BY <1>3 DEF Finds
  <2>2. \A j \in prepared' : Finds(order, j) /\ Within(SubmittedTo(order, j), position)
    BY <1>2, <1>9, <2>1 DEF Z
  <2> QED BY <1>1, <1>2, <2>2 DEF Exposure, Within, Finds, SubmittedTo
<1>12. Remembered' /\ RateIsBounded'
  BY <1>2 DEF IInv, Remembered, RateIsBounded
<1> QED BY <1>10, <1>11, <1>12 DEF IInv

\* submit_prepared: the broker now has what the approval left room for.
LEMMA SubmitKeeps ==
    ASSUME IInv, Submit
    PROVE  IInv'
<1>1. PICK i \in prepared :
        /\ prepared' = {}
        /\ order' = IF health = "lost" THEN order ELSE Submitted(i)
        /\ UNCHANGED <<fillModel, health, position, tracked, mark, now, recent, attempts>>
  BY DEF Submit
<1>2. /\ Types /\ order \in Books /\ i \in IntentType /\ Within(order, position)
      /\ Within(SubmittedTo(order, i), position)
  BY DEF IInv, Types, Exposure
<1>3. Submitted(i) = SubmittedTo(order, i) /\ SubmittedTo(order, i) \in Books
  BY <1>2, SubmittedIs
<1>4. order' \in Books /\ Within(order', position)
  BY <1>1, <1>2, <1>3
<1>5. Types'
  BY <1>1, <1>2, <1>4 DEF Types, InInt
<1>6. Exposure'
  BY <1>1, <1>4 DEF Exposure, Within
<1>7. Remembered' /\ RateIsBounded'
  BY <1>1 DEF IInv, Remembered, RateIsBounded
<1> QED BY <1>5, <1>6, <1>7 DEF IInv

\* accept_observation and apply_scripted only fill.
LEMMA ObserveKeeps ==
    ASSUME IInv, NEW m \in Prices, Observe(m)
    PROVE  IInv'
<1>1. Types /\ Exposure /\ order \in Books
  BY DEF IInv, Types
<1>2. PICK S \in SUBSET {o \in Working : Crosses(o, m) /\ Remaining(o) > 0} :
        Fill(S, [o \in S |-> order[o].quantity])
  BY DEF Observe
<1> DEFINE c == [o \in S |-> order[o].quantity]
<1>3. S \subseteq Working /\ \A o \in S : c[o] \in order[o].filled..order[o].quantity
  <2>1. S \subseteq Working
    BY <1>2
  <2>2. ASSUME NEW o \in S PROVE c[o] \in order[o].filled..order[o].quantity
    <3>1. order[o].quantity \in Nat /\ order[o].filled \in Nat /\ order[o].filled <= order[o].quantity
      BY <1>1, <2>1 DEF Working, Books, Sound, OrderType
    <3> QED BY <3>1
  <2> QED BY <2>1, <2>2
<1>4. Fill(S, c)
  BY <1>2
<1>5. UNCHANGED <<fillModel, now, recent, attempts, prepared>> /\ mark' = m
  BY DEF Observe
<1> HIDE DEF c
<1>6. /\ order' \in Books /\ InInt(position') /\ health' \in {"ready", "lost"}
      /\ tracked' \in BOOLEAN /\ Exposure'
  BY <1>1, <1>3, <1>4, <1>5, FillKeeps
<1>7. Types'
  BY <1>1, <1>5, <1>6 DEF Types, InInt
<1>8. Remembered' /\ RateIsBounded'
  BY <1>5 DEF IInv, Remembered, RateIsBounded
<1> QED BY <1>6, <1>7, <1>8 DEF IInv

\* apply_scripted fills one order.
LEMMA ScriptedFillKeeps ==
    ASSUME IInv, NEW o \in Orders, ScriptedFill(o)
    PROVE  IInv'
<1>1. Types /\ Exposure /\ order \in Books /\ o \in Working
  BY DEF IInv, Types, ScriptedFill
<1>2. PICK n \in (order[o].filled + 1)..order[o].quantity : Fill({o}, [k \in {o} |-> n])
  BY DEF ScriptedFill
<1> DEFINE c == [k \in {o} |-> n]
           S == {o}
<1>3. S \subseteq Working /\ \A k \in S : c[k] \in order[k].filled..order[k].quantity
  <2>1. order[o].quantity \in Nat /\ order[o].filled \in Nat
    BY <1>1 DEF Books, Sound, OrderType
  <2>2. n \in order[o].filled..order[o].quantity
    BY <1>2, <2>1
  <2> QED BY <1>1, <2>2
<1>4. Fill(S, c)
  BY <1>2
<1>5. UNCHANGED <<fillModel, mark, now, recent, attempts, prepared>>
  BY DEF ScriptedFill
<1> HIDE DEF c, S
<1>6. /\ order' \in Books /\ InInt(position') /\ health' \in {"ready", "lost"}
      /\ tracked' \in BOOLEAN /\ Exposure'
  BY <1>1, <1>3, <1>4, <1>5, FillKeeps
<1>7. Types'
  BY <1>1, <1>5, <1>6 DEF Types, InInt
<1>8. Remembered' /\ RateIsBounded'
  BY <1>5 DEF IInv, Remembered, RateIsBounded
<1> QED BY <1>6, <1>7, <1>8 DEF IInv

\* A restart remembers every attempt of the last window.
LEMMA RestartKeeps ==
    ASSUME IInv, Restart
    PROVE  IInv'
<1>1. /\ mark' = 0
      /\ recent' = {k \in DOMAIN attempts : attempts[k] > now - Window}
      /\ UNCHANGED <<fillModel, health, order, position, tracked, now, attempts, prepared>>
  BY DEF Restart
<1>2. Types'
  BY <1>1 DEF IInv, Types, InInt
<1>3. Exposure'
  BY <1>1 DEF IInv, Exposure, Within, Finds, SubmittedTo
<1>4. Remembered' /\ RateIsBounded'
  BY <1>1 DEF IInv, Remembered, RateIsBounded
<1> QED BY <1>2, <1>3, <1>4 DEF IInv

\* The clock.
LEMMA TickKeeps ==
    ASSUME IInv, Tick
    PROVE  IInv'
<1>1. /\ now < LastTime /\ now' = now + 1
      /\ UNCHANGED <<fillModel, health, order, position, tracked, mark, recent, attempts, prepared>>
  BY DEF Tick
<1>2. /\ now \in Nat /\ now \in 0..LastTime /\ LastTime \in Nat /\ Window \in Nat
      /\ MaxPerWindow \in Nat /\ attempts \in Seq(0..now) /\ recent \subseteq DOMAIN attempts
  BY LimitsAssumption DEF IInv, Types
<1>3. /\ \A k \in DOMAIN attempts : attempts[k] \in Nat /\ attempts[k] <= now
      /\ attempts \in Seq(0..(now + 1))
  BY <1>2, TimesSoFar
<1>4. Types'
  <2>1. now' \in 0..LastTime /\ attempts' \in Seq(0..now')
    BY <1>1, <1>2, <1>3
  <2> QED BY <1>1, <2>1 DEF IInv, Types, InInt
<1>5. Exposure'
  BY <1>1 DEF IInv, Exposure, Within, Finds, SubmittedTo
<1>6. Remembered'
  BY <1>1, <1>2, <1>3 DEF IInv, Remembered
<1>7. RateIsBounded'
  <2>1. \A u \in 0..now : Cardinality(InWindow(attempts, u)) <= MaxPerWindow
    BY RateByWindow DEF IInv
  <2>2. \A u \in 0..(now + 1) : Cardinality(InWindow(attempts, u)) <= MaxPerWindow
    BY <1>2, <2>1, RateAfterTick
  <2>3. (\A u \in 0..now : Cardinality(InWindow(attempts, u)) <= MaxPerWindow)'
    BY <1>1, <2>2 DEF InWindow
  <2>4. (RateIsBounded <=> \A u \in 0..now : Cardinality(InWindow(attempts, u)) <= MaxPerWindow)'
    BY RateByWindow, PTL
  <2> QED BY <2>3, <2>4
<1> QED BY <1>4, <1>5, <1>6, <1>7 DEF IInv

\* Every step of the session, the broker and the clock keeps the invariant.
LEMMA InvStep == IInv /\ [Next]_vars => IInv'
<1> SUFFICES ASSUME IInv, [Next]_vars PROVE IInv'
  OBVIOUS
<1>1. ASSUME NEW i \in Intents, Prepare(i) PROVE IInv'
  BY <1>1, PrepareKeeps
<1>2. ASSUME NEW o \in Orders, PrepareCancel(o) PROVE IInv'
  BY <1>2, PrepareCancelKeeps
<1>3. ASSUME NEW o \in Orders, ScriptedFill(o) PROVE IInv'
  BY <1>3, ScriptedFillKeeps
<1>4. ASSUME NEW m \in Prices, Observe(m) PROVE IInv'
  BY <1>4, ObserveKeeps
<1>5. CASE Submit
  BY <1>5, SubmitKeeps
<1>6. CASE Restart
  BY <1>6, RestartKeeps
<1>7. CASE Tick
  BY <1>7, TickKeeps
<1>8. CASE UNCHANGED vars
  <2>1. Types'
    BY <1>8 DEF vars, IInv, Types, InInt
  <2>2. Exposure'
    BY <1>8 DEF vars, IInv, Exposure, Within, Finds, SubmittedTo
  <2>3. Remembered' /\ RateIsBounded'
    BY <1>8 DEF vars, IInv, Remembered, RateIsBounded
  <2> QED BY <2>1, <2>2, <2>3 DEF IInv
<1> QED BY <1>1, <1>2, <1>3, <1>4, <1>5, <1>6, <1>7, <1>8 DEF Next

-----------------------------------------------------------------------------
(* The theorems.                                                           *)

\* The invariant of every reachable state.
LEMMA InvHolds == Spec => []IInv
<1> QED BY InvInit, InvStep, PTL DEF Spec

\* The limits of evaluate() hold for the account at every moment after the
\* approval: premium, number of working orders, and no order with more fills
\* than its quantity.
THEOREM LimitsAlwaysHold == Spec => []LimitsHold
<1>1. IInv => LimitsHold
  <2> SUFFICES ASSUME IInv PROVE LimitsHold
    OBVIOUS
  <2>1. Types /\ order \in Books /\ Within(order, position)
    BY DEF IInv, Types, Exposure
  <2>2. /\ Working = WorkingOf(order) /\ Premium(Working) = PremiumOf(order)
    BY <2>1, SnapshotSums
  <2> QED BY <2>1, <2>2, TypesSuffice
          DEF LimitsHold, GrossStaysBounded, OutstandingStaysBounded, Within
<1> QED BY <1>1, InvHolds, PTL

\* The account holds whatever its working orders may still sell, as long as the
\* premium limit is below UINT64_MAX; with that limit it lacks at most the one
\* unit that sell_availability's saturation hides (through fills, modifies,
\* cancels and restarts).
THEOREM AccountIsNeverShort == Spec => []NeverShort
<1>1. IInv => NeverShort
  <2> SUFFICES ASSUME IInv PROVE NeverShort
    OBVIOUS
  <2>1. order \in Books /\ Within(order, position) /\ position \in Int
    BY LimitsAssumption DEF IInv, Types, Exposure, InInt
  <2>2. WorkingSells(Working) = SellsOf(order) /\ SellsOf(order) \in Int
    BY <2>1, SnapshotSums, Contributions
  <2> QED BY <2>1, <2>2 DEF NeverShort, Within
<1> QED BY <1>1, InvHolds, PTL

\* No window of time sees more attempts than maximum_orders_per_window, across
\* restarts (the rate window of prepare_intent and its rebuilding).
THEOREM RateIsAlwaysBounded == Spec => []RateIsBounded
<1>1. IInv => RateIsBounded
  BY DEF IInv
<1> QED BY <1>1, InvHolds, PTL

\* The value of a sum in MaxInt's width is the sum when it fits.
LEMMA WrappedWhenItFits ==
    ASSUME NEW n, InInt(n)
    PROVE  n \in Int /\ Wrapped(n) = n
<1> DEFINE m == 2 * (MaxInt + 1)
           q == n + MaxInt + 1
<1>1. MaxInt \in Nat
  BY LimitsAssumption
<1>2. n \in Int /\ q \in Nat /\ m \in Nat /\ m > 0 /\ 0 <= q /\ q < m
  BY <1>1 DEF InInt
<1>3. Wrapped(n) = (q % m) - (MaxInt + 1)
  BY DEF Wrapped
<1>4. q % m = q
  <2> HIDE DEF q, m
  <2> QED BY <1>2
<1>5. q - (MaxInt + 1) = n
  BY <1>1, <1>2
<1> QED BY <1>2, <1>3, <1>4, <1>5

\* What the working orders may still sell is all they may take from the position.
LEMMA NetCovered ==
    ASSUME order \in Books, NEW S, S \subseteq Working
    PROVE  Net(S) \in Int /\ WorkingSells(S) \in Int /\ Net(S) + WorkingSells(S) >= 0
<1> DEFINE f == [o \in Orders |-> IF o \in S THEN Signed(order[o].side, Remaining(o)) ELSE 0]
           g == [o \in Orders |-> IF o \in S /\ order[o].side = "sell" THEN Remaining(o) ELSE 0]
           h == [o \in Orders |-> f[o] + g[o]]
<1>1. ASSUME NEW o \in Orders PROVE f[o] \in Int /\ g[o] \in Int /\ h[o] >= 0 /\ h[o] \in Int
  <2> DEFINE n == Remaining(o)
  <2>1. n \in Nat
    BY DEF Remaining, Books, Sound, OrderType
  <2>2. order[o].side \in {"buy", "sell"}
    BY DEF Books, Sound, OrderType, Sides
  <2>3. f[o] = IF o \in S THEN IF order[o].side = "buy" THEN n ELSE -n ELSE 0
    BY DEF Signed
  <2>4. g[o] = IF o \in S /\ order[o].side = "sell" THEN n ELSE 0
    OBVIOUS
  <2>5. h[o] = f[o] + g[o]
    OBVIOUS
  <2> HIDE DEF n, f, g, h
  <2> QED BY <2>1, <2>2, <2>3, <2>4, <2>5
<1>2. f \in [Orders -> Int] /\ g \in [Orders -> Int] /\ h \in [Orders -> Int]
  BY <1>1
<1>3. Net(S) = Total(f) /\ WorkingSells(S) = Total(g)
  BY DEF Net, WorkingSells
<1>4. \A o \in Orders : h[o] = f[o] + g[o] /\ h[o] >= 0
  BY <1>1
<1> HIDE DEF f, g, h
<1>5. Total(h) = Total(f) + Total(g) /\ Total(h) >= 0
  BY <1>2, <1>4, TotalAdds, TotalCovers
<1>6. Total(f) \in Int /\ Total(g) \in Int
  BY <1>2, TotalMonotone
<1> QED BY <1>3, <1>5, <1>6

\* An approval is right in exact arithmetic (RiskEngine::evaluate): neither a
\* wrapped or saturated position nor a saturated premium is ever taken for one
\* within the limits, and a saturated sell requirement only when it is one unit
\* above INT64_MAX, at a position of INT64_MAX and a premium of UINT64_MAX.
THEOREM ApprovalsAreExact == Spec => []ApprovedIsExact
<1>1. IInv => ApprovedIsExact
  <2> SUFFICES ASSUME IInv, NEW i \in Intents, Approves(i)
      PROVE /\ Abs(position + Net(Others(i)) + Signed(i.side, Projected(i))) <= MaxPosition
            /\ Abs(position) * mark + Premium(Others(i)) + Projected(i) * i.price <= MaxGross
            /\ i.side = "sell" =>
                   \/ WorkingSells(Others(i)) + Projected(i) <= position
                   \/ SaturatedSell(i)
    BY DEF ApprovedIsExact, ExactGross
  <2>1. /\ order \in Books /\ position \in Int /\ mark \in Nat /\ MaxInt \in Nat
        /\ MaxPosition \in Nat /\ MaxPosition <= MaxInt /\ MaxUint \in Nat /\ MaxGross \in Nat
        /\ Within(order, position)
    BY LimitsAssumption DEF IInv, Types, Exposure, InInt
  <2>2. /\ i.action \in {"place", "modify"} /\ i.order \in Orders /\ i.side \in Sides
        /\ i.quantity \in Nat \ {0} /\ i.price \in Nat \ {0}
    <3>1. i \in [action : {"place", "modify"}, order : Orders, side : Sides,
                 quantity : Quantities, price : Prices]
      BY DEF Intents
    <3> QED BY <3>1, LimitsAssumption
  <2>3. Projected(i) \in Nat \ {0}
    <3>1. order[i.order].filled \in Nat
      BY <2>1, <2>2 DEF Books, Sound, OrderType
    <3> QED BY <2>2, <3>1 DEF Projected
  <2> DEFINE others == Others(i)
             net == Net(others)
             add == Signed(i.side, Projected(i))
             final == position + net + add
  <2>4. net \in Int
    <3>1. others \subseteq Working
      BY DEF Others
    <3> HIDE DEF others
    <3> QED BY <2>1, <3>1, NetCovered
  <2>5. add \in Int
    BY <2>2, <2>3 DEF Signed
  <2>8. i.side = "sell" =>
          /\ WorkingSells(Others(i)) \in Int
          /\ \/ WorkingSells(Others(i)) + Projected(i) <= position
             \/ SaturatedSell(i)
    BY SellsWithinReach DEF IInv
  <2>6. Abs(final) <= MaxPosition
    <3>1. InInt(final) /\ Saturated(Wrapped(final)) <= MaxPosition
      BY DEF Approves, PositionFits
    <3>2. final \in Int /\ Wrapped(final) = final
      <4> HIDE DEF final
      <4> QED BY <3>1, WrappedWhenItFits
    <3>3. Saturated(final) <= MaxPosition
      <4> HIDE DEF final
      <4> QED BY <3>1, <3>2
    <3>4. final >= -1
      <4> DEFINE sells == WorkingSells(others)
                 all == WorkingSells(Working)
      <4>1. net + sells >= 0 /\ sells \in Int
        <5>1. others \subseteq Working
          BY DEF Others
        <5> HIDE DEF others
        <5> QED BY <2>1, <5>1, NetCovered
      <4>2. sells <= all /\ all \in Int
        BY <2>1, <2>2, OthersSell
      <4>3. all <= position + SaturationSlack
        BY <2>1, SnapshotSums DEF Within
      <4>4. CASE i.side = "buy"
        <5>1. add = Projected(i)
          BY <4>4 DEF Signed
        <5> HIDE DEF net, sells, all, others
        <5> QED BY <2>1, <2>3, <2>4, <4>1, <4>2, <4>3, <5>1, SlackIsSmall
      <4>5. CASE i.side = "sell"
        <5>1. add = -Projected(i)
          BY <4>5 DEF Signed
        <5>2. sells + Projected(i) <= position + 1
          BY <2>1, <2>3, <2>8, <4>5 DEF SaturatedSell
        <5> HIDE DEF net, sells, all, others
        <5> QED BY <2>1, <2>3, <2>4, <4>1, <5>1, <5>2
      <4> QED BY <2>2, <4>4, <4>5 DEF Sides
    <3> HIDE DEF final
    <3> QED BY <2>1, <3>2, <3>3, <3>4, <3>1, LimitsAssumption DEF Saturated, Abs, InInt
  <2>7. Abs(position) * mark + Premium(Others(i)) + Projected(i) * i.price <= MaxGross
    <3> DEFINE held == Abs(position) * mark
               cost == Projected(i) * i.price
               premium == Premium(Others(i))
    <3>1. held \in Nat
      <4>1. Abs(position) \in Nat
        BY <2>1 DEF Abs
      <4> QED BY <2>1, <4>1
    <3>2. cost \in Nat /\ cost > 0
      <4> DEFINE n == Projected(i)
                 w == i.price
      <4>1. n \in Nat \ {0} /\ w \in Nat \ {0}
        BY <2>2, <2>3
      <4> HIDE DEF n, w
      <4>2. n * w \in Nat /\ n * w > 0
        BY <4>1
      <4> QED BY <4>2 DEF n, w
    <3>3. premium \in Nat
      <4> DEFINE f == [o \in Orders |->
                        IF o \in Others(i) THEN Remaining(o) * order[o].price ELSE 0]
      <4>1. ASSUME NEW o \in Orders PROVE f[o] \in Nat
        <5>1. Remaining(o) \in Nat /\ order[o].price \in Nat
          BY <2>1 DEF Remaining, Books, Sound, OrderType
        <5>2. Remaining(o) * order[o].price \in Nat
          BY <5>1
        <5> QED BY <5>2
      <4>2. f \in [Orders -> Int] /\ \A o \in Orders : f[o] >= 0
        BY <4>1
      <4>3. premium = Total(f)
        BY DEF Premium
      <4> HIDE DEF f
      <4> QED BY <4>2, <4>3, TotalCovers
    <3> DEFINE gross == (IF InUint(held) THEN held ELSE MaxUint) + premium
    <3>4. InUint(gross + cost) /\ gross + cost <= MaxGross
      BY DEF Approves, GrossFits
    <3> HIDE DEF held, cost, premium
    <3> QED BY <2>1, <3>1, <3>2, <3>3, <3>4 DEF InUint, held, cost, premium
  <2> QED BY <2>6, <2>7, <2>8
<1> QED BY <1>1, InvHolds, PTL
=============================================================================
