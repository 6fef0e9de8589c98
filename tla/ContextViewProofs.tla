-------------------------- MODULE ContextViewProofs ---------------------------
(***************************************************************************)
(* ContextView for histories of any length, any batches and repetitions    *)
(* and any limits of the condenser: the LLM is never shown a history that  *)
(* it would refuse.                                                        *)
(*                                                                         *)
(* The enforcement is proved to reach a view that no property objects to,  *)
(* whatever it starts from, and to drop no more than necessary; the order  *)
(* of calls and answers comes from the replay, which keeps the events in   *)
(* the order of the history.  That a condensation makes the view shorter   *)
(* follows from what the enforcement leaves before and after it.           *)
(*                                                                         *)
(* As long as the history is orderly a condensation leaves nothing to      *)
(* enforce: a manipulation index separates no events that the properties   *)
(* have the LLM shown together, so the replay has them together or not at  *)
(* all, without gaps and in the order of the history.                      *)
(***************************************************************************)
EXTENDS ContextView, FiniteSetTheorems, WellFoundedInduction, TLAPS

(* The IDs that a view may have, and the order of those of events.         *)
Ids == {id \in Int : id # 0 /\ -Len(log) <= id /\ id <= Len(log)}
Ordered(v) == \A i, j \in DOMAIN v : i < j /\ v[i] > 0 /\ v[j] > 0 => v[i] < v[j]
Distinct(v) == \A i, j \in DOMAIN v : v[i] = v[j] => i = j

Plain == [kind : {"message", "other", "request"}]
         \union [kind : {"action"}, resp : Nat, valid : BOOLEAN, thinking : BOOLEAN]
         \union [kind : {"observation"}, of : Nat]
Entries == Plain \union [kind : {"condensation"}, forgets : SUBSET Int]

(* An observation comes after the call it answers.                         *)
LogInv == /\ log \in Seq(Entries)
          /\ \A o \in DOMAIN log : log[o].kind = "observation" =>
               log[o].of \in 1..o - 1 /\ log[log[o].of].kind = "action"

EventsInv == events \in Seq(Ids) /\ Ordered(events) /\ Distinct(events)

(* No property objects to what the LLM is shown.                           *)
ViewInv == view \in Seq(Ids) /\ Ordered(view) /\ Distinct(view) /\ Objection(view) = {}

(* Second observations, and a set of events that three of the properties   *)
(* do not object to.                                                       *)
RepeatedIn(X) == {o \in X : /\ Is(o, "observation")
                            /\ \E f \in X : /\ f < o
                                            /\ Is(f, "observation")
                                            /\ log[f].of = log[o].of}
Whole(X) == /\ \A id \in X : Is(id, "action") =>
                 Batch(log[id].resp) \subseteq X /\ Answers(id) \cap X # {}
            /\ \A id \in X : Is(id, "observation") => log[id].of \in X
            /\ \A i \in DOMAIN log : Thinks(i) /\ Loop(i) \cap X # {} => Loop(i) \subseteq X

(* The enforcement drops the second observations and no more than that     *)
(* makes necessary: in whichever order the properties object, they leave   *)
(* the largest whole part of the rest.                                     *)
ViewIsLargest ==
  /\ ToSet(view) \subseteq ToSet(events) \ RepeatedIn(ToSet(events))
  /\ Whole(ToSet(view))
  /\ \A Y \in SUBSET (ToSet(events) \ RepeatedIn(ToSet(events))) :
       Whole(Y) => Y \subseteq ToSet(view)

IInv == LogInv /\ EventsInv /\ ViewInv /\ ViewIsLargest

(* New observations answer calls of the history, or the call before them.  *)
InOrder(es) == \A j \in DOMAIN es : es[j].kind = "observation" =>
                 \/ es[j].of \in Actions
                 \/ j > 1 /\ es[j - 1].kind = "action" /\ es[j].of = Len(log) + j - 1
------------------------------------------------------------------------------
(* Sequences and sets of numbers                                           *)

(* A set of numbers that is not empty has a least one.                     *)
LEMMA LeastOf ==
  ASSUME NEW S \in SUBSET Nat, S # {}
  PROVE  \E x \in S : \A y \in S : x <= y
<1>1. PICK x \in S : \A y \in S : ~(<<y, x>> \in OpToRel(<, Nat))
  BY NatLessThanWellFounded, WFMin
<1>2. \A y \in S : ~(y < x)
  BY <1>1 DEF OpToRel
<1> QED
  BY <1>2

(* A sequence over a set is one over a larger set.                         *)
LEMMA SeqWidens ==
  ASSUME NEW S, NEW T, S \subseteq T, NEW c \in Seq(S)
  PROVE  c \in Seq(T)
<1>1. /\ Len(c) \in Nat
      /\ c = [i \in 1..Len(c) |-> c[i]]
      /\ \A i \in 1..Len(c) : c[i] \in S
  OBVIOUS
<1>2. \A i \in 1..Len(c) : c[i] \in T
  BY <1>1
<1> QED
  BY <1>1, <1>2

(* What an insertion after the first k elements gives.                     *)
LEMMA InsertAtIs ==
  ASSUME NEW S, NEW c \in Seq(S), NEW k \in 0..Len(c), NEW e \in S,
         NEW new, new = InsertAt(c, k + 1, e)
  PROVE  /\ new \in Seq(S)
         /\ Len(new) = Len(c) + 1
         /\ \A i \in 1..k : new[i] = c[i]
         /\ new[k + 1] = e
         /\ \A i \in k + 2..Len(c) + 1 : new[i] = c[i - 1]
<1> DEFINE a == SubSeq(c, 1, k)
           b == SubSeq(c, k + 1, Len(c))
<1>1. k \in Int /\ Len(c) \in Nat /\ (k + 1) - 1 = k
  OBVIOUS
<1>2. InsertAt(c, k + 1, e) = a \o <<e>> \o b
  BY <1>1 DEF InsertAt
<1>3. a \in Seq(S) /\ Len(a) = k /\ \A i \in 1..k : a[i] = c[i]
  BY <1>1
<1>4. b \in Seq(S) /\ Len(b) = Len(c) - k /\ \A i \in 1..Len(c) - k : b[i] = c[k + i]
  BY <1>1
<1> HIDE DEF a, b
<1>5. /\ a \o <<e>> \in Seq(S)
      /\ Len(a \o <<e>>) = k + 1
      /\ \A i \in 1..k : (a \o <<e>>)[i] = a[i]
      /\ (a \o <<e>>)[k + 1] = e
  BY <1>1, <1>3
<1> DEFINE f == a \o <<e>>
<1> HIDE DEF f
<1>6. f \in Seq(S) /\ Len(f) = k + 1
  BY <1>5 DEF f
<1>7. /\ f \o b \in Seq(S)
      /\ Len(f \o b) = Len(c) + 1
      /\ \A i \in 1..k + 1 : (f \o b)[i] = f[i]
      /\ \A i \in k + 2..Len(c) + 1 : (f \o b)[i] = b[i - (k + 1)]
  <2>1. f \in Seq(S) /\ b \in Seq(S)
    BY <1>4, <1>6
  <2>2. f \o b \in Seq(S) /\ Len(f \o b) = Len(f) + Len(b)
    BY <2>1
  <2>3. \A i \in 1..Len(f) : (f \o b)[i] = f[i]
    BY <2>1
  <2>4. \A i \in Len(f) + 1..Len(f) + Len(b) : (f \o b)[i] = b[i - Len(f)]
    BY <2>1
  <2>5. Len(f) + 1 = k + 2 /\ Len(f) + Len(b) = Len(c) + 1
    BY <1>1, <1>4, <1>6
  <2> QED
    BY <1>6, <2>2, <2>3, <2>4, <2>5
<1>8. \A i \in k + 2..Len(c) + 1 : b[i - (k + 1)] = c[i - 1]
  <2> TAKE i \in k + 2..Len(c) + 1
  <2>1. i - (k + 1) \in 1..Len(c) - k /\ k + (i - (k + 1)) = i - 1
    BY <1>1
  <2> QED
    BY <1>4, <2>1
<1>9. new = f \o b
  BY <1>2 DEF f
<1>10. /\ \A i \in 1..k : f[i] = c[i]
       /\ f[k + 1] = e
  BY <1>3, <1>5 DEF f
<1>11. \A i \in 1..k : i \in 1..k + 1
  BY <1>1
<1>12. (\A i \in 1..k : new[i] = c[i]) /\ new[k + 1] = e
  <2>1. k + 1 \in 1..k + 1
    BY <1>1
  <2>2. new[k + 1] = e
    BY <1>7, <1>9, <1>10, <2>1
  <2> QED
    BY <1>7, <1>9, <1>10, <1>11, <2>2
<1>13. \A i \in k + 2..Len(c) + 1 : new[i] = c[i - 1]
  BY <1>7, <1>8, <1>9
<1> QED
  BY <1>7, <1>9, <1>12, <1>13

(* It adds an element and nothing else, and a summary's ID disturbs no     *)
(* order.                                                                  *)
LEMMA InsertAdds ==
  ASSUME NEW S \in SUBSET Int, NEW c \in Seq(S), NEW k \in 0..Len(c), NEW e \in S,
         NEW new, new = InsertAt(c, k + 1, e), Ordered(c), e < 0
  PROVE  /\ new \in Seq(S)
         /\ Ordered(new)
         /\ ToSet(new) = ToSet(c) \union {e}
         /\ Distinct(c) /\ e \notin ToSet(c) => Distinct(new)
<1> DEFINE Was(x) == IF x <= k THEN x ELSE x - 1
<1>1. new \in Seq(S) /\ Len(new) = Len(c) + 1
  BY InsertAtIs
<1>2. \A i \in 1..k : new[i] = c[i]
  BY InsertAtIs
<1>3. new[k + 1] = e
  BY InsertAtIs
<1>4. \A i \in k + 2..Len(c) + 1 : new[i] = c[i - 1]
  BY InsertAtIs
<1>5. Len(c) \in Nat /\ DOMAIN c = 1..Len(c) /\ DOMAIN new = 1..Len(c) + 1 /\ k \in Int
  BY <1>1
<1>6. \A x \in DOMAIN new : x # k + 1 => Was(x) \in DOMAIN c /\ new[x] = c[Was(x)]
  <2> TAKE x \in DOMAIN new
  <2>1. CASE x <= k
    BY <1>2, <1>5, <2>1
  <2>2. CASE x > k + 1
    BY <1>4, <1>5, <2>2
  <2> QED
    BY <1>5, <2>1, <2>2
<1>7. \A x, y \in DOMAIN new : x # k + 1 /\ y # k + 1 =>
        (Was(x) = Was(y) => x = y) /\ (x < y => Was(x) < Was(y))
  BY <1>5
<1> HIDE DEF Was
<1>8. \A x \in DOMAIN new : x # k + 1 => new[x] \in ToSet(c)
  BY <1>6 DEF ToSet
<1>9. ToSet(new) = ToSet(c) \union {e}
  <2>1. ToSet(new) \subseteq ToSet(c) \union {e}
    BY <1>3, <1>8 DEF ToSet
  <2>2. e \in ToSet(new)
    <3>1. k + 1 \in DOMAIN new
      BY <1>5
    <3> QED
      BY <1>3, <3>1 DEF ToSet
  <2>3. ASSUME NEW i \in DOMAIN c PROVE c[i] \in ToSet(new)
    <3>1. CASE i <= k
      <4>1. i \in DOMAIN new /\ new[i] = c[i]
        BY <1>2, <1>5, <3>1
      <4> QED
        BY <4>1 DEF ToSet
    <3>2. CASE i > k
      <4>1. i + 1 \in DOMAIN new /\ new[i + 1] = c[i]
        BY <1>4, <1>5, <3>2
      <4> QED
        BY <4>1 DEF ToSet
    <3> QED
      BY <1>5, <3>1, <3>2
  <2>4. ToSet(c) \subseteq ToSet(new)
    BY <2>3 DEF ToSet
  <2> QED
    BY <2>1, <2>2, <2>4
<1>10. ASSUME Distinct(c), e \notin ToSet(c) PROVE Distinct(new)
  <2> SUFFICES ASSUME NEW i \in DOMAIN new, NEW j \in DOMAIN new, new[i] = new[j]
               PROVE  i = j
    BY DEF Distinct
  <2>1. CASE i # k + 1 /\ j # k + 1
    BY <1>6, <1>7, <1>10, <2>1 DEF Distinct
  <2>2. CASE i = k + 1 \/ j = k + 1
    BY <1>3, <1>8, <1>10, <2>2
  <2> QED
    BY <2>1, <2>2
<1>11. Ordered(new)
  <2> SUFFICES ASSUME NEW i \in DOMAIN new, NEW j \in DOMAIN new, i < j, new[i] > 0, new[j] > 0
               PROVE  new[i] < new[j]
    BY DEF Ordered
  <2>1. i # k + 1 /\ j # k + 1
    <3>1. e \in Int /\ ~(e > 0)
      OBVIOUS
    <3> QED
      BY <1>3, <3>1
  <2>2. Was(i) < Was(j)
    BY <1>7, <2>1
  <2> QED
    BY <1>6, <2>1, <2>2 DEF Ordered
<1> QED
  BY <1>1, <1>9, <1>10, <1>11

(* The function that Drop names is the one it says it is.                  *)
Keeping(v, S, f, m) ==
  f = [n \in 0..m |-> IF n = 0 THEN << >>
                      ELSE IF v[n] \in S THEN f[n - 1] ELSE Append(f[n - 1], v[n])]

(* There is such a function.                                               *)
LEMMA KeepingExists ==
  ASSUME NEW v, NEW S, NEW n \in Nat
  PROVE  \E f : Keeping(v, S, f, n)
<1> DEFINE Without == {m \in Nat : ~(\E f : Keeping(v, S, f, m))}
<1>1. SUFFICES ASSUME Without # {} PROVE FALSE
  OBVIOUS
<1>2. PICK m \in Without : \A l \in Without : m <= l
  <2>1. Without \in SUBSET Nat
    OBVIOUS
  <2> HIDE DEF Without
  <2> QED
    BY <1>1, <2>1, LeastOf
<1>3. m \in Nat /\ ~(\E f : Keeping(v, S, f, m))
  BY <1>2
<1>4. CASE m = 0
  <2>1. Keeping(v, S, [k \in 0..m |-> << >>], m)
    BY <1>4 DEF Keeping
  <2> QED
    BY <1>3, <2>1
<1>5. CASE m > 0
  <2>1. PICK g : Keeping(v, S, g, m - 1)
    <3>1. m - 1 \in Nat /\ ~(m <= m - 1)
      BY <1>3, <1>5
    <3>2. m - 1 \notin Without
      BY <1>2, <3>1
    <3> QED
      BY <3>1, <3>2
  <2> DEFINE Next1(u, k) == IF v[k] \in S THEN u ELSE Append(u, v[k])
             h == [k \in 0..m |-> IF k = m THEN Next1(g[m - 1], m) ELSE g[k]]
  <2>2. \A k \in 0..m - 1 : g[k] = IF k = 0 THEN << >> ELSE Next1(g[k - 1], k)
    BY <2>1 DEF Keeping
  <2> HIDE DEF Next1
  <2>3. \A k \in 0..m : h[k] = IF k = 0 THEN << >> ELSE Next1(h[k - 1], k)
    <3> SUFFICES ASSUME NEW k \in 0..m
                 PROVE  h[k] = IF k = 0 THEN << >> ELSE Next1(h[k - 1], k)
      OBVIOUS
    <3>1. CASE k = 0
      BY <1>3, <1>5, <2>2, <3>1
    <3>2. CASE k # 0
      <4>1. k - 1 \in 0..m /\ k - 1 # m /\ h[k - 1] = g[k - 1]
        BY <1>3, <3>2
      <4>2. CASE k = m
        BY <3>2, <4>1, <4>2
      <4>3. CASE k # m
        BY <1>3, <2>2, <3>2, <4>1, <4>3
      <4> QED
        BY <4>2, <4>3
    <3> QED
      BY <3>1, <3>2
  <2>4. h = [k \in 0..m |-> h[k]]
    OBVIOUS
  <2> HIDE DEF h
  <2>5. h = [k \in 0..m |-> IF k = 0 THEN << >> ELSE Next1(h[k - 1], k)]
    BY <2>3, <2>4
  <2>6. Keeping(v, S, h, m)
    BY <2>5 DEF Keeping, Next1
  <2> QED
    BY <1>3, <2>6
<1> QED
  BY <1>3, <1>4, <1>5

(* What Drop gives, step by step.                                          *)
LEMMA DropIs ==
  ASSUME NEW v, NEW S, Len(v) \in Nat
  PROVE  \E f : /\ f[0] = << >>
                /\ \A n \in 1..Len(v) :
                     f[n] = IF v[n] \in S THEN f[n - 1] ELSE Append(f[n - 1], v[n])
                /\ Drop(v, S) = f[Len(v)]
<1> DEFINE f == CHOOSE f : Keeping(v, S, f, Len(v))
<1>1. Drop(v, S) = f[Len(v)]
  BY DEF Drop, Keeping
<1>2. Keeping(v, S, f, Len(v))
  BY KeepingExists
<1> HIDE DEF f
<1>3. f[0] = << >>
  BY <1>2 DEF Keeping
<1>4. \A n \in 1..Len(v) :
        f[n] = IF v[n] \in S THEN f[n - 1] ELSE Append(f[n - 1], v[n])
  <2> TAKE n \in 1..Len(v)
  <2>1. n \in 0..Len(v) /\ n # 0
    OBVIOUS
  <2> QED
    BY <1>2, <2>1 DEF Keeping
<1> QED
  BY <1>1, <1>3, <1>4

(* A sequence without what it does not have: dropping keeps the order and  *)
(* makes the sequence shorter if there is anything to drop.                *)
LEMMA DropKeeps ==
  ASSUME NEW T \in SUBSET Int, NEW v \in Seq(T), Ordered(v), NEW S
  PROVE  /\ Drop(v, S) \in Seq(T)
         /\ Ordered(Drop(v, S))
         /\ Len(Drop(v, S)) <= Len(v)
         /\ (\E i \in DOMAIN v : v[i] \in S) => Len(Drop(v, S)) < Len(v)
         /\ (\A i \in DOMAIN v : v[i] \notin S) => Drop(v, S) = v
<1>1. Len(v) \in Nat /\ DOMAIN v = 1..Len(v) /\ \A i \in 1..Len(v) : v[i] \in T /\ v[i] \in Int
  <2>1. Len(v) \in Nat /\ DOMAIN v = 1..Len(v) /\ \A i \in 1..Len(v) : v[i] \in T
    OBVIOUS
  <2>2. \A x \in T : x \in Int
    OBVIOUS
  <2> QED
    BY <2>1, <2>2
<1>2. PICK f : /\ f[0] = << >>
               /\ \A n \in 1..Len(v) :
                    f[n] = IF v[n] \in S THEN f[n - 1] ELSE Append(f[n - 1], v[n])
               /\ Drop(v, S) = f[Len(v)]
  BY <1>1, DropIs
<1> DEFINE From(u, n) == \A j \in DOMAIN u : \E i \in 1..n : u[j] = v[i]
           Less(u, n) == (\E i \in 1..n : v[i] \in S) => Len(u) < n
           Same(u, n) == (\A i \in 1..n : v[i] \notin S)
                           => Len(u) = n /\ \A i \in 1..n : u[i] = v[i]
           Good(u, n) == /\ u \in Seq(T) /\ Ordered(u) /\ Len(u) <= n
                         /\ From(u, n) /\ Less(u, n) /\ Same(u, n)
           Bad == {n \in 0..Len(v) : ~Good(f[n], n)}
<1>3. Bad = {}
  <2> SUFFICES ASSUME Bad # {} PROVE FALSE
    OBVIOUS
  <2>1. PICK n \in Bad : \A l \in Bad : n <= l
    <3>1. Bad \in SUBSET Nat
      BY <1>1
    <3> HIDE DEF Bad
    <3> QED
      BY <3>1, LeastOf
  <2>2. n \in 0..Len(v) /\ ~Good(f[n], n)
    BY <2>1
  <2>3. CASE n = 0
    <3>1. f[n] = << >>
      BY <1>2, <2>3
    <3>2. Good(<< >>, 0)
      BY DEF Ordered
    <3> QED
      BY <2>2, <2>3, <3>1, <3>2
  <2>4. CASE n # 0
    <3> DEFINE u == f[n - 1]
               w == f[n]
    <3>1. n \in 1..Len(v) /\ n - 1 \in 0..Len(v) /\ n - 1 \in Nat /\ ~(n <= n - 1) /\ n \in Nat
      BY <1>1, <2>2, <2>4
    <3>2. Good(u, n - 1)
      <4> HIDE DEF Good
      <4> QED
        BY <2>1, <3>1
    <3>3. w = IF v[n] \in S THEN u ELSE Append(u, v[n])
      BY <1>2, <3>1
    <3>4. u \in Seq(T) /\ Len(u) \in Nat /\ DOMAIN u = 1..Len(u) /\ Len(u) <= n - 1
      BY <3>2
    <3>5. From(u, n - 1) /\ Ordered(u) /\ Less(u, n - 1) /\ Same(u, n - 1)
      BY <3>2
    <3>6. 1..n = (1..n - 1) \union {n} /\ v[n] \in T
      BY <1>1, <3>1
    <3> HIDE DEF u, w
    <3>7. CASE v[n] \in S
      <4>1. w = u
        BY <3>3, <3>7
      <4>2. From(u, n)
        BY <3>5, <3>6
      <4>3. Len(u) < n /\ Len(u) <= n
        BY <3>1, <3>4
      <4>4. Less(u, n)
        BY <4>3
      <4>5. Same(u, n)
        BY <3>1, <3>7
      <4>6. Good(u, n)
        BY <3>4, <3>5, <4>2, <4>3, <4>4, <4>5
      <4> HIDE DEF Good
      <4> QED
        BY <2>2, <4>1, <4>6 DEF w
    <3>8. CASE v[n] \notin S
      <4>1. w = Append(u, v[n])
        BY <3>3, <3>8
      <4>2. /\ w \in Seq(T) /\ Len(w) = Len(u) + 1 /\ DOMAIN w = 1..Len(u) + 1
            /\ \A i \in 1..Len(u) : w[i] = u[i]
            /\ w[Len(u) + 1] = v[n]
        BY <3>4, <3>6, <4>1
      <4>3. From(w, n)
        <5> TAKE j \in DOMAIN w
        <5>1. CASE j = Len(u) + 1
          BY <3>1, <4>2, <5>1
        <5>2. CASE j # Len(u) + 1
          <6>1. j \in DOMAIN u /\ w[j] = u[j]
            BY <3>4, <4>2, <5>2
          <6> QED
            BY <3>5, <3>6, <6>1
        <5> QED
          BY <5>1, <5>2
      <4>4. Ordered(w)
        <5> SUFFICES ASSUME NEW i \in DOMAIN w, NEW j \in DOMAIN w, i < j, w[i] > 0, w[j] > 0
                     PROVE  w[i] < w[j]
          BY DEF Ordered
        <5>1. i \in DOMAIN u /\ w[i] = u[i]
          BY <3>4, <4>2
        <5>2. CASE j = Len(u) + 1
          <6>1. PICK k \in 1..n - 1 : u[i] = v[k]
            BY <3>5, <5>1
          <6>2. k \in DOMAIN v /\ n \in DOMAIN v /\ k < n
            BY <1>1, <3>1
          <6> QED
            BY <4>2, <5>1, <5>2, <6>1, <6>2 DEF Ordered
        <5>3. CASE j # Len(u) + 1
          <6>1. j \in DOMAIN u /\ w[j] = u[j]
            BY <3>4, <4>2, <5>3
          <6> QED
            BY <3>5, <5>1, <6>1 DEF Ordered
        <5> QED
          BY <5>2, <5>3
      <4>5. Less(w, n)
        <5> SUFFICES ASSUME NEW i \in 1..n, v[i] \in S PROVE Len(w) < n
          OBVIOUS
        <5>1. i \in 1..n - 1
          BY <3>6, <3>8
        <5>2. Len(u) < n - 1
          BY <3>5, <5>1
        <5> QED
          BY <3>1, <3>4, <4>2, <5>2
      <4>6. Same(w, n)
        <5> SUFFICES ASSUME \A i \in 1..n : v[i] \notin S
                     PROVE  Len(w) = n /\ \A i \in 1..n : w[i] = v[i]
          OBVIOUS
        <5>1. Len(u) = n - 1 /\ \A i \in 1..n - 1 : u[i] = v[i]
          BY <3>5, <3>6
        <5> QED
          BY <3>1, <3>6, <4>2, <5>1
      <4>7. Len(w) <= n
        BY <3>1, <3>4, <4>2
      <4> QED
        BY <2>2, <4>2, <4>3, <4>4, <4>5, <4>6, <4>7 DEF w
    <3> QED
      BY <3>7, <3>8
  <2> QED
    BY <2>3, <2>4
<1>4. Good(Drop(v, S), Len(v))
  <2>1. Len(v) \in 0..Len(v)
    BY <1>1
  <2> HIDE DEF Good
  <2> QED
    BY <1>2, <1>3, <2>1
<1> DEFINE d == Drop(v, S)
<1>5. d \in Seq(T) /\ Ordered(d) /\ Len(d) <= Len(v) /\ Less(d, Len(v)) /\ Same(d, Len(v))
  BY <1>4
<1> HIDE DEF d
<1>6. ASSUME \A i \in 1..Len(v) : v[i] \notin S PROVE d = v
  <2>1. Len(d) = Len(v) /\ \A i \in 1..Len(v) : d[i] = v[i]
    BY <1>5, <1>6
  <2> QED
    BY <1>5, <2>1
<1> QED
  BY <1>1, <1>5, <1>6 DEF d

(* What is left is what is not dropped, each once if it was there once.    *)
LEMMA DropLeaves ==
  ASSUME NEW T, NEW v \in Seq(T), NEW S
  PROVE  /\ ToSet(Drop(v, S)) = ToSet(v) \ S
         /\ Distinct(v) => Distinct(Drop(v, S))
<1>1. Len(v) \in Nat /\ DOMAIN v = 1..Len(v) /\ \A i \in 1..Len(v) : v[i] \in T
  OBVIOUS
<1>2. PICK f : /\ f[0] = << >>
               /\ \A n \in 1..Len(v) :
                    f[n] = IF v[n] \in S THEN f[n - 1] ELSE Append(f[n - 1], v[n])
               /\ Drop(v, S) = f[Len(v)]
  BY <1>1, DropIs
<1> DEFINE From(u, n) == \A j \in DOMAIN u : u[j] \notin S /\ \E i \in 1..n : u[j] = v[i]
           Has(u, n) == \A i \in 1..n : v[i] \notin S => \E j \in DOMAIN u : u[j] = v[i]
           Good(u, n) == /\ u \in Seq(T) /\ From(u, n) /\ Has(u, n)
                         /\ Distinct(v) => Distinct(u)
           Bad == {n \in 0..Len(v) : ~Good(f[n], n)}
<1>3. Bad = {}
  <2> SUFFICES ASSUME Bad # {} PROVE FALSE
    OBVIOUS
  <2>1. PICK n \in Bad : \A l \in Bad : n <= l
    <3>1. Bad \in SUBSET Nat
      BY <1>1
    <3> HIDE DEF Bad
    <3> QED
      BY <3>1, LeastOf
  <2>2. n \in 0..Len(v) /\ ~Good(f[n], n)
    BY <2>1
  <2>3. CASE n = 0
    <3>1. f[n] = << >>
      BY <1>2, <2>3
    <3>2. Good(<< >>, 0)
      BY DEF Distinct
    <3> HIDE DEF Good
    <3> QED
      BY <2>2, <2>3, <3>1, <3>2
  <2>4. CASE n # 0
    <3> DEFINE u == f[n - 1]
               w == f[n]
    <3>1. n \in 1..Len(v) /\ n - 1 \in 0..Len(v) /\ ~(n <= n - 1) /\ n \in Nat
      BY <1>1, <2>2, <2>4
    <3>2. Good(u, n - 1)
      <4> HIDE DEF Good
      <4> QED
        BY <2>1, <3>1
    <3>3. w = IF v[n] \in S THEN u ELSE Append(u, v[n])
      BY <1>2, <3>1
    <3>4. u \in Seq(T) /\ Len(u) \in Nat /\ DOMAIN u = 1..Len(u)
      BY <3>2
    <3>5. From(u, n - 1) /\ Has(u, n - 1) /\ (Distinct(v) => Distinct(u))
      BY <3>2
    <3>6. 1..n = (1..n - 1) \union {n} /\ v[n] \in T
      BY <1>1, <3>1
    <3> HIDE DEF u, w
    <3>7. CASE v[n] \in S
      <4>1. w = u
        BY <3>3, <3>7
      <4>2. From(u, n) /\ Has(u, n)
        BY <3>5, <3>6, <3>7
      <4>3. Good(u, n)
        BY <3>4, <3>5, <4>2
      <4> HIDE DEF Good
      <4> QED
        BY <2>2, <4>1, <4>3 DEF w
    <3>8. CASE v[n] \notin S
      <4>1. w = Append(u, v[n])
        BY <3>3, <3>8
      <4>2. /\ w \in Seq(T) /\ DOMAIN w = 1..Len(u) + 1
            /\ \A i \in 1..Len(u) : w[i] = u[i]
            /\ w[Len(u) + 1] = v[n]
        BY <3>4, <3>6, <4>1
      <4>3. From(w, n)
        <5> TAKE j \in DOMAIN w
        <5>1. CASE j = Len(u) + 1
          BY <3>1, <3>8, <4>2, <5>1
        <5>2. CASE j # Len(u) + 1
          <6>1. j \in DOMAIN u /\ w[j] = u[j]
            BY <3>4, <4>2, <5>2
          <6> QED
            BY <3>5, <3>6, <6>1
        <5> QED
          BY <5>1, <5>2
      <4>4. Has(w, n)
        <5> SUFFICES ASSUME NEW i \in 1..n, v[i] \notin S PROVE \E j \in DOMAIN w : w[j] = v[i]
          OBVIOUS
        <5>1. CASE i = n
          <6>1. Len(u) + 1 \in DOMAIN w
            BY <3>4, <4>2
          <6> QED
            BY <4>2, <5>1, <6>1
        <5>2. CASE i # n
          <6>1. PICK j \in DOMAIN u : u[j] = v[i]
            BY <3>5, <3>6, <5>2
          <6>2. j \in DOMAIN w /\ w[j] = u[j]
            BY <3>4, <4>2
          <6> QED
            BY <6>1, <6>2
        <5> QED
          BY <5>1, <5>2
      <4>5. Distinct(v) => Distinct(w)
        <5> SUFFICES ASSUME Distinct(v), NEW i \in DOMAIN w, NEW j \in DOMAIN w, w[i] = w[j]
                     PROVE  i = j
          BY DEF Distinct
        <5>1. ASSUME NEW x \in DOMAIN u PROVE u[x] # v[n]
          <6>1. PICK y \in 1..n - 1 : u[x] = v[y]
            BY <3>5
          <6>2. y \in DOMAIN v /\ n \in DOMAIN v /\ y # n
            BY <1>1, <3>1
          <6> QED
            BY <6>1, <6>2 DEF Distinct
        <5>2. \A x \in DOMAIN w : x = Len(u) + 1 \/ (x \in DOMAIN u /\ w[x] = u[x])
          BY <3>4, <4>2
        <5>3. CASE i = Len(u) + 1 \/ j = Len(u) + 1
          BY <4>2, <5>1, <5>2, <5>3
        <5>4. CASE i # Len(u) + 1 /\ j # Len(u) + 1
          BY <3>5, <5>2, <5>4 DEF Distinct
        <5> QED
          BY <5>3, <5>4
      <4> QED
        BY <2>2, <4>2, <4>3, <4>4, <4>5 DEF w
    <3> QED
      BY <3>7, <3>8
  <2> QED
    BY <2>3, <2>4
<1> DEFINE d == Drop(v, S)
<1>4. Good(d, Len(v))
  <2>1. Len(v) \in 0..Len(v)
    BY <1>1
  <2> HIDE DEF Good
  <2> QED
    BY <1>2, <1>3, <2>1
<1> HIDE DEF d
<1>5. ToSet(d) = ToSet(v) \ S
  <2>1. From(d, Len(v)) /\ Has(d, Len(v))
    BY <1>4
  <2>2. ASSUME NEW x \in ToSet(d) PROVE x \in ToSet(v) \ S
    BY <1>1, <2>1, <2>2 DEF ToSet
  <2>3. ASSUME NEW x \in ToSet(v) \ S PROVE x \in ToSet(d)
    <3>1. PICK i \in 1..Len(v) : x = v[i]
      BY <1>1, <2>3 DEF ToSet
    <3>2. PICK j \in DOMAIN d : d[j] = v[i]
      BY <2>1, <2>3, <3>1
    <3> QED
      BY <3>1, <3>2 DEF ToSet
  <2> QED
    BY <2>2, <2>3
<1> QED
  BY <1>4, <1>5 DEF d
------------------------------------------------------------------------------
(* The enforcement of the properties                                       *)

(* An objection is about events of the view.                               *)
LEMMA ObjectionShown == \A v : Objection(v) \subseteq ToSet(v)
<1> TAKE v
<1>1. Repeated(v) \subseteq ToSet(v)
  BY DEF Repeated, ToSet
<1>2. TornBatches(v) \subseteq ToSet(v) /\ Unpaired(v) \subseteq ToSet(v)
  BY DEF TornBatches, Unpaired
<1>3. TornLoops(v) \subseteq ToSet(v)
  BY DEF TornLoops
<1> QED
  BY <1>1, <1>2, <1>3 DEF Objection

(* The rounds of enforce_properties(): the function that Enforced names is *)
(* the one it says it is.                                                  *)
Rounds(v, f, m) ==
  f = [n \in 0..m |-> IF n = 0 THEN v ELSE Drop(f[n - 1], Objection(f[n - 1]))]

(* There is such a function.                                               *)
LEMMA RoundsExist ==
  ASSUME NEW v, NEW n \in Nat
  PROVE  \E f : Rounds(v, f, n)
<1> DEFINE Without == {m \in Nat : ~(\E f : Rounds(v, f, m))}
           After(u) == Drop(u, Objection(u))
<1>1. SUFFICES ASSUME Without # {} PROVE FALSE
  OBVIOUS
<1>2. PICK m \in Without : \A l \in Without : m <= l
  <2>1. Without \in SUBSET Nat
    OBVIOUS
  <2> HIDE DEF Without
  <2> QED
    BY <1>1, <2>1, LeastOf
<1>3. m \in Nat /\ ~(\E f : Rounds(v, f, m))
  BY <1>2
<1>4. CASE m = 0
  <2>1. Rounds(v, [k \in 0..m |-> v], m)
    BY <1>4 DEF Rounds
  <2> QED
    BY <1>3, <2>1
<1>5. CASE m > 0
  <2>1. PICK g : Rounds(v, g, m - 1)
    <3>1. m - 1 \in Nat /\ ~(m <= m - 1)
      BY <1>3, <1>5
    <3>2. m - 1 \notin Without
      BY <1>2, <3>1
    <3> QED
      BY <3>1, <3>2
  <2> DEFINE h == [k \in 0..m |-> IF k = m THEN After(g[m - 1]) ELSE g[k]]
  <2>2. \A k \in 0..m - 1 : g[k] = IF k = 0 THEN v ELSE After(g[k - 1])
    BY <2>1 DEF Rounds
  <2> HIDE DEF After
  <2>3. \A k \in 0..m : h[k] = IF k = 0 THEN v ELSE After(h[k - 1])
    <3> SUFFICES ASSUME NEW k \in 0..m
                 PROVE  h[k] = IF k = 0 THEN v ELSE After(h[k - 1])
      OBVIOUS
    <3>1. CASE k = 0
      BY <1>3, <1>5, <2>2, <3>1
    <3>2. CASE k # 0
      <4>1. k - 1 \in 0..m /\ k - 1 # m /\ h[k - 1] = g[k - 1]
        BY <1>3, <3>2
      <4>2. CASE k = m
        BY <3>2, <4>1, <4>2
      <4>3. CASE k # m
        BY <1>3, <2>2, <3>2, <4>1, <4>3
      <4> QED
        BY <4>2, <4>3
    <3> QED
      BY <3>1, <3>2
  <2>4. h = [k \in 0..m |-> h[k]]
    OBVIOUS
  <2> HIDE DEF h
  <2>5. h = [k \in 0..m |-> IF k = 0 THEN v ELSE After(h[k - 1])]
    BY <2>3, <2>4
  <2>6. Rounds(v, h, m)
    BY <2>5 DEF Rounds, After
  <2> QED
    BY <1>3, <2>6
<1> QED
  BY <1>3, <1>4, <1>5

(* What the enforcement gives, round by round.                             *)
LEMMA EnforcedIs ==
  ASSUME NEW v, Len(v) \in Nat
  PROVE  \E f : /\ f[0] = v
                /\ \A n \in 1..Len(v) : f[n] = Drop(f[n - 1], Objection(f[n - 1]))
                /\ Enforced(v) = f[Len(v)]
<1> DEFINE Said(f) ==
             f = [n \in 0..Len(v) |->
                    IF n = 0 THEN v
                    ELSE CHOOSE w \in {Drop(u, Objection(u)) : u \in {f[n - 1]}} : TRUE]
           f == CHOOSE f : Said(f)
<1>1. \A g : Rounds(v, g, Len(v)) <=> Said(g)
  <2>1. \A x : (CHOOSE w \in {Drop(u, Objection(u)) : u \in {x}} : TRUE) = Drop(x, Objection(x))
    OBVIOUS
  <2> QED
    BY <2>1 DEF Rounds
<1>2. Enforced(v) = f[Len(v)]
  BY DEF Enforced
<1> HIDE DEF Said
<1>3. Said(f)
  BY <1>1, RoundsExist
<1> HIDE DEF f
<1>4. Rounds(v, f, Len(v))
  BY <1>1, <1>3
<1>5. f[0] = v
  BY <1>4 DEF Rounds
<1>6. \A n \in 1..Len(v) : f[n] = Drop(f[n - 1], Objection(f[n - 1]))
  <2> TAKE n \in 1..Len(v)
  <2>1. n \in 0..Len(v) /\ n # 0
    OBVIOUS
  <2> QED
    BY <1>4, <2>1 DEF Rounds
<1> QED
  BY <1>2, <1>5, <1>6

(* No property objects to what is left, which is in the order of what was  *)
(* there.                                                                  *)
LEMMA EnforcedKeeps ==
  ASSUME NEW T \in SUBSET Int, NEW v \in Seq(T), Ordered(v)
  PROVE  /\ Enforced(v) \in Seq(T)
         /\ Ordered(Enforced(v))
         /\ Objection(Enforced(v)) = {}
<1>1. Len(v) \in Nat
  OBVIOUS
<1>2. PICK f : /\ f[0] = v
               /\ \A n \in 1..Len(v) : f[n] = Drop(f[n - 1], Objection(f[n - 1]))
               /\ Enforced(v) = f[Len(v)]
  BY <1>1, EnforcedIs
<1> DEFINE Good(u, n) == /\ u \in Seq(T) /\ Ordered(u)
                         /\ Objection(u) = {} \/ Len(u) <= Len(v) - n
           Bad == {n \in 0..Len(v) : ~Good(f[n], n)}
<1>3. Bad = {}
  <2> SUFFICES ASSUME Bad # {} PROVE FALSE
    OBVIOUS
  <2>1. PICK n \in Bad : \A l \in Bad : n <= l
    <3>1. Bad \in SUBSET Nat
      BY <1>1
    <3> HIDE DEF Bad
    <3> QED
      BY <3>1, LeastOf
  <2>2. n \in 0..Len(v) /\ ~Good(f[n], n)
    BY <2>1
  <2>3. CASE n = 0
    <3>1. Good(v, 0)
      BY <1>1
    <3> HIDE DEF Good
    <3> QED
      BY <1>2, <2>2, <2>3, <3>1
  <2>4. CASE n # 0
    <3> DEFINE u == f[n - 1]
               S == Objection(u)
    <3>1. n \in 1..Len(v) /\ n - 1 \in 0..Len(v) /\ ~(n <= n - 1) /\ n \in Nat
      BY <1>1, <2>2, <2>4
    <3>2. Good(u, n - 1)
      <4> HIDE DEF Good
      <4> QED
        BY <2>1, <3>1
    <3>3. f[n] = Drop(u, S)
      BY <1>2, <3>1
    <3>4. u \in Seq(T) /\ Ordered(u)
      BY <3>2
    <3>5. S = {} \/ Len(u) <= Len(v) - (n - 1)
      BY <3>2
    <3> HIDE DEF u
    <3>6. CASE S = {}
      <4>1. Drop(u, S) = u
        BY <3>4, <3>6, DropKeeps
      <4>2. Good(Drop(u, S), n)
        BY <3>4, <3>6, <4>1
      <4> HIDE DEF Good
      <4> QED
        BY <2>2, <3>3, <4>2
    <3>7. CASE S # {}
      <4>1. \E i \in DOMAIN u : u[i] \in S
        <5>1. S \subseteq ToSet(u)
          BY ObjectionShown
        <5> QED
          BY <3>7, <5>1 DEF ToSet
      <4> HIDE DEF S
      <4>2. Drop(u, S) \in Seq(T) /\ Ordered(Drop(u, S)) /\ Len(Drop(u, S)) < Len(u)
        BY <3>4, <4>1, DropKeeps
      <4>3. Len(Drop(u, S)) \in Nat /\ Len(u) \in Nat
        BY <3>4, <4>2
      <4>4. Len(Drop(u, S)) <= Len(v) - n
        BY <1>1, <3>1, <3>5, <3>7, <4>2, <4>3
      <4>5. Good(Drop(u, S), n)
        BY <4>2, <4>4
      <4> HIDE DEF Good
      <4> QED
        BY <2>2, <3>3, <4>5
    <3> QED
      BY <3>6, <3>7
  <2> QED
    BY <2>3, <2>4
<1> DEFINE w == Enforced(v)
<1>4. Good(w, Len(v))
  <2>1. Len(v) \in 0..Len(v)
    BY <1>1
  <2> HIDE DEF Good
  <2> QED
    BY <1>2, <1>3, <2>1
<1>5. w \in Seq(T) /\ Ordered(w) /\ (Objection(w) = {} \/ Len(w) <= 0)
  BY <1>1, <1>4
<1> HIDE DEF w
<1>6. ASSUME Len(w) <= 0 PROVE Objection(w) = {}
  <2>1. ToSet(w) = {}
    BY <1>5, <1>6 DEF ToSet
  <2> QED
    BY <2>1, ObjectionShown
<1> QED
  BY <1>5, <1>6 DEF w

(* Where no property objects, nothing is dropped.                          *)
LEMMA EnforcedNothing ==
  ASSUME NEW T \in SUBSET Int, NEW v \in Seq(T), Ordered(v), Objection(v) = {}
  PROVE  Enforced(v) = v
<1>1. Len(v) \in Nat
  OBVIOUS
<1>2. PICK f : /\ f[0] = v
               /\ \A n \in 1..Len(v) : f[n] = Drop(f[n - 1], Objection(f[n - 1]))
               /\ Enforced(v) = f[Len(v)]
  BY <1>1, EnforcedIs
<1>3. Drop(v, {}) = v
  BY DropKeeps
<1> DEFINE Bad == {n \in 0..Len(v) : f[n] # v}
<1>4. Bad = {}
  <2> SUFFICES ASSUME Bad # {} PROVE FALSE
    OBVIOUS
  <2>1. PICK n \in Bad : \A l \in Bad : n <= l
    <3>1. Bad \in SUBSET Nat
      BY <1>1
    <3> HIDE DEF Bad
    <3> QED
      BY <3>1, LeastOf
  <2>2. n \in 0..Len(v) /\ f[n] # v /\ n # 0
    BY <1>2, <2>1
  <2>3. n \in 1..Len(v) /\ n - 1 \in 0..Len(v) /\ ~(n <= n - 1)
    BY <1>1, <2>2
  <2>4. f[n - 1] = v
    BY <2>1, <2>3
  <2> QED
    BY <1>2, <1>3, <2>2, <2>3, <2>4
<1> QED
  BY <1>1, <1>2, <1>4

(* In a view in the order of the history, the second observations are      *)
(* those that are later in the history.                                    *)
LEMMA RepeatedIs ==
  ASSUME NEW v \in Seq(Ids), Ordered(v)
  PROVE  Repeated(v) = RepeatedIn(ToSet(v))
<1>1. Len(v) \in Nat /\ DOMAIN v = 1..Len(v) /\ \A i \in DOMAIN v : v[i] \in Ids
  OBVIOUS
<1>2. \A id \in Ids : Is(id, "observation") => id > 0 /\ id \in Int
  BY DEF Ids, Is, Kind
<1>3. ASSUME NEW o \in Repeated(v) PROVE o \in RepeatedIn(ToSet(v))
  <2>1. PICK q \in DOMAIN v : /\ o = v[q] /\ Is(v[q], "observation")
                              /\ \E f \in 1..q - 1 : /\ Is(v[f], "observation")
                                                     /\ log[v[f]].of = log[v[q]].of
    BY <1>3 DEF Repeated
  <2>2. PICK f \in 1..q - 1 : Is(v[f], "observation") /\ log[v[f]].of = log[v[q]].of
    BY <2>1
  <2>3. f \in DOMAIN v /\ f < q
    BY <1>1
  <2>4. v[f] < v[q]
    BY <1>1, <1>2, <2>1, <2>2, <2>3 DEF Ordered
  <2>5. v[f] \in ToSet(v) /\ v[q] \in ToSet(v)
    BY <2>3 DEF ToSet
  <2> QED
    BY <2>1, <2>2, <2>4, <2>5 DEF RepeatedIn
<1>4. ASSUME NEW o \in RepeatedIn(ToSet(v)) PROVE o \in Repeated(v)
  <2>1. /\ o \in ToSet(v) /\ Is(o, "observation")
        /\ \E f \in ToSet(v) : f < o /\ Is(f, "observation") /\ log[f].of = log[o].of
    BY <1>4 DEF RepeatedIn
  <2>2. PICK q \in DOMAIN v : v[q] = o
    BY <2>1 DEF ToSet
  <2>3. PICK g \in ToSet(v) : g < o /\ Is(g, "observation") /\ log[g].of = log[o].of
    BY <2>1
  <2>4. PICK f \in DOMAIN v : v[f] = g
    BY <2>3 DEF ToSet
  <2>5. g > 0 /\ o > 0 /\ g \in Int /\ o \in Int
    BY <1>1, <1>2, <2>1, <2>2, <2>3, <2>4
  <2>6. ~(q < f) /\ q # f
    BY <2>2, <2>3, <2>4, <2>5 DEF Ordered
  <2>7. f \in 1..q - 1
    BY <1>1, <2>6
  <2> QED
    BY <2>1, <2>2, <2>3, <2>4, <2>7 DEF Repeated
<1> QED
  BY <1>3, <1>4

(* No property objects to a view that is whole and has no second           *)
(* observation, and to no other.                                           *)
LEMMA WholeIs ==
  ASSUME NEW v \in Seq(Ids), Ordered(v)
  PROVE  Objection(v) = {} <=> RepeatedIn(ToSet(v)) = {} /\ Whole(ToSet(v))
<1>1. Objection(v) = {} <=> /\ Repeated(v) = {} /\ TornBatches(v) = {}
                            /\ Unpaired(v) = {} /\ TornLoops(v) = {}
  BY DEF Objection
<1>2. TornBatches(v) = {} <=> \A id \in ToSet(v) : Is(id, "action") => Batch(log[id].resp) \subseteq ToSet(v)
  BY DEF TornBatches
<1>3. Unpaired(v) = {} <=>
        /\ \A id \in ToSet(v) : Is(id, "action") => Answers(id) \cap ToSet(v) # {}
        /\ \A id \in ToSet(v) : Is(id, "observation") => log[id].of \in ToSet(v)
  BY DEF Unpaired
<1>4. TornLoops(v) = {} <=>
        \A i \in DOMAIN log : Thinks(i) /\ Loop(i) \cap ToSet(v) # {} => Loop(i) \subseteq ToSet(v)
  BY DEF TornLoops
<1>5. Repeated(v) = RepeatedIn(ToSet(v))
  BY RepeatedIs
<1> QED
  BY <1>1, <1>2, <1>3, <1>4, <1>5 DEF Whole

(* What is whole stays when a property objects to what is around it.       *)
LEMMA ObjectionSpares ==
  ASSUME NEW v, NEW Y \in SUBSET ToSet(v), Whole(Y), Y \cap Repeated(v) = {}
  PROVE  Y \cap Objection(v) = {}
<1>1. Y \cap TornBatches(v) = {}
  BY DEF TornBatches, Whole
<1>2. Y \cap Unpaired(v) = {}
  BY DEF Unpaired, Whole
<1>3. Y \cap TornLoops(v) = {}
  <2> SUFFICES ASSUME NEW y \in Y, y \in TornLoops(v) PROVE FALSE
    OBVIOUS
  <2>1. PICK i \in DOMAIN log : Thinks(i) /\ ~(Loop(i) \subseteq ToSet(v)) /\ y \in Loop(i)
    BY DEF TornLoops
  <2>2. Loop(i) \subseteq Y
    BY <2>1 DEF Whole
  <2> QED
    BY <2>1, <2>2
<1> QED
  BY <1>1, <1>2, <1>3 DEF Objection

(* So the rounds drop the second observations and leave every whole part   *)
(* of the rest.                                                            *)
LEMMA EnforcedLargest ==
  ASSUME NEW v \in Seq(Ids), Ordered(v), Distinct(v)
  PROVE  /\ Distinct(Enforced(v))
         /\ ToSet(Enforced(v)) \subseteq ToSet(v) \ RepeatedIn(ToSet(v))
         /\ \A Y \in SUBSET (ToSet(v) \ RepeatedIn(ToSet(v))) :
              Whole(Y) => Y \subseteq ToSet(Enforced(v))
<1> DEFINE R == RepeatedIn(ToSet(v))
<1>1. Len(v) \in Nat
  OBVIOUS
<1>2. PICK f : /\ f[0] = v
               /\ \A n \in 1..Len(v) : f[n] = Drop(f[n - 1], Objection(f[n - 1]))
               /\ Enforced(v) = f[Len(v)]
  BY <1>1, EnforcedIs
<1>3. Ids \in SUBSET Int
  BY DEF Ids
<1>4. Repeated(v) = R
  BY RepeatedIs
<1> HIDE DEF R
<1> DEFINE Spared(u) == \A Y \in SUBSET (ToSet(v) \ R) : Whole(Y) => Y \subseteq ToSet(u)
           Good(u, n) == /\ u \in Seq(Ids) /\ Ordered(u) /\ Distinct(u)
                         /\ ToSet(u) \subseteq ToSet(v)
                         /\ IF n = 0 THEN u = v ELSE ToSet(u) \cap R = {}
                         /\ Spared(u)
           Bad == {n \in 0..Len(v) : ~Good(f[n], n)}
<1>5. Bad = {}
  <2> SUFFICES ASSUME Bad # {} PROVE FALSE
    OBVIOUS
  <2>1. PICK n \in Bad : \A l \in Bad : n <= l
    <3>1. Bad \in SUBSET Nat
      BY <1>1
    <3> HIDE DEF Bad
    <3> QED
      BY <3>1, LeastOf
  <2>2. n \in 0..Len(v) /\ ~Good(f[n], n)
    BY <2>1
  <2>3. CASE n = 0
    <3>1. Good(v, 0)
      OBVIOUS
    <3> HIDE DEF Good
    <3> QED
      BY <1>2, <2>2, <2>3, <3>1
  <2>4. CASE n # 0
    <3> DEFINE u == f[n - 1]
               S == Objection(u)
               w == Drop(u, S)
    <3>1. n \in 1..Len(v) /\ n - 1 \in 0..Len(v) /\ ~(n <= n - 1)
      BY <1>1, <2>2, <2>4
    <3>2. Good(u, n - 1)
      <4> HIDE DEF Good
      <4> QED
        BY <2>1, <3>1
    <3>3. f[n] = w
      BY <1>2, <3>1
    <3>4. u \in Seq(Ids) /\ Ordered(u) /\ Distinct(u) /\ ToSet(u) \subseteq ToSet(v) /\ Spared(u)
      BY <3>2
    <3>5. IF n - 1 = 0 THEN u = v ELSE ToSet(u) \cap R = {}
      BY <3>2
    <3> HIDE DEF u
    <3>6. Repeated(u) \subseteq R
      <4>1. Repeated(u) = RepeatedIn(ToSet(u))
        BY <3>4, RepeatedIs
      <4>2. RepeatedIn(ToSet(u)) \subseteq RepeatedIn(ToSet(v))
        BY <3>4 DEF RepeatedIn
      <4> QED
        BY <4>1, <4>2 DEF R
    <3>7. ToSet(w) = ToSet(u) \ S /\ Distinct(w)
      <4> HIDE DEF S
      <4> QED
        BY <3>4, DropLeaves
    <3>8. w \in Seq(Ids) /\ Ordered(w)
      <4> HIDE DEF S
      <4> QED
        BY <1>3, <3>4, DropKeeps
    <3>9. ToSet(w) \cap R = {}
      <4>1. CASE n - 1 = 0
        <5>1. u = v
          BY <3>5, <4>1
        <5>2. R \subseteq S
          BY <1>4, <5>1 DEF Objection
        <5> QED
          BY <3>7, <5>2
      <4>2. CASE n - 1 # 0
        BY <3>5, <3>7, <4>2
      <4> QED
        BY <4>1, <4>2
    <3>10. Spared(w)
      <4> SUFFICES ASSUME NEW Y \in SUBSET (ToSet(v) \ R), Whole(Y) PROVE Y \subseteq ToSet(w)
        OBVIOUS
      <4>1. Y \subseteq ToSet(u)
        BY <3>4
      <4>2. Y \cap Repeated(u) = {}
        BY <3>6
      <4>3. Y \cap S = {}
        BY <4>1, <4>2, ObjectionSpares
      <4> QED
        BY <3>7, <4>1, <4>3
    <3> HIDE DEF w
    <3>11. Good(w, n)
      BY <2>4, <3>4, <3>7, <3>8, <3>9, <3>10
    <3> HIDE DEF Good
    <3> QED
      BY <2>2, <3>3, <3>11
  <2> QED
    BY <2>3, <2>4
<1> DEFINE w == Enforced(v)
<1>6. Good(w, Len(v))
  <2>1. Len(v) \in 0..Len(v)
    BY <1>1
  <2> HIDE DEF Good
  <2> QED
    BY <1>2, <1>5, <2>1
<1> HIDE DEF w
<1>7. Distinct(w) /\ ToSet(w) \subseteq ToSet(v) /\ Spared(w)
  BY <1>6
<1>8. ToSet(w) \cap R = {}
  <2>1. CASE Len(v) = 0
    <3>1. ToSet(v) = {}
      BY <2>1 DEF ToSet
    <3> QED
      BY <1>7, <3>1
  <2>2. CASE Len(v) # 0
    BY <1>6, <2>2
  <2> QED
    BY <2>1, <2>2
<1> QED
  BY <1>7, <1>8 DEF R, w
------------------------------------------------------------------------------
(* What the LLM is shown                                                   *)

(* A view that no property objects to and that is in the order of the      *)
(* history is coherent: that the call of an observation comes before it no *)
(* property of the view enforces, and it holds because the history has     *)
(* them in that order.  What condensation may insert is another matter.    *)
LEMMA Coherent ==
  ASSUME LogInv, ViewInv, Orderly => NothingInserted
  PROVE  PromptIsCoherent
<1> DEFINE shown == ToSet(view)
<1>1. Repeated(view) = {} /\ TornBatches(view) = {} /\ Unpaired(view) = {} /\ TornLoops(view) = {}
  BY DEF Objection, ViewInv
<1>2. /\ \A p \in DOMAIN view : view[p] \in shown /\ view[p] \in Ids
      /\ \A id \in shown : id \in Ids /\ \E p \in DOMAIN view : view[p] = id
      /\ DOMAIN view = 1..Len(view) /\ Len(view) \in Nat
  <2>1. DOMAIN view = 1..Len(view) /\ Len(view) \in Nat /\ \A p \in DOMAIN view : view[p] \in Ids
    BY DEF ViewInv
  <2> HIDE DEF shown
  <2>2. shown = {view[p] : p \in DOMAIN view}
    BY DEF shown, ToSet
  <2> QED
    BY <2>1, <2>2
<1>3. DOMAIN log = 1..Len(log) /\ Len(log) \in Nat
  BY DEF LogInv
<1>4. \A id \in Ids : Is(id, "action") \/ Is(id, "observation") =>
        /\ id > 0 /\ id \in DOMAIN log
        /\ Kind(id) = log[id].kind
  BY <1>3 DEF Ids, Is, Kind
<1>5. \A i, o : o \in Answers(i) =>
        /\ o \in DOMAIN log /\ log[o].of = i /\ i < o /\ o \in Nat /\ i \in Nat
        /\ Is(o, "observation")
  <2> SUFFICES ASSUME NEW i, NEW o, o \in Answers(i)
               PROVE  /\ o \in DOMAIN log /\ log[o].of = i /\ i < o /\ o \in Nat /\ i \in Nat
                      /\ Is(o, "observation")
    OBVIOUS
  <2>1. o \in DOMAIN log /\ log[o].kind = "observation" /\ log[o].of = i
    BY DEF Answers
  <2>2. i \in 1..o - 1
    BY <2>1 DEF LogInv
  <2> QED
    BY <1>3, <2>1, <2>2 DEF Is, Kind
<1> HIDE DEF shown
<1>6. ASSUME NEW p \in DOMAIN view, Is(view[p], "action")
      PROVE  /\ Cardinality({q \in DOMAIN view : view[q] \in Answers(view[p])}) = 1
             /\ \A q \in DOMAIN view : view[q] \in Answers(view[p]) => q > p
  <2> DEFINE i == view[p]
             Q == {q \in DOMAIN view : view[q] \in Answers(i)}
  <2>1. i \in shown /\ i > 0 /\ i \in DOMAIN log
    BY <1>2, <1>4, <1>6
  <2>2. Answers(i) \cap shown # {}
    BY <1>1, <1>6, <2>1 DEF Unpaired, shown
  <2>3. PICK q \in DOMAIN view : view[q] \in Answers(i)
    BY <1>2, <2>2
  <2>4. ASSUME NEW a \in DOMAIN view, NEW b \in DOMAIN view, a < b,
               view[a] \in Answers(i), view[b] \in Answers(i)
        PROVE  FALSE
    <3>1. /\ Is(view[a], "observation") /\ Is(view[b], "observation")
          /\ log[view[a]].of = log[view[b]].of
      BY <1>5, <2>4
    <3>2. a \in 1..b - 1
      BY <1>2, <2>4
    <3>3. view[b] \in Repeated(view)
      BY <3>1, <3>2 DEF Repeated
    <3> QED
      BY <1>1, <3>3
  <2>5. \A a \in Q : a = q
    BY <1>2, <2>3, <2>4
  <2>6. Q = {q}
    BY <2>3, <2>5
  <2>7. Cardinality(Q) = 1
    BY <2>6, FS_Singleton
  <2>8. ASSUME NEW a \in DOMAIN view, view[a] \in Answers(i) PROVE a > p
    <3>1. i < view[a] /\ view[a] > 0 /\ view[a] \in Int /\ i \in Int
      BY <1>5, <2>1, <2>8
    <3>2. ASSUME a < p PROVE FALSE
      <4>1. view[a] < view[p]
        BY <2>1, <3>1, <3>2 DEF Ordered, ViewInv
      <4> QED
        BY <3>1, <4>1
    <3>3. a # p
      BY <3>1
    <3> QED
      BY <1>2, <3>2, <3>3
  <2> QED
    BY <2>7, <2>8
<1>7. ASSUME NEW p \in DOMAIN view, Is(view[p], "observation")
      PROVE  log[view[p]].of \in ToSet(view)
  BY <1>1, <1>2, <1>7 DEF Unpaired, shown
<1>8. ASSUME NEW i \in Actions, i \in ToSet(view)
      PROVE  Batch(log[i].resp) \subseteq ToSet(view)
  <2>1. Is(i, "action")
    BY <1>3 DEF Actions, Is, Kind
  <2> QED
    BY <1>1, <1>8, <2>1 DEF TornBatches
<1> QED
  BY <1>1, <1>6, <1>7, <1>8 DEF PromptIsCoherent

(* With the events replayed in order, the enforcement does the rest.       *)
LEMMA EnforcedView == EventsInv /\ view = Enforced(events) => ViewInv /\ ViewIsLargest
<1> SUFFICES ASSUME EventsInv, view = Enforced(events) PROVE ViewInv /\ ViewIsLargest
  OBVIOUS
<1>1. Ids \in SUBSET Int
  BY DEF Ids
<1>2. events \in Seq(Ids) /\ Ordered(events) /\ Distinct(events)
  BY DEF EventsInv
<1>3. view \in Seq(Ids) /\ Ordered(view) /\ Objection(view) = {}
  BY <1>1, <1>2, EnforcedKeeps
<1>4. /\ Distinct(view)
      /\ ToSet(view) \subseteq ToSet(events) \ RepeatedIn(ToSet(events))
      /\ \A Y \in SUBSET (ToSet(events) \ RepeatedIn(ToSet(events))) :
           Whole(Y) => Y \subseteq ToSet(view)
  BY <1>2, EnforcedLargest
<1>5. Whole(ToSet(view))
  BY <1>3, WholeIs
<1> QED
  BY <1>3, <1>4, <1>5 DEF ViewInv, ViewIsLargest

------------------------------------------------------------------------------
(* The steps                                                               *)

(* A history of one message, which no property objects to.                 *)
LEMMA InitHolds == Init => IInv
<1> SUFFICES ASSUME Init PROVE IInv
  OBVIOUS
<1> DEFINE m == [kind |-> "message"]
<1>1. log = <<m>> /\ events = <<1>> /\ view = <<1>>
  BY DEF Init
<1>2. m \in Entries
  BY DEF Entries, Plain
<1>3. LogInv
  BY <1>1, <1>2 DEF LogInv
<1>4. /\ Len(log) = 1 /\ DOMAIN log = {1} /\ log[1].kind = "message"
  BY <1>1
<1>5. EventsInv
  <2>1. 1 \in Ids
    BY <1>4 DEF Ids
  <2>2. events \in Seq(Ids)
    BY <1>1, <2>1
  <2>3. Ordered(events) /\ Distinct(events)
    BY <1>1 DEF Ordered, Distinct
  <2> QED
    BY <2>2, <2>3 DEF EventsInv
<1>6. ToSet(events) = {1} /\ ~Is(1, "action") /\ ~Is(1, "observation")
  BY <1>1, <1>4 DEF ToSet, Is, Kind
<1>7. Repeated(events) = {}
  BY <1>1, <1>6 DEF Repeated
<1>8. TornBatches(events) = {} /\ Unpaired(events) = {}
  BY <1>6 DEF TornBatches, Unpaired
<1>9. TornLoops(events) = {}
  BY <1>4, <1>6 DEF TornLoops, Thinks
<1>10. Objection(events) = {}
  BY <1>7, <1>8, <1>9 DEF Objection
<1>11. Ids \in SUBSET Int
  BY DEF Ids
<1>12. view = Enforced(events)
  BY <1>1, <1>5, <1>10, <1>11, EnforcedNothing DEF EventsInv
<1> QED
  BY <1>3, <1>5, <1>12, EnforcedView DEF IInv

(* New events come after those that are there, the ones that the LLM is    *)
(* shown among them in their order.                                        *)
LEMMA ExtendKeeps ==
  ASSUME LogInv, EventsInv, NEW es \in Seq(Plain), Extend(es), InOrder(es)
  PROVE  /\ IInv'
         /\ \A c \in DOMAIN log' \ DOMAIN log : log'[c].kind # "condensation"
<1> DEFINE n == Len(log)
           k == Len(es)
           base == [j \in DOMAIN es |-> n + j]
           hidden == {n + j : j \in {i \in DOMAIN es : ~Shown(es[i])}}
           tail == Drop(base, hidden)
<1>1. /\ log \in Seq(Entries) /\ n \in Nat /\ DOMAIN log = 1..n
      /\ k \in Nat /\ DOMAIN es = 1..k /\ es \in Seq(Entries)
  <2>1. Plain \subseteq Entries
    BY DEF Entries
  <2>2. es \in Seq(Entries)
    BY <2>1, SeqWidens
  <2> QED
    BY <2>2 DEF LogInv
<1>2. log' = log \o es /\ events' = events \o tail /\ view' = Enforced(events)'
  BY DEF Extend
<1>3. /\ log' \in Seq(Entries) /\ Len(log') = n + k /\ DOMAIN log' = 1..n + k
      /\ \A i \in 1..n : log'[i] = log[i]
      /\ \A i \in n + 1..n + k : log'[i] = es[i - n]
  BY <1>1, <1>2
<1>4. LogInv'
  <2>1. ASSUME NEW o \in DOMAIN log', log'[o].kind = "observation"
        PROVE  log'[o].of \in 1..o - 1 /\ log'[log'[o].of].kind = "action"
    <3>1. CASE o \in 1..n
      <4>1. log'[o] = log[o] /\ log[o].of \in 1..o - 1 /\ log[log[o].of].kind = "action"
        BY <1>1, <1>3, <2>1, <3>1 DEF LogInv
      <4>2. log'[log[o].of] = log[log[o].of]
        BY <1>1, <1>3, <3>1, <4>1
      <4> QED
        BY <4>1, <4>2
    <3>2. CASE o \notin 1..n
      <4> DEFINE j == o - n
      <4>1. o \in n + 1..n + k /\ j \in DOMAIN es /\ n + j = o
        BY <1>1, <1>3, <3>2
      <4>2. log'[o] = es[j]
        BY <1>3, <4>1
      <4> HIDE DEF j
      <4>3. CASE es[j].of \in Actions
        <5>1. es[j].of \in 1..n /\ log[es[j].of].kind = "action"
          BY <1>1, <4>3 DEF Actions
        <5>2. log'[es[j].of] = log[es[j].of]
          BY <1>3, <5>1
        <5> QED
          BY <1>1, <4>1, <4>2, <5>1, <5>2
      <4>4. CASE j > 1 /\ es[j - 1].kind = "action" /\ es[j].of = n + j - 1
        <5>1. o - 1 \in n + 1..n + k /\ (o - 1) - n = j - 1 /\ n + j - 1 = o - 1
          BY <1>1, <4>1, <4>4
        <5>2. log'[o - 1] = es[j - 1]
          BY <1>3, <5>1
        <5> QED
          BY <1>1, <4>1, <4>2, <4>4, <5>1, <5>2
      <4> QED
        BY <2>1, <4>1, <4>2, <4>3, <4>4 DEF InOrder
    <3> QED
      BY <3>1, <3>2
  <2> QED
    BY <1>3, <2>1 DEF LogInv
<1> DEFINE T == n + 1..n + k
<1>5. tail \in Seq(T) /\ Ordered(tail) /\ Distinct(tail)
  <2>1. base \in Seq(T) /\ Ordered(base) /\ Distinct(base)
    <3>1. base \in [1..k -> T]
      BY <1>1
    <3>2. base \in Seq(T)
      BY <1>1, <3>1
    <3>3. Ordered(base) /\ Distinct(base)
      BY <1>1 DEF Ordered, Distinct
    <3> QED
      BY <3>2, <3>3
  <2>2. T \in SUBSET Int
    BY <1>1
  <2> HIDE DEF base, hidden, T
  <2>3. tail \in Seq(T) /\ Ordered(tail)
    BY <2>1, <2>2, DropKeeps
  <2>4. Distinct(tail)
    BY <2>1, DropLeaves
  <2> QED
    BY <2>3, <2>4
<1> HIDE DEF tail
<1>6. Ids \subseteq Ids' /\ T \subseteq Ids'
  BY <1>1, <1>3 DEF Ids
<1>7. events \in Seq(Ids') /\ tail \in Seq(Ids')
  <2>1. events \in Seq(Ids) /\ tail \in Seq(T)
    BY <1>5 DEF EventsInv
  <2> HIDE DEF T
  <2> QED
    BY <1>6, <2>1, SeqWidens
<1>8. events' \in Seq(Ids')
  BY <1>2, <1>7
<1>9. Ordered(events)' /\ Distinct(events)'
  <2>1. /\ Len(events) \in Nat /\ DOMAIN events = 1..Len(events)
        /\ \A i \in DOMAIN events : events[i] \in Int /\ events[i] <= n
    BY <1>1 DEF EventsInv, Ids
  <2>2. /\ Len(tail) \in Nat /\ DOMAIN tail = 1..Len(tail)
        /\ \A i \in DOMAIN tail : tail[i] \in Int /\ tail[i] > n
    BY <1>1, <1>5
  <2>3. /\ DOMAIN events' = 1..Len(events) + Len(tail)
        /\ \A i \in DOMAIN events : events'[i] = events[i]
        /\ \A i \in Len(events) + 1..Len(events) + Len(tail) : events'[i] = tail[i - Len(events)]
    BY <1>2, <1>7, <2>1, <2>2
  <2>4. ASSUME NEW i \in DOMAIN events', NEW j \in DOMAIN events', i < j
        PROVE  /\ events'[i] # events'[j]
               /\ events'[i] > 0 /\ events'[j] > 0 => events'[i] < events'[j]
    <3>1. CASE j \in DOMAIN events
      <4>1. i \in DOMAIN events
        BY <2>1, <2>3, <2>4, <3>1
      <4>2. i # j /\ events'[i] = events[i] /\ events'[j] = events[j]
        BY <2>1, <2>3, <2>4, <3>1, <4>1
      <4> QED
        BY <2>4, <3>1, <4>1, <4>2 DEF EventsInv, Ordered, Distinct
    <3>2. CASE j \notin DOMAIN events
      <4>1. j - Len(events) \in DOMAIN tail /\ events'[j] = tail[j - Len(events)]
        BY <2>1, <2>2, <2>3, <3>2
      <4>2. CASE i \in DOMAIN events
        BY <1>1, <2>1, <2>2, <2>3, <4>1, <4>2
      <4>3. CASE i \notin DOMAIN events
        <5>1. i - Len(events) \in DOMAIN tail /\ events'[i] = tail[i - Len(events)]
          BY <2>1, <2>2, <2>3, <4>3
        <5>2. i - Len(events) < j - Len(events) /\ i - Len(events) # j - Len(events)
          BY <2>1, <2>3, <2>4
        <5> QED
          BY <1>5, <4>1, <5>1, <5>2 DEF Ordered, Distinct
      <4> QED
        BY <4>2, <4>3
    <3> QED
      BY <3>1, <3>2
  <2>5. Ordered(events)'
    BY <2>4 DEF Ordered
  <2>6. Distinct(events)'
    <3> SUFFICES ASSUME NEW i \in DOMAIN events', NEW j \in DOMAIN events', i # j
                 PROVE  events'[i] # events'[j]
      BY DEF Distinct
    <3>1. i < j \/ j < i
      BY <2>1, <2>2, <2>3
    <3> QED
      BY <2>4, <3>1
  <2> QED
    BY <2>5, <2>6
<1>10. EventsInv'
  BY <1>8, <1>9 DEF EventsInv
<1>11. ViewInv' /\ ViewIsLargest'
  <2>1. (view = Enforced(events))'
    BY <1>2
  <2> QED
    BY <1>10, <2>1, EnforcedView, PTL
<1>12. \A i \in DOMAIN log' \ DOMAIN log : log'[i].kind # "condensation"
  <2> SUFFICES ASSUME NEW i \in DOMAIN log' \ DOMAIN log PROVE log'[i].kind # "condensation"
    OBVIOUS
  <2>1. i - n \in DOMAIN es /\ log'[i] = es[i - n]
    BY <1>1, <1>3
  <2>2. es[i - n] \in Plain
    BY <2>1
  <2> QED
    BY <2>1, <2>2 DEF Plain
<1> QED
  BY <1>4, <1>10, <1>11, <1>12 DEF IInv

(* A condensation leaves the events in their order, whatever it forgets    *)
(* and wherever its summary is put.                                        *)
LEMMA ApplyKeeps ==
  ASSUME LogInv, EventsInv, NEW c, c.forgets \in SUBSET Int, c.offset \in Nat,
         NEW summary \in BOOLEAN, Apply(c, summary)
  PROVE  /\ IInv'
         /\ ToSet(events) \ c.forgets \subseteq ToSet(events)'
         /\ ToSet(events)' \subseteq (ToSet(events) \ c.forgets) \union {- Len(log')}
<1> DEFINE n == Len(log)
           kept == Drop(events, c.forgets)
           at == Min({c.offset, Len(kept)})
           e == [kind |-> "condensation", forgets |-> c.forgets]
<1>1. log \in Seq(Entries) /\ n \in Nat /\ DOMAIN log = 1..n
  BY DEF LogInv
<1>2. /\ log' = Append(log, e) /\ view' = Enforced(events)'
      /\ events' = IF summary THEN InsertAt(kept, at + 1, - Len(log')) ELSE kept
  BY DEF Apply
<1>3. e \in Entries
  BY DEF Entries
<1>4. /\ log' \in Seq(Entries) /\ Len(log') = n + 1 /\ DOMAIN log' = 1..n + 1
      /\ \A i \in 1..n : log'[i] = log[i]
      /\ log'[n + 1].kind = "condensation"
  BY <1>1, <1>2, <1>3
<1>5. LogInv'
  <2>1. ASSUME NEW o \in DOMAIN log', log'[o].kind = "observation"
        PROVE  log'[o].of \in 1..o - 1 /\ log'[log'[o].of].kind = "action"
    <3>1. o \in 1..n
      BY <1>1, <1>4, <2>1
    <3>2. log'[o] = log[o] /\ log[o].of \in 1..o - 1 /\ log[log[o].of].kind = "action"
      BY <1>1, <1>4, <2>1, <3>1 DEF LogInv
    <3>3. log'[log[o].of] = log[log[o].of]
      BY <1>1, <1>4, <3>1, <3>2
    <3> QED
      BY <3>2, <3>3
  <2> QED
    BY <1>4, <2>1 DEF LogInv
<1>6. /\ kept \in Seq(Ids) /\ Ordered(kept) /\ Distinct(kept)
      /\ ToSet(kept) = ToSet(events) \ c.forgets
  <2>1. Ids \in SUBSET Int
    BY DEF Ids
  <2>2. kept \in Seq(Ids) /\ Ordered(kept)
    BY <2>1, DropKeeps DEF EventsInv
  <2>3. ToSet(kept) = ToSet(events) \ c.forgets /\ Distinct(kept)
    BY DropLeaves DEF EventsInv
  <2> QED
    BY <2>2, <2>3
<1>7. /\ Ids \subseteq Ids' /\ Ids' \in SUBSET Int
      /\ - Len(log') \in Ids' /\ - Len(log') < 0 /\ - Len(log') \notin Ids
  BY <1>1, <1>4 DEF Ids
<1> HIDE DEF kept
<1>8. kept \in Seq(Ids')
  BY <1>6, <1>7, SeqWidens
<1>9. at \in 0..Len(kept)
  <2>1. Len(kept) \in Nat /\ c.offset \in Nat
    BY <1>6
  <2>2. at = IF c.offset <= Len(kept) THEN c.offset ELSE Len(kept)
    BY <2>1 DEF Min
  <2> QED
    BY <2>1, <2>2
<1>10. /\ events' \in Seq(Ids') /\ Ordered(events)' /\ Distinct(events)'
       /\ ToSet(kept) \subseteq ToSet(events)'
       /\ ToSet(events)' \subseteq ToSet(kept) \union {- Len(log')}
  <2> DEFINE new == events'
             S == Ids'
             id == - Len(log')
  <2>1. CASE ~summary
    <3>1. new = kept
      BY <1>2, <2>1
    <3> HIDE DEF new
    <3>2. Ordered(new) /\ Distinct(new) /\ ToSet(new) = ToSet(kept) /\ new \in Seq(S)
      BY <1>6, <1>8, <3>1
    <3> QED
      BY <3>2 DEF new, Ordered, Distinct, ToSet
  <2>2. CASE summary
    <3>1. new = InsertAt(kept, at + 1, id)
      BY <1>2, <2>2
    <3>2. S \in SUBSET Int /\ kept \in Seq(S) /\ id \in S /\ id < 0
      BY <1>7, <1>8
    <3>3. id \notin ToSet(kept)
      <4>1. \A i \in DOMAIN kept : kept[i] \in Ids
        BY <1>6
      <4> QED
        BY <1>7, <4>1 DEF ToSet
    <3> HIDE DEF at, new, S, id
    <3>4. new \in Seq(S) /\ Ordered(new)
      BY <1>6, <1>9, <3>1, <3>2, InsertAdds
    <3>5. ToSet(new) = ToSet(kept) \union {id} /\ Distinct(new)
      BY <1>6, <1>9, <3>1, <3>2, <3>3, InsertAdds
    <3> QED
      BY <3>4, <3>5 DEF new, S, id, Ordered, Distinct, ToSet
  <2> QED
    BY <2>1, <2>2
<1>11. EventsInv'
  BY <1>10 DEF EventsInv
<1>12. ViewInv' /\ ViewIsLargest'
  <2>1. (view = Enforced(events))'
    BY <1>2
  <2> QED
    BY <1>11, <2>1, EnforcedView, PTL
<1>13. /\ ToSet(events) \ c.forgets \subseteq ToSet(events)'
       /\ ToSet(events)' \subseteq (ToSet(events) \ c.forgets) \union {- Len(log')}
  BY <1>6, <1>10
<1> QED
  BY <1>5, <1>11, <1>12, <1>13 DEF IInv

(* find_next() gives an index of the view, if it gives one.                *)
LEMMA FindNextIs ==
  ASSUME Len(view) \in Nat, NEW t, FindNext(t) # None
  PROVE  FindNext(t) \in ManipulationIndices /\ FindNext(t) \in 0..Len(view)
<1> DEFINE S == {k \in ManipulationIndices : k >= t}
<1>1. S # {} /\ FindNext(t) = Min(S)
  BY DEF FindNext
<1>2. S \subseteq 0..Len(view) /\ S \subseteq ManipulationIndices
  BY DEF ManipulationIndices
<1>3. S \in SUBSET Nat
  BY <1>2
<1> HIDE DEF S
<1>4. \E x \in S : \A y \in S : x <= y
  BY <1>1, <1>3, LeastOf
<1>5. Min(S) \in S
  BY <1>4 DEF Min
<1> QED
  BY <1>1, <1>2, <1>5

(* A stretch of the view between two indices, its summary where it began.  *)
Stretch(c) == \E start, end \in ManipulationIndices \union {0, Len(view)} :
                /\ start < end
                /\ c.forgets = {view[p] : p \in start + 1..end}
                /\ c.offset = start

(* What can be forgotten is a stretch of the view that has with each       *)
(* observation its call: where it begins, no call of the view is pending.  *)
LEMMA ForgettableIs ==
  ASSUME IInv, NEW reasons, NEW cut, NEW c \in Forgettable(reasons, cut)
  PROVE  /\ Stretch(c)
         /\ c.forgets \in SUBSET ToSet(view)
         /\ c.offset \in Nat
         /\ \A f \in c.forgets : Is(f, "observation") => log[f].of \in c.forgets
         /\ Len(view) * MinProgress > 100 => \E a, b \in c.forgets : a # b
<1> DEFINE start == FindNext(KeepFirst)
           until == Len(view) - ToKeep(reasons, cut)
           end == FindNext(until)
           F == {view[k] : k \in start + 1..end}
<1>1. /\ view \in Seq(Ids) /\ Ordered(view) /\ Distinct(view) /\ Objection(view) = {}
      /\ Len(view) \in Nat /\ DOMAIN view = 1..Len(view)
  BY DEF IInv, ViewInv
<1>2. /\ start # None /\ end # None /\ Enough(end - start)
      /\ c = [forgets |-> ToSet(SubSeq(view, start + 1, end)), offset |-> Offset(start, end)]
  BY DEF Forgettable
<1> HIDE DEF until
<1>3. /\ start \in ManipulationIndices /\ end \in ManipulationIndices
      /\ start \in 0..Len(view) /\ end \in 0..Len(view)
  BY <1>1, <1>2, FindNextIs
<1> HIDE DEF start, end
<1>4. c.forgets = ToSet(SubSeq(view, start + 1, end)) /\ c.offset = start
  BY <1>2 DEF Offset
<1>5. end - start > 0 /\ (end - start) * 100 >= Len(view) * MinProgress
  BY <1>2 DEF Enough
<1>6. c.forgets = F
  <2> DEFINE u == SubSeq(view, start + 1, end)
  <2>1. start \in Int /\ end \in Int /\ start >= 0 /\ end <= Len(view) /\ start < end
    BY <1>1, <1>3, <1>5
  <2>2. DOMAIN u = 1..end - start /\ \A i \in 1..end - start : u[i] = view[start + i]
    BY <1>1, <2>1
  <2> HIDE DEF u
  <2>3. \A k \in start + 1..end : k - start \in 1..end - start /\ start + (k - start) = k
    BY <2>1
  <2>4. \A i \in 1..end - start : start + i \in start + 1..end
    BY <2>1
  <2>5. ToSet(u) = F
    BY <2>2, <2>3, <2>4 DEF ToSet
  <2> QED
    BY <1>4, <2>5 DEF u
<1>7. \A k \in start + 1..end : k \in DOMAIN view
  BY <1>1, <1>3
<1>8. F \in SUBSET ToSet(view)
  BY <1>7 DEF ToSet
<1>9. ASSUME NEW f \in F, Is(f, "observation") PROVE log[f].of \in F
  <2> DEFINE i == log[f].of
  <2>1. PICK a \in start + 1..end : f = view[a]
    OBVIOUS
  <2>2. f \in Ids /\ f \in ToSet(view) /\ a \in DOMAIN view
    BY <1>1, <1>7, <2>1 DEF ToSet
  <2>3. f > 0 /\ f \in DOMAIN log /\ log[f].kind = "observation" /\ f \in Nat
    BY <1>9, <2>2 DEF IInv, LogInv, Ids, Is, Kind
  <2>4. i \in 1..f - 1 /\ log[i].kind = "action"
    BY <2>3 DEF IInv, LogInv
  <2>5. i \in ToSet(view)
    BY <1>9, <2>2 DEF IInv, ViewIsLargest, Whole
  <2> HIDE DEF i
  <2>6. PICK b \in DOMAIN view : view[b] = i
    BY <2>5 DEF ToSet
  <2>7. b < a
    <3>1. i > 0 /\ i < f /\ i \in Int
      BY <2>3, <2>4
    <3>2. ~(a < b) /\ a # b
      BY <2>1, <2>2, <2>3, <2>6, <3>1 DEF Ordered, IInv, ViewInv
    <3> QED
      BY <1>1, <2>2, <3>2
  <2>8. ASSUME b <= start PROVE FALSE
    <3>1. start \in 1..Len(view) /\ b \in 1..start
      BY <1>1, <1>3, <2>8
    <3>2. Is(view[b], "action")
      BY <2>4, <2>6 DEF Is, Kind
    <3>3. ASSUME NEW q \in 1..start, view[q] \in Answers(view[b]) PROVE FALSE
      <4>1. log[view[q]].kind = "observation" /\ log[view[q]].of = i /\ view[q] \in DOMAIN log
        BY <2>6, <3>3 DEF Answers
      <4>2. q \in DOMAIN view /\ q \in 1..a - 1
        BY <1>1, <1>3, <2>1
      <4>3. Is(view[q], "observation")
        BY <4>1 DEF Is, Kind, IInv, LogInv
      <4>4. f \in Repeated(view)
        BY <1>9, <2>1, <2>2, <4>1, <4>2, <4>3 DEF Repeated, i
      <4>5. Repeated(view) = {}
        BY <1>1 DEF Objection
      <4> QED
        BY <4>4, <4>5
    <3>4. start \in WhilePending
      BY <3>1, <3>2, <3>3 DEF WhilePending
    <3> QED
      BY <1>3, <3>4 DEF ManipulationIndices
  <2>9. b \in start + 1..end
    BY <1>1, <1>3, <2>1, <2>7, <2>8
  <2> QED
    BY <2>6, <2>9 DEF i
<1>10. ASSUME Len(view) * MinProgress > 100 PROVE \E a, b \in F : a # b
  <2> DEFINE P == Len(view) * MinProgress
  <2>1. P \in Nat
    BY <1>1, CondenserAssumption
  <2>2. P > 100 /\ (end - start) * 100 >= P
    BY <1>5, <1>10
  <2> HIDE DEF P
  <2>3. end - start > 1
    BY <1>3, <2>1, <2>2
  <2>4. start + 1 \in start + 1..end /\ start + 2 \in start + 1..end /\ start + 1 # start + 2
    BY <1>3, <2>3
  <2>5. view[start + 1] # view[start + 2]
    BY <1>1, <1>7, <2>4 DEF Distinct
  <2> QED
    BY <2>4, <2>5
<1>11. Stretch(c)
  <2>1. start < end
    BY <1>3, <1>5
  <2> QED
    BY <1>3, <1>4, <1>6, <2>1 DEF Stretch
<1> HIDE DEF F
<1> QED
  BY <1>3, <1>4, <1>6, <1>8, <1>9, <1>10, <1>11

(* The function that Emitted names is the one it says it is.               *)
CallsOf(valid, thinking, f, m) ==
  f = [n \in 0..m |->
        IF n = 0 THEN << >>
        ELSE f[n - 1] \o << [kind |-> "action", resp |-> Len(log) + 1, valid |-> valid[n],
                             thinking |-> thinking /\ f[n - 1] = << >>] >>
               \o (IF valid[n] THEN << >>
                   ELSE << [kind |-> "observation", of |-> Len(log) + 1 + Len(f[n - 1])] >>)]

(* There is such a function.                                               *)
LEMMA CallsExist ==
  ASSUME NEW valid, NEW thinking, NEW n \in Nat
  PROVE  \E f : CallsOf(valid, thinking, f, n)
<1> DEFINE Without == {m \in Nat : ~(\E f : CallsOf(valid, thinking, f, m))}
           After(u, k) ==
             u \o << [kind |-> "action", resp |-> Len(log) + 1, valid |-> valid[k],
                      thinking |-> thinking /\ u = << >>] >>
               \o (IF valid[k] THEN << >>
                   ELSE << [kind |-> "observation", of |-> Len(log) + 1 + Len(u)] >>)
<1>1. SUFFICES ASSUME Without # {} PROVE FALSE
  OBVIOUS
<1>2. PICK m \in Without : \A l \in Without : m <= l
  <2>1. Without \in SUBSET Nat
    OBVIOUS
  <2> HIDE DEF Without
  <2> QED
    BY <1>1, <2>1, LeastOf
<1>3. m \in Nat /\ ~(\E f : CallsOf(valid, thinking, f, m))
  BY <1>2
<1>4. CASE m = 0
  <2>1. CallsOf(valid, thinking, [k \in 0..m |-> << >>], m)
    BY <1>4 DEF CallsOf
  <2> QED
    BY <1>3, <2>1
<1>5. CASE m > 0
  <2>1. PICK g : CallsOf(valid, thinking, g, m - 1)
    <3>1. m - 1 \in Nat /\ ~(m <= m - 1)
      BY <1>3, <1>5
    <3>2. m - 1 \notin Without
      BY <1>2, <3>1
    <3> QED
      BY <3>1, <3>2
  <2> DEFINE h == [k \in 0..m |-> IF k = m THEN After(g[m - 1], m) ELSE g[k]]
  <2>2. \A k \in 0..m - 1 : g[k] = IF k = 0 THEN << >> ELSE After(g[k - 1], k)
    <3> DEFINE g2 == [k \in 0..m - 1 |-> IF k = 0 THEN << >> ELSE After(g[k - 1], k)]
    <3>1. g = g2
      BY <2>1 DEF CallsOf
    <3> HIDE DEF After
    <3>2. \A k \in 0..m - 1 : g2[k] = IF k = 0 THEN << >> ELSE After(g[k - 1], k)
      OBVIOUS
    <3> HIDE DEF g2
    <3> QED
      BY <3>1, <3>2
  <2> HIDE DEF After
  <2>3. \A k \in 0..m : h[k] = IF k = 0 THEN << >> ELSE After(h[k - 1], k)
    <3> SUFFICES ASSUME NEW k \in 0..m
                 PROVE  h[k] = IF k = 0 THEN << >> ELSE After(h[k - 1], k)
      OBVIOUS
    <3>1. CASE k = 0
      BY <1>3, <1>5, <2>2, <3>1
    <3>2. CASE k # 0
      <4>1. k - 1 \in 0..m /\ k - 1 # m /\ h[k - 1] = g[k - 1]
        BY <1>3, <3>2
      <4>2. CASE k = m
        BY <3>2, <4>1, <4>2
      <4>3. CASE k # m
        BY <1>3, <2>2, <3>2, <4>1, <4>3
      <4> QED
        BY <4>2, <4>3
    <3> QED
      BY <3>1, <3>2
  <2>4. h = [k \in 0..m |-> h[k]]
    OBVIOUS
  <2> HIDE DEF h
  <2>5. h = [k \in 0..m |-> IF k = 0 THEN << >> ELSE After(h[k - 1], k)]
    BY <2>3, <2>4
  <2>6. CallsOf(valid, thinking, h, m)
    BY <2>5 DEF CallsOf, After
  <2> QED
    BY <1>3, <2>6
<1> QED
  BY <1>3, <1>4, <1>5

(* What a response with tool calls brings, call by call.                   *)
LEMMA EmittedIs ==
  ASSUME NEW valid, NEW thinking, Len(valid) \in Nat
  PROVE  \E f : /\ f[0] = << >>
                /\ \A n \in 1..Len(valid) :
                     f[n] = f[n - 1]
                       \o << [kind |-> "action", resp |-> Len(log) + 1, valid |-> valid[n],
                              thinking |-> thinking /\ f[n - 1] = << >>] >>
                       \o (IF valid[n] THEN << >>
                           ELSE << [kind |-> "observation", of |-> Len(log) + 1 + Len(f[n - 1])] >>)
                /\ Emitted(valid, thinking) = f[Len(valid)]
<1> DEFINE f == CHOOSE f : CallsOf(valid, thinking, f, Len(valid))
<1>1. Emitted(valid, thinking) = f[Len(valid)]
  BY DEF Emitted, CallsOf
<1>2. CallsOf(valid, thinking, f, Len(valid))
  BY CallsExist
<1> HIDE DEF f
<1>3. f[0] = << >>
  BY <1>2 DEF CallsOf
<1>4. \A n \in 1..Len(valid) :
        f[n] = f[n - 1]
          \o << [kind |-> "action", resp |-> Len(log) + 1, valid |-> valid[n],
                 thinking |-> thinking /\ f[n - 1] = << >>] >>
          \o (IF valid[n] THEN << >>
              ELSE << [kind |-> "observation", of |-> Len(log) + 1 + Len(f[n - 1])] >>)
  <2> TAKE n \in 1..Len(valid)
  <2>1. n \in 0..Len(valid) /\ n # 0
    OBVIOUS
  <2> DEFINE After(u) ==
        u \o << [kind |-> "action", resp |-> Len(log) + 1, valid |-> valid[n],
                 thinking |-> thinking /\ u = << >>] >>
          \o (IF valid[n] THEN << >>
              ELSE << [kind |-> "observation", of |-> Len(log) + 1 + Len(u)] >>)
  <2> SUFFICES f[n] = After(f[n - 1])
    OBVIOUS
  <2>2. \A g : CallsOf(valid, thinking, g, Len(valid)) => g[n] = After(g[n - 1])
    BY <2>1 DEF CallsOf
  <2> HIDE DEF After
  <2> QED
    BY <1>2, <2>2
<1> QED
  BY <1>1, <1>3, <1>4

(* The error of a call that is not valid comes right after it: each        *)
(* observation that a response brings comes after its call.                *)
LEMMA EmittedInOrder ==
  ASSUME LogInv, NEW k \in Nat, NEW valid \in [1..k -> BOOLEAN], NEW thinking \in BOOLEAN
  PROVE  /\ Emitted(valid, thinking) \in Seq(Plain)
         /\ InOrder(Emitted(valid, thinking))
<1> DEFINE After(u, n) == << [kind |-> "action", resp |-> Len(log) + 1, valid |-> valid[n],
                             thinking |-> thinking /\ u = << >>] >>
           Error(u, n) == IF valid[n] THEN << >>
                          ELSE << [kind |-> "observation", of |-> Len(log) + 1 + Len(u)] >>
<1>1. valid \in Seq(BOOLEAN) /\ Len(valid) = k
  OBVIOUS
<1>2. Len(log) \in Nat
  BY DEF LogInv
<1>3. PICK f : /\ f[0] = << >>
               /\ \A n \in 1..k : f[n] = f[n - 1] \o After(f[n - 1], n) \o Error(f[n - 1], n)
               /\ Emitted(valid, thinking) = f[k]
  BY <1>1, EmittedIs
<1> DEFINE Late(u) == \A j \in DOMAIN u : u[j].kind = "observation" =>
                        j > 1 /\ u[j - 1].kind = "action" /\ u[j].of = Len(log) + j - 1
           Good(u) == u \in Seq(Plain) /\ Late(u)
           Bad == {n \in 0..k : ~Good(f[n])}
<1>4. ASSUME NEW u, Good(u), NEW n \in 1..k
      PROVE  Good(u \o After(u, n) \o Error(u, n))
  <2> DEFINE a == [kind |-> "action", resp |-> Len(log) + 1, valid |-> valid[n],
                   thinking |-> thinking /\ u = << >>]
             o == [kind |-> "observation", of |-> Len(log) + 1 + Len(u)]
             w == u \o << a >>
  <2>1. u \in Seq(Plain) /\ Len(u) \in Nat /\ DOMAIN u = 1..Len(u) /\ Late(u)
    BY <1>4
  <2>2. a \in Plain /\ a.kind = "action"
    <3>1. valid[n] \in BOOLEAN /\ Len(log) + 1 \in Nat
      BY <1>2
    <3>2. (thinking /\ u = << >>) \in BOOLEAN
      OBVIOUS
    <3> DEFINE t == thinking /\ u = << >>
    <3>3. t \in BOOLEAN
      BY <3>2
    <3> HIDE DEF t
    <3>4. [kind |-> "action", resp |-> Len(log) + 1, valid |-> valid[n], thinking |-> t] \in Plain
      BY <3>1, <3>3 DEF Plain
    <3>5. a = [kind |-> "action", resp |-> Len(log) + 1, valid |-> valid[n], thinking |-> t]
      BY DEF t
    <3> QED
      BY <3>4, <3>5
  <2>3. o \in Plain /\ o.kind = "observation" /\ o.of = Len(log) + 1 + Len(u)
    BY <1>2, <2>1 DEF Plain
  <2> HIDE DEF a, o
  <2>4. /\ w \in Seq(Plain) /\ Len(w) = Len(u) + 1 /\ DOMAIN w = 1..Len(u) + 1
        /\ \A i \in 1..Len(u) : w[i] = u[i]
        /\ w[Len(u) + 1] = a
    BY <2>1, <2>2
  <2> HIDE DEF w
  <2>5. Late(w)
    <3> TAKE j \in DOMAIN w
    <3>1. CASE j = Len(u) + 1
      BY <2>2, <2>4, <3>1
    <3>2. CASE j # Len(u) + 1
      BY <2>1, <2>4, <3>2
    <3> QED
      BY <3>1, <3>2
  <2>6. CASE valid[n]
    <3>1. w \o Error(u, n) = w
      BY <2>4, <2>6
    <3>2. u \o After(u, n) \o Error(u, n) = w
      BY <3>1 DEF w, a
    <3> HIDE DEF After, Error
    <3> QED
      BY <2>4, <2>5, <3>2
  <2>7. CASE ~valid[n]
    <3> DEFINE x == w \o << o >>
    <3>1. /\ x \in Seq(Plain) /\ DOMAIN x = 1..Len(u) + 2
          /\ \A i \in 1..Len(u) + 1 : x[i] = w[i]
          /\ x[Len(u) + 2] = o
      BY <2>1, <2>3, <2>4
    <3>2. x = u \o After(u, n) \o Error(u, n)
      BY <2>7 DEF w, a, o
    <3> HIDE DEF x
    <3>3. Late(x)
      <4> TAKE j \in DOMAIN x
      <4>1. CASE j = Len(u) + 2
        <5>1. j - 1 = Len(u) + 1 /\ j > 1 /\ x[j - 1] = a /\ x[j] = o
          BY <2>1, <2>4, <3>1, <4>1
        <5> QED
          BY <1>2, <2>1, <2>2, <2>3, <4>1, <5>1
      <4>2. CASE j # Len(u) + 2
        <5>1. j \in DOMAIN w /\ x[j] = w[j]
          BY <2>1, <2>4, <3>1, <4>2
        <5>2. j > 1 => x[j - 1] = w[j - 1]
          BY <2>1, <2>4, <3>1, <4>2
        <5> QED
          BY <2>5, <5>1, <5>2
      <4> QED
        BY <4>1, <4>2
    <3> QED
      BY <3>1, <3>2, <3>3
  <2> QED
    BY <2>6, <2>7
<1> HIDE DEF After, Error
<1>5. Bad = {}
  <2> SUFFICES ASSUME Bad # {} PROVE FALSE
    OBVIOUS
  <2>1. PICK n \in Bad : \A l \in Bad : n <= l
    <3>1. Bad \in SUBSET Nat
      OBVIOUS
    <3> HIDE DEF Bad
    <3> QED
      BY <3>1, LeastOf
  <2>2. n \in 0..k /\ ~Good(f[n])
    BY <2>1
  <2>3. Good(<< >>)
    OBVIOUS
  <2> HIDE DEF Good
  <2>4. n # 0
    BY <1>3, <2>2, <2>3
  <2>5. n \in 1..k /\ n - 1 \in 0..k /\ ~(n <= n - 1)
    BY <2>2, <2>4
  <2>6. Good(f[n - 1])
    BY <2>1, <2>5
  <2>7. f[n] = f[n - 1] \o After(f[n - 1], n) \o Error(f[n - 1], n)
    BY <1>3, <2>5
  <2> QED
    BY <1>4, <2>2, <2>5, <2>6, <2>7
<1>6. Good(f[k])
  <2> HIDE DEF Good
  <2>1. k \in 0..k
    OBVIOUS
  <2> QED
    BY <1>5, <2>1
<1> QED
  BY <1>3, <1>6 DEF InOrder

(* The steps that add no condensation.                                     *)
Grow == Message \/ Other \/ Request \/ Respond \/ Observe \/ ObserveAgain

(* What a response with tool calls says of its calls: they are of one      *)
(* response, with nothing but their errors between them, and a call that   *)
(* is not valid has its error at once.                                     *)
Responded(es) ==
  \A j \in DOMAIN es : es[j].kind = "action" =>
    /\ es[j].resp = Len(log) + 1
    /\ \A l \in 1..j : es[l].kind \in {"action", "observation"}
    /\ ~es[j].valid => /\ j + 1 \in DOMAIN es
                       /\ es[j + 1].kind = "observation"
                       /\ es[j + 1].of = Len(log) + j

(* A response's events say so.                                             *)
LEMMA EmittedResponds ==
  ASSUME LogInv, NEW k \in Nat, NEW valid \in [1..k -> BOOLEAN], NEW thinking \in BOOLEAN
  PROVE  Responded(Emitted(valid, thinking))
<1> DEFINE a(u, n) == [kind |-> "action", resp |-> Len(log) + 1, valid |-> valid[n],
                       thinking |-> thinking /\ u = << >>]
           o(u) == [kind |-> "observation", of |-> Len(log) + 1 + Len(u)]
           After(u, n) == u \o << a(u, n) >> \o (IF valid[n] THEN << >> ELSE << o(u) >>)
           Good(u) == /\ u \in Seq(Plain)
                      /\ \A j \in DOMAIN u : u[j].kind \in {"action", "observation"}
                      /\ Responded(u)
           Bad(f) == {n \in 0..k : ~Good(f[n])}
<1>1. valid \in Seq(BOOLEAN) /\ Len(valid) = k
  OBVIOUS
<1>2. Len(log) \in Nat
  BY DEF LogInv
<1>3. PICK f : /\ f[0] = << >>
               /\ \A n \in 1..k : f[n] = After(f[n - 1], n)
               /\ Emitted(valid, thinking) = f[k]
  BY <1>1, EmittedIs
<1>4. ASSUME NEW u, Good(u), NEW n \in 1..k PROVE Good(After(u, n))
  <2> DEFINE x == a(u, n)
             y == o(u)
             w == u \o << x >>
  <2>1. u \in Seq(Plain) /\ Len(u) \in Nat /\ DOMAIN u = 1..Len(u)
    BY <1>4
  <2>2. /\ x \in Plain /\ x.kind = "action" /\ x.resp = Len(log) + 1 /\ x.valid = valid[n]
    <3>1. valid[n] \in BOOLEAN /\ Len(log) + 1 \in Nat
      BY <1>2
    <3> DEFINE t == thinking /\ u = << >>
    <3>2. t \in BOOLEAN
      OBVIOUS
    <3>3. x = [kind |-> "action", resp |-> Len(log) + 1, valid |-> valid[n], thinking |-> t]
      OBVIOUS
    <3> HIDE DEF t, x
    <3> QED
      BY <3>1, <3>2, <3>3 DEF Plain
  <2>3. y \in Plain /\ y.kind = "observation" /\ y.of = Len(log) + 1 + Len(u)
    BY <1>2, <2>1 DEF Plain
  <2>4. After(u, n) = IF valid[n] THEN w ELSE w \o << y >>
    <3>1. w \o << >> = w
      <4> HIDE DEF x
      <4>1. w \in Seq(Plain)
        BY <2>1, <2>2
      <4> HIDE DEF w
      <4> QED
        BY <4>1
    <3> QED
      BY <3>1
  <2>5. Responded(u) /\ \A j \in DOMAIN u : u[j].kind \in {"action", "observation"}
    BY <1>4
  <2> HIDE DEF x, y
  <2>6. /\ w \in Seq(Plain) /\ Len(w) = Len(u) + 1 /\ DOMAIN w = 1..Len(u) + 1
        /\ \A i \in 1..Len(u) : w[i] = u[i]
        /\ w[Len(u) + 1] = x
    BY <2>1, <2>2
  <2> HIDE DEF w
  <2>7. \A j \in DOMAIN w : w[j].kind \in {"action", "observation"}
    <3> TAKE j \in DOMAIN w
    <3>1. (j \in DOMAIN u /\ w[j] = u[j]) \/ j = Len(u) + 1
      BY <2>1, <2>6
    <3> QED
      BY <2>2, <2>5, <2>6, <3>1
  <2>8. CASE valid[n]
    <3>1. Responded(w)
      <4> SUFFICES ASSUME NEW j \in DOMAIN w, w[j].kind = "action"
                   PROVE  /\ w[j].resp = Len(log) + 1
                          /\ ~w[j].valid => /\ j + 1 \in DOMAIN w
                                            /\ w[j + 1].kind = "observation"
                                            /\ w[j + 1].of = Len(log) + j
        <5>1. \A j \in DOMAIN w : \A l \in 1..j : l \in DOMAIN w
          BY <2>1, <2>6
        <5> QED
          BY <2>7, <5>1 DEF Responded
      <4>1. CASE j = Len(u) + 1
        BY <2>2, <2>6, <2>8, <4>1
      <4>2. CASE j # Len(u) + 1
        <5>1. j \in DOMAIN u /\ w[j] = u[j]
          BY <2>1, <2>6, <4>2
        <5>2. /\ u[j].resp = Len(log) + 1
              /\ ~u[j].valid => /\ j + 1 \in DOMAIN u
                                /\ u[j + 1].kind = "observation"
                                /\ u[j + 1].of = Len(log) + j
          BY <2>5, <5>1 DEF Responded
        <5>3. j + 1 \in DOMAIN u => j + 1 \in DOMAIN w /\ w[j + 1] = u[j + 1]
          BY <2>1, <2>6
        <5> QED
          BY <5>1, <5>2, <5>3
      <4> QED
        BY <4>1, <4>2
    <3> QED
      BY <2>4, <2>6, <2>7, <2>8, <3>1
  <2>9. CASE ~valid[n]
    <3> DEFINE v == w \o << y >>
    <3>1. /\ v \in Seq(Plain) /\ DOMAIN v = 1..Len(u) + 2
          /\ \A i \in 1..Len(u) + 1 : v[i] = w[i]
          /\ v[Len(u) + 2] = y
      BY <2>1, <2>3, <2>6
    <3> HIDE DEF v
    <3>2. \A j \in DOMAIN v : v[j].kind \in {"action", "observation"}
      <4> TAKE j \in DOMAIN v
      <4>1. (j \in DOMAIN w /\ v[j] = w[j]) \/ j = Len(u) + 2
        BY <2>1, <2>6, <3>1
      <4> QED
        BY <2>3, <2>7, <3>1, <4>1
    <3>3. Responded(v)
      <4> SUFFICES ASSUME NEW j \in DOMAIN v, v[j].kind = "action"
                   PROVE  /\ v[j].resp = Len(log) + 1
                          /\ ~v[j].valid => /\ j + 1 \in DOMAIN v
                                            /\ v[j + 1].kind = "observation"
                                            /\ v[j + 1].of = Len(log) + j
        <5>1. \A j \in DOMAIN v : \A l \in 1..j : l \in DOMAIN v
          BY <2>1, <3>1
        <5> QED
          BY <3>2, <5>1 DEF Responded
      <4>1. j # Len(u) + 2
        BY <2>3, <3>1
      <4>2. CASE j = Len(u) + 1
        <5>1. j + 1 = Len(u) + 2 /\ j + 1 \in DOMAIN v /\ v[j] = x /\ v[j + 1] = y
          BY <2>1, <2>6, <3>1, <4>2
        <5>2. Len(log) + 1 + Len(u) = Len(log) + j
          BY <1>2, <2>1, <4>2
        <5> QED
          BY <2>2, <2>3, <5>1, <5>2
      <4>3. CASE j # Len(u) + 1
        <5>1. j \in DOMAIN u /\ v[j] = u[j]
          BY <2>1, <2>6, <3>1, <4>1, <4>3
        <5>2. /\ u[j].resp = Len(log) + 1
              /\ ~u[j].valid => /\ j + 1 \in DOMAIN u
                                /\ u[j + 1].kind = "observation"
                                /\ u[j + 1].of = Len(log) + j
          BY <2>5, <5>1 DEF Responded
        <5>3. j + 1 \in DOMAIN u => j + 1 \in DOMAIN v /\ v[j + 1] = u[j + 1]
          BY <2>1, <2>6, <3>1
        <5> QED
          BY <5>1, <5>2, <5>3
      <4> QED
        BY <4>2, <4>3
    <3>4. After(u, n) = v
      BY <2>4, <2>9 DEF v
    <3> HIDE DEF After
    <3> QED
      BY <3>1, <3>2, <3>3, <3>4
  <2> QED
    BY <2>8, <2>9
<1> HIDE DEF After
<1>5. Bad(f) = {}
  <2> SUFFICES ASSUME Bad(f) # {} PROVE FALSE
    OBVIOUS
  <2>1. PICK n \in Bad(f) : \A l \in Bad(f) : n <= l
    <3> DEFINE B == Bad(f)
    <3>1. B \in SUBSET Nat /\ B # {}
      OBVIOUS
    <3> HIDE DEF B
    <3>2. \E n \in B : \A l \in B : n <= l
      BY <3>1, LeastOf
    <3> QED
      BY <3>2 DEF B
  <2>2. n \in 0..k /\ ~Good(f[n])
    BY <2>1
  <2>3. Good(<< >>)
    BY DEF Responded
  <2> HIDE DEF Good
  <2>4. n # 0
    BY <1>3, <2>2, <2>3
  <2>5. n \in 1..k /\ n - 1 \in 0..k /\ ~(n <= n - 1)
    BY <2>2, <2>4
  <2>6. Good(f[n - 1])
    BY <2>1, <2>5
  <2>7. f[n] = After(f[n - 1], n)
    BY <1>3, <2>5
  <2> QED
    BY <1>4, <2>2, <2>5, <2>6, <2>7
<1>6. Good(f[k])
  <2> HIDE DEF Good
  <2>1. k \in 0..k
    OBVIOUS
  <2> QED
    BY <1>5, <2>1
<1> QED
  BY <1>3, <1>6

(* Every step that adds no condensation adds events in order.              *)
LEMMA GrowIs ==
  ASSUME LogInv, Grow
  PROVE  \E es \in Seq(Plain) : Extend(es) /\ InOrder(es) /\ Responded(es)
<1> DEFINE Grows == \E es \in Seq(Plain) : Extend(es) /\ InOrder(es) /\ Responded(es)
<1>1. /\ Len(log) \in Nat /\ DOMAIN log = 1..Len(log)
      /\ Actions \subseteq DOMAIN log /\ Pending \subseteq Actions
  BY DEF LogInv, Actions, Pending
\* A single event that is no call.
<1>2. ASSUME NEW e \in Plain, e.kind # "action", Extend(<< e >>),
             e.kind = "observation" => e.of \in Actions
      PROVE  Grows
  <2> DEFINE es == << e >>
  <2>1. es \in Seq(Plain) /\ DOMAIN es = {1} /\ es[1] = e
    OBVIOUS
  <2>2. Extend(es)
    BY <1>2
  <2> HIDE DEF es
  <2>3. InOrder(es) /\ Responded(es)
    BY <1>2, <2>1 DEF InOrder, Responded
  <2> QED
    BY <2>1, <2>2, <2>3
<1>3. ASSUME NEW kind \in {"message", "other", "request"}, Extend(<< [kind |-> kind] >>)
      PROVE  Grows
  <2> DEFINE e == [kind |-> kind]
  <2>1. e \in Plain /\ e.kind = kind /\ Extend(<< e >>)
    BY <1>3 DEF Plain
  <2> HIDE DEF e
  <2> QED
    BY <1>2, <1>3, <2>1
<1>4. ASSUME NEW i \in Actions, Extend(<< [kind |-> "observation", of |-> i] >>)
      PROVE  Grows
  <2> DEFINE e == [kind |-> "observation", of |-> i]
  <2>1. i \in Nat
    BY <1>1
  <2>2. e \in Plain /\ e.kind = "observation" /\ e.of = i /\ Extend(<< e >>)
    BY <1>4, <2>1 DEF Plain
  <2> HIDE DEF e
  <2> QED
    BY <1>2, <1>4, <2>2
<1> SUFFICES Grows
  OBVIOUS
<1>5. CASE Respond
  <2>1. PICK n \in 1..MaxBatch : \E valid \in [1..n -> BOOLEAN], thinking \in BOOLEAN :
                                   \E es \in {Emitted(valid, thinking)} : Extend(es)
    BY <1>5 DEF Respond
  <2>2. PICK valid \in [1..n -> BOOLEAN], thinking \in BOOLEAN : Extend(Emitted(valid, thinking))
    BY <2>1
  <2>3. n \in Nat
    BY BoundsAssumption
  <2> DEFINE es == Emitted(valid, thinking)
  <2>4. es \in Seq(Plain) /\ InOrder(es)
    BY <2>3, EmittedInOrder
  <2>5. Responded(es)
    BY <2>3, EmittedResponds
  <2>6. Extend(es)
    BY <2>2
  <2> HIDE DEF es
  <2> QED
    BY <2>4, <2>5, <2>6
<1> HIDE DEF Grows
<1>6. CASE Message
  BY <1>3, <1>6 DEF Message
<1>7. CASE Other
  BY <1>3, <1>7 DEF Other
<1>8. CASE Request
  BY <1>3, <1>8 DEF Request
<1>9. CASE Observe
  <2>1. Pending # {} /\ Extend(<< [kind |-> "observation", of |-> Min(Pending)] >>)
    BY <1>9 DEF Observe
  <2>2. Pending \in SUBSET Nat
    BY <1>1
  <2>3. \E x \in Pending : \A y \in Pending : x <= y
    BY <2>1, <2>2, LeastOf
  <2>4. Min(Pending) \in Pending
    BY <2>3 DEF Min
  <2> QED
    BY <1>1, <1>4, <2>1, <2>4
<1>10. CASE ObserveAgain
  <2>1. PICK i \in Actions : Extend(<< [kind |-> "observation", of |-> i] >>)
    BY <1>10 DEF ObserveAgain
  <2> QED
    BY <1>4, <2>1
<1> QED
  BY <1>5, <1>6, <1>7, <1>8, <1>9, <1>10 DEF Grow

(* So they keep the invariant.                                             *)
LEMMA GrowKeeps ==
  ASSUME IInv, Grow
  PROVE  /\ IInv'
         /\ \A c \in DOMAIN log' \ DOMAIN log : log'[c].kind # "condensation"
<1>1. PICK es \in Seq(Plain) : Extend(es) /\ InOrder(es) /\ Responded(es)
  BY GrowIs DEF IInv
<1> QED
  BY <1>1, ExtendKeeps DEF IInv

(* The steps that condense: what they forget is a stretch of the view, and *)
(* each observation of it with its call; where the minimum progress is     *)
(* more than one event, it is more than one.                               *)
Forgotten(c) == /\ Stretch(c)
                /\ c.forgets \in SUBSET ToSet(view)
                /\ c.offset \in Nat
                /\ \A f \in c.forgets : Is(f, "observation") => log[f].of \in c.forgets
                /\ Len(view) * MinProgress > 100 => \E a, b \in c.forgets : a # b

(* Both ways to condense are so.                                           *)
LEMMA CondensationIs ==
  ASSUME IInv, Condense \/ HardReset
  PROVE  \E c, summary : summary \in BOOLEAN /\ Forgotten(c) /\ Apply(c, summary)
<1>1. CASE Condense
  <2>1. PICK cut \in Cuts, summary \in BOOLEAN : \E c \in Forgettable(Reasons(cut), cut) : Apply(c, summary)
    BY <1>1 DEF Condense
  <2>2. PICK c \in Forgettable(Reasons(cut), cut) : Apply(c, summary)
    BY <2>1
  <2>3. Forgotten(c)
    BY ForgettableIs DEF Forgotten
  <2> QED
    BY <2>2, <2>3
<1>2. CASE HardReset
  <2> DEFINE c == [forgets |-> ToSet(view), offset |-> 0]
  <2>1. PICK summary \in BOOLEAN : Apply(c, summary)
    BY <1>2 DEF HardReset
  <2>2. c.forgets = ToSet(view) /\ c.offset = 0 /\ c.offset \in Nat
    OBVIOUS
  <2> HIDE DEF c
  <2>3. \A f \in c.forgets : Is(f, "observation") => log[f].of \in c.forgets
    BY <2>2 DEF IInv, ViewIsLargest, Whole
  <2>4. ASSUME Len(view) * MinProgress > 100 PROVE \E a, b \in c.forgets : a # b
    <3>1. Len(view) \in Nat /\ DOMAIN view = 1..Len(view) /\ Distinct(view)
      BY DEF IInv, ViewInv
    <3>2. MinProgress \in 1..99
      BY CondenserAssumption
    <3>3. Len(view) # 0 /\ Len(view) # 1
      <4>1. 0 * MinProgress = 0 /\ 1 * MinProgress = MinProgress
        BY <3>2
      <4>2. ASSUME Len(view) = 0 PROVE FALSE
        <5>1. Len(view) * MinProgress = 0 * MinProgress
          BY <4>2
        <5> QED
          BY <2>4, <4>1, <5>1
      <4>3. ASSUME Len(view) = 1 PROVE FALSE
        <5>1. Len(view) * MinProgress = 1 * MinProgress
          BY <4>3
        <5> QED
          BY <2>4, <3>2, <4>1, <5>1
      <4> QED
        BY <4>2, <4>3
    <3>4. 1 \in DOMAIN view /\ 2 \in DOMAIN view
      BY <3>1, <3>3
    <3>5. view[1] # view[2]
      BY <3>4 , <3>1 DEF Distinct
    <3> QED
      BY <2>2, <3>4, <3>5 DEF ToSet
  <2>5. Stretch(c)
    <3>1. view # << >> /\ Len(view) \in Nat /\ DOMAIN view = 1..Len(view)
      BY <1>2 DEF HardReset, IInv, ViewInv
    <3>2. 0 < Len(view)
      BY <3>1 DEF IInv, ViewInv
    <3>3. ToSet(view) = {view[p] : p \in 0 + 1..Len(view)}
      BY <3>1 DEF ToSet
    <3> QED
      BY <2>2, <3>2, <3>3 DEF Stretch
  <2> QED
    BY <2>1, <2>2, <2>3, <2>4, <2>5 DEF Forgotten
<1> QED
  BY <1>1, <1>2

(* And keep the invariant: what is not forgotten stays in the replay.      *)
LEMMA CondensationKeeps ==
  ASSUME IInv, NEW c, Forgotten(c), NEW summary \in BOOLEAN, Apply(c, summary)
  PROVE  /\ IInv'
         /\ ToSet(events) \ c.forgets \subseteq ToSet(events)'
         /\ ToSet(events)' \subseteq (ToSet(events) \ c.forgets) \union {- Len(log')}
<1>1. \A i \in DOMAIN view : view[i] \in Ids /\ view[i] \in Int
  BY DEF IInv, ViewInv, Ids
<1>2. c.forgets \in SUBSET Int /\ c.offset \in Nat
  BY <1>1 DEF Forgotten, ToSet
<1> QED
  BY <1>2, ApplyKeeps DEF IInv

(* A sequence in which nothing occurs twice is as long as its set is large.*)
LEMMA DistinctCount ==
  ASSUME NEW S, NEW v \in Seq(S), Distinct(v)
  PROVE  IsFiniteSet(ToSet(v)) /\ Cardinality(ToSet(v)) = Len(v)
<1>1. Len(v) \in Nat /\ DOMAIN v = 1..Len(v) /\ v = [i \in 1..Len(v) |-> v[i]]
  OBVIOUS
<1>2. v \in Bijection(1..Len(v), ToSet(v))
  <2>1. v \in [1..Len(v) -> ToSet(v)]
    BY <1>1 DEF ToSet
  <2>2. \A i, j \in 1..Len(v) : v[i] = v[j] => i = j
    BY <1>1 DEF Distinct
  <2>3. \A x \in ToSet(v) : \E i \in 1..Len(v) : v[i] = x
    BY <1>1 DEF ToSet
  <2> QED
    BY <2>1, <2>2, <2>3 DEF Bijection, Injection, Surjection, IsInjective
<1>3. IsFiniteSet(1..Len(v)) /\ Cardinality(1..Len(v)) = Len(v)
  <2> DEFINE m == Len(v)
  <2>1. m \in Int /\ m \in Nat /\ 1 \in Int
    BY <1>1
  <2> HIDE DEF m
  <2>2. IsFiniteSet(1..m) /\ Cardinality(1..m) = IF 1 > m THEN 0 ELSE m - 1 + 1
    BY <2>1, FS_Interval
  <2> QED
    BY <2>1, <2>2 DEF m
<1>4. IsFiniteSet(ToSet(v)) /\ Cardinality(1..Len(v)) = Cardinality(ToSet(v))
  <2>1. ExistsBijection(1..Len(v), ToSet(v))
    BY <1>2 DEF ExistsBijection
  <2> QED
    BY <1>3, <2>1, FS_Bijection
<1> QED
  BY <1>3, <1>4

(* The entry of a condensation is no event that an enforced property looks *)
(* at.                                                                     *)
LEMMA CondensationAdds ==
  ASSUME LogInv, NEW c, NEW summary \in BOOLEAN, Apply(c, summary)
  PROVE  /\ Len(log') = Len(log) + 1
         /\ DOMAIN log = 1..Len(log) /\ DOMAIN log' = 1..Len(log) + 1
         /\ \A i \in DOMAIN log : log'[i] = log[i]
         /\ \A k : k = Len(log) + 1 =>
              log'[k] = [kind |-> "condensation", forgets |-> c.forgets]
         /\ \A id \in Ids : Kind(id)' = Kind(id)
         /\ \A i \in DOMAIN log : /\ i \in Ids
                                  /\ (Calls(i)' <=> Calls(i)) /\ (Thinks(i)' <=> Thinks(i))
                                  /\ Answers(i)' = Answers(i) /\ Loop(i)' = Loop(i)
<1> DEFINE n == Len(log)
           e == [kind |-> "condensation", forgets |-> c.forgets]
<1>1. log \in Seq(Entries) /\ n \in Nat /\ DOMAIN log = 1..n
  BY DEF LogInv
<1>2. /\ Len(log') = n + 1 /\ DOMAIN log' = 1..n + 1
      /\ \A i \in 1..n : log'[i] = log[i]
      /\ log'[n + 1] = e /\ e.kind = "condensation"
  <2>1. log' = Append(log, e)
    BY DEF Apply
  <2> QED
    BY <1>1, <2>1
<1>3. \A id \in Ids : Kind(id)' = Kind(id)
  BY <1>1, <1>2 DEF Ids, Kind
<1>4. \A id \in 1..n : /\ id \in Ids
                       /\ (Calls(id)' <=> Calls(id)) /\ (Thinks(id)' <=> Thinks(id))
  <2> TAKE id \in 1..n
  <2>1. id \in Ids
    BY <1>1 DEF Ids
  <2>2. Kind(id)' = Kind(id) /\ log'[id] = log[id]
    BY <1>2, <1>3, <2>1
  <2>3. Calls(id)' <=> Calls(id)
    BY <2>2 DEF Calls
  <2>4. Thinks(id)' <=> Thinks(id)
    BY <2>2 DEF Thinks, Is
  <2> QED
    BY <2>1, <2>3, <2>4
<1>5. ASSUME NEW i \in 1..n
      PROVE  Answers(i)' = Answers(i) /\ Loop(i)' = Loop(i)
  <2>1. Answers(i)' = Answers(i)
    BY <1>1, <1>2 DEF Answers
  <2>2. ASSUME NEW k, k = n + 1 PROVE ~Calls(k)'
    <3>1. ~(k < 0)
      BY <1>1, <2>2
    <3> QED
      BY <1>2, <2>2, <3>1 DEF Calls, Kind
  <2>3. ASSUME NEW j \in i..n + 1, \A k \in i + 1..j : Calls(k)' /\ ~Thinks(k)'
        PROVE  j \in Loop(i)
    <3>1. j # n + 1
      <4>1. ASSUME j = n + 1 PROVE j \in i + 1..j
        BY <1>1, <4>1
      <4> QED
        BY <2>2, <2>3, <4>1
    <3>2. j \in i..n /\ \A k \in i + 1..j : k \in 1..n
      BY <1>1, <3>1
    <3>3. \A k \in i + 1..j : Calls(k) /\ ~Thinks(k)
      BY <1>4, <2>3, <3>2
    <3> QED
      BY <1>1, <3>2, <3>3 DEF Loop
  <2>4. ASSUME NEW j \in Loop(i) PROVE j \in Loop(i)'
    <3>1. j \in i..n /\ \A k \in i + 1..j : Calls(k) /\ ~Thinks(k)
      BY <1>1 DEF Loop
    <3>2. j \in i..n + 1 /\ \A k \in i + 1..j : k \in 1..n
      BY <1>1, <3>1
    <3>3. \A k \in i + 1..j : Calls(k)' /\ ~Thinks(k)'
      BY <1>4, <3>1, <3>2
    <3> QED
      BY <1>2, <3>2, <3>3 DEF Loop
  <2>5. Loop(i)' = {j \in i..n + 1 : \A k \in i + 1..j : Calls(k)' /\ ~Thinks(k)'}
    BY <1>2 DEF Loop
  <2> QED
    BY <2>1, <2>3, <2>4, <2>5
<1> QED
  BY <1>1, <1>2, <1>3, <1>4, <1>5

(* After a condensation, what the LLM is shown besides the summary is      *)
(* whole among the events that were not forgotten, so it was shown before: *)
(* a second observation does not come to be the first one, because an      *)
(* observation is forgotten with its call.                                 *)
LEMMA NothingReturns ==
  ASSUME IInv, NEW c, Forgotten(c), NEW summary \in BOOLEAN, Apply(c, summary)
  PROVE  ToSet(view)' \subseteq (ToSet(view) \ c.forgets) \union {- Len(log')}
<1> DEFINE n == Len(log)
           V == ToSet(view)'
           E == ToSet(events)'
           X == ToSet(events)
           Y == V \ {- Len(log')}
<1>1. log \in Seq(Entries) /\ n \in Nat /\ DOMAIN log = 1..n /\ X \subseteq Ids
  BY DEF IInv, LogInv, EventsInv, ToSet
<1>2. /\ Len(log') = n + 1 /\ DOMAIN log' = 1..n + 1
      /\ \A i \in 1..n : log'[i] = log[i]
  BY <1>1, CondensationAdds DEF IInv
<1>3. /\ ViewIsLargest'
      /\ X \ c.forgets \subseteq E
      /\ E \subseteq (X \ c.forgets) \union {- Len(log')}
  BY CondensationKeeps DEF IInv
<1>4. V \subseteq E /\ V \cap RepeatedIn(ToSet(events))' = {} /\ Whole(ToSet(view))'
  BY <1>3 DEF ViewIsLargest
<1>5. Y \subseteq X \ c.forgets /\ Y \subseteq V
  BY <1>3, <1>4
<1>6. /\ \A id \in Ids : Kind(id)' = Kind(id)
      /\ \A i \in 1..n : /\ i \in Ids
                         /\ Thinks(i)' <=> Thinks(i)
                         /\ Answers(i)' = Answers(i) /\ Loop(i)' = Loop(i)
  BY <1>1, CondensationAdds DEF IInv
<1>7. \A i \in 1..n : i # - Len(log')
  BY <1>1, <1>2
<1>8. ASSUME NEW id \in Y
      PROVE  /\ id \in Ids /\ id \in V
             /\ \A kind : Is(id, kind)' <=> Is(id, kind)
             /\ Is(id, "action") \/ Is(id, "observation") => id \in 1..n
  <2>1. id \in Ids /\ id \in V
    BY <1>1, <1>5
  <2>2. Kind(id)' = Kind(id)
    BY <1>6, <2>1
  <2>3. Is(id, "action") \/ Is(id, "observation") => id \in 1..n
    BY <1>1, <2>1 DEF Is, Kind, Ids
  <2> QED
    BY <2>1, <2>2, <2>3 DEF Is
<1> HIDE DEF n, V, E, X, Y
<1>9. Whole(Y)
  <2>1. /\ \A id \in V : Is(id, "action")' =>
             Batch(log[id].resp)' \subseteq V /\ Answers(id)' \cap V # {}
        /\ \A id \in V : Is(id, "observation")' => log'[id].of \in V
        /\ \A i \in 1..n + 1 : Thinks(i)' /\ Loop(i)' \cap V # {} => Loop(i)' \subseteq V
    BY <1>2, <1>4 DEF Whole, V
  <2>2. \A i \in 1..n : i \in V => i \in Y
    BY <1>7 DEF Y
  <2>3. ASSUME NEW id \in Y, Is(id, "action")
        PROVE  Batch(log[id].resp) \subseteq Y /\ Answers(id) \cap Y # {}
    <3>1. id \in V /\ id \in 1..n /\ Is(id, "action")'
      BY <1>8, <2>3
    <3>2. Batch(log[id].resp)' \subseteq V /\ Answers(id)' \cap V # {}
      BY <2>1, <3>1
    <3>3. Answers(id)' = Answers(id) /\ Answers(id) \subseteq 1..n
      BY <1>1, <1>6, <3>1 DEF Answers
    <3>4. log'[id] = log[id]
      BY <1>2, <3>1
    <3>5. Batch(log[id].resp) \subseteq 1..n /\ Batch(log[id].resp) \subseteq Batch(log[id].resp)'
      BY <1>1, <1>2, <3>4 DEF Batch, Actions
    <3> QED
      BY <2>2, <3>2, <3>3, <3>5
  <2>4. ASSUME NEW id \in Y, Is(id, "observation") PROVE log[id].of \in Y
    <3>1. id \in V /\ id \in 1..n /\ Is(id, "observation")' /\ log'[id] = log[id]
      BY <1>2, <1>8, <2>4
    <3>2. log[id].of \in V
      BY <2>1, <3>1
    <3>3. log[id].kind = "observation"
      BY <1>1, <2>4, <3>1 DEF Is, Kind
    <3>4. log[id].of \in 1..id - 1
      BY <1>1, <3>1, <3>3 DEF IInv, LogInv
    <3>5. log[id].of \in 1..n
      BY <1>1, <3>1, <3>4
    <3> QED
      BY <2>2, <3>2, <3>5
  <2>5. ASSUME NEW i \in DOMAIN log, Thinks(i), Loop(i) \cap Y # {} PROVE Loop(i) \subseteq Y
    <3>1. i \in 1..n /\ i \in 1..n + 1
      BY <1>1
    <3>2. Thinks(i)' /\ Loop(i)' = Loop(i)
      BY <1>6, <2>5, <3>1
    <3>3. Loop(i) \subseteq V
      BY <1>5, <2>1, <2>5, <3>1, <3>2
    <3>4. Loop(i) \subseteq 1..n
      BY <1>1, <3>1 DEF Loop, n
    <3> QED
      BY <2>2, <3>3, <3>4
  <2> QED
    BY <2>3, <2>4, <2>5 DEF Whole
<1>10. ASSUME NEW o \in Y, o \in RepeatedIn(X) PROVE FALSE
  <2>1. PICK f \in X : f < o /\ Is(f, "observation") /\ log[f].of = log[o].of
    BY <1>10 DEF RepeatedIn
  <2>2. Is(o, "observation")
    BY <1>10 DEF RepeatedIn
  <2>3. o \in 1..n /\ o \in E /\ o \in V /\ Is(o, "observation")'
    BY <1>4, <1>8, <2>2
  <2>4. f \in Ids /\ Is(f, "observation")' /\ f \in 1..n
    <3>1. f \in Ids /\ Kind(f)' = Kind(f)
      BY <1>1, <1>6
    <3> QED
      BY <1>1, <2>1, <3>1 DEF Is, Kind, Ids
  <2>5. log'[f] = log[f] /\ log'[o] = log[o]
    BY <1>2, <2>3, <2>4
  <2>6. CASE f \in E
    <3>1. o \in RepeatedIn(ToSet(events))'
      BY <2>1, <2>3, <2>4, <2>5, <2>6 DEF RepeatedIn, E
    <3> QED
      BY <1>4, <2>3, <3>1
  <2>7. CASE f \notin E
    <3>1. f \in c.forgets
      BY <1>3, <2>7
    <3>2. log[o].of \in c.forgets
      BY <2>1, <3>1 DEF Forgotten
    <3>3. log[o].of \in Y
      BY <1>9, <2>2 DEF Whole
    <3> QED
      BY <1>5, <3>2, <3>3
  <2> QED
    BY <2>6, <2>7
<1>11. Y \subseteq ToSet(view)
  <2>1. Y \in SUBSET (ToSet(events) \ RepeatedIn(ToSet(events)))
    BY <1>5, <1>10 DEF X
  <2> QED
    BY <1>9, <2>1 DEF IInv, ViewIsLargest
<1>12. V \subseteq Y \union {- Len(log')}
  BY DEF Y
<1> QED
  BY <1>5, <1>11, <1>12 DEF V

(* So a condensation that forgets two events and brings one summary makes  *)
(* the view shorter.                                                       *)
LEMMA CondensationIsProgress ==
  ASSUME IInv, NEW c, Forgotten(c), NEW summary \in BOOLEAN, Apply(c, summary),
         Len(view) * MinProgress > 100
  PROVE  Len(view') < Len(view)
<1> DEFINE V == ToSet(view)'
           W == ToSet(view)
           id == - Len(log')
<1>1. V \subseteq (W \ c.forgets) \union {id}
  BY NothingReturns
<1>2. PICK a, b \in c.forgets : a # b
  BY DEF Forgotten
<1>3. a \in W /\ b \in W
  BY DEF Forgotten
<1>4. IsFiniteSet(W) /\ Cardinality(W) = Len(view) /\ Len(view) \in Nat
  BY DistinctCount DEF IInv, ViewInv
<1>5. Cardinality(V) = Len(view') /\ Len(view') \in Nat
  <2>1. ViewInv'
    BY CondensationKeeps DEF IInv
  <2> DEFINE v == view'
             S == Ids'
  <2>2. v \in Seq(S) /\ Distinct(v)
    BY <2>1 DEF ViewInv, Distinct
  <2> HIDE DEF v, S
  <2>3. Cardinality(ToSet(v)) = Len(v) /\ Len(v) \in Nat
    BY <2>2, DistinctCount
  <2>4. ToSet(v) = V
    BY DEF v
  <2> QED
    BY <2>3, <2>4 DEF v
<1> HIDE DEF V, W, id
<1> DEFINE U == (W \ {a}) \ {b}
<1>6. IsFiniteSet(W \ {a}) /\ Cardinality(W \ {a}) = Cardinality(W) - 1
  BY <1>3, <1>4, FS_RemoveElement
<1>7. b \in W \ {a}
  BY <1>2, <1>3
<1>8. IsFiniteSet(U) /\ Cardinality(U) = Cardinality(W \ {a}) - 1
  BY <1>6, <1>7, FS_RemoveElement
<1>9. V \subseteq U \union {id}
  BY <1>1, <1>2
<1> HIDE DEF U
<1>10. IsFiniteSet(U \union {id}) /\ Cardinality(U \union {id}) <= Cardinality(U) + 1
  <2>1. Cardinality(U) \in Nat
    BY <1>8, FS_CardinalityType
  <2>2. /\ IsFiniteSet(U \union {id})
        /\ Cardinality(U \union {id}) = IF id \in U THEN Cardinality(U) ELSE Cardinality(U) + 1
    BY <1>8, FS_AddElement
  <2> QED
    BY <2>1, <2>2
<1>11. Cardinality(V) <= Cardinality(U \union {id}) /\ Cardinality(U \union {id}) \in Nat
  BY <1>9, <1>10, FS_Subset, FS_CardinalityType
<1> QED
  BY <1>4, <1>5, <1>6, <1>8, <1>10, <1>11

(* Every step keeps the history, the replay and the enforcement as they    *)
(* should be.                                                              *)
LEMMA Invariance == IInv /\ [Next]_vars => IInv'
<1> SUFFICES ASSUME IInv, [Next]_vars PROVE IInv'
  OBVIOUS
<1>1. CASE Grow
  BY <1>1, GrowKeeps
<1>2. CASE Condense \/ HardReset
  <2>1. PICK c, summary : summary \in BOOLEAN /\ Forgotten(c) /\ Apply(c, summary)
    BY <1>2, CondensationIs
  <2> QED
    BY <2>1, CondensationKeeps
<1>3. CASE UNCHANGED vars
  <2>1. log' = log /\ events' = events /\ view' = view
    BY <1>3 DEF vars
  <2>2. LogInv' /\ EventsInv'
    BY <2>1 DEF IInv, LogInv, EventsInv, Ids, Ordered, Distinct
  <2>3. Objection(view)' = Objection(view)
    BY <2>1 DEF Objection, Repeated, TornBatches, Unpaired, TornLoops, Loop, Is, Kind, Answers,
       Batch, Actions, Thinks, Calls
  <2>4. ViewInv'
    BY <2>1, <2>3 DEF IInv, ViewInv, Ids, Ordered, Distinct
  <2>5. ViewIsLargest'
    <3>1. ToSet(view)' = ToSet(view) /\ ToSet(events)' = ToSet(events)
      BY <2>1
    <3>2. RepeatedIn(ToSet(events))' = RepeatedIn(ToSet(events))
      BY <2>1 DEF RepeatedIn, Is, Kind
    <3>3. Whole(ToSet(view))' <=> Whole(ToSet(view))
      BY <2>1 DEF Whole, Loop, Is, Kind, Answers, Batch, Actions, Thinks, Calls
    <3>4. ASSUME NEW Y PROVE Whole(Y)' <=> Whole(Y)
      BY <2>1 DEF Whole, Loop, Is, Kind, Answers, Batch, Actions, Thinks, Calls
    <3> QED
      BY <3>1, <3>2, <3>3, <3>4 DEF IInv, ViewIsLargest
  <2> QED
    BY <2>2, <2>4, <2>5 DEF IInv
<1> QED
  BY <1>1, <1>2, <1>3 DEF Next, Grow
------------------------------------------------------------------------------
(* Summaries                                                               *)

(* Condensations, and what they may forget.                                *)
Condensations == {c \in DOMAIN log : log[c].kind = "condensation"}
SummariesInv ==
  \A c \in Condensations :
    /\ log[c].forgets # {}
    /\ \A x \in log[c].forgets : /\ x \in Int /\ x # 0 /\ -c < x /\ x < c
                                 /\ x < 0 => -x \in Condensations

(* A set of numbers up to a limit that is not empty has a greatest one.    *)
LEMMA MaxIs ==
  ASSUME NEW n \in Nat, NEW S \in SUBSET (1..n), S # {}
  PROVE  Max(S) \in S
<1> DEFINE D == {n - y : y \in S}
<1>1. D \in SUBSET Nat /\ D # {}
  <2>1. \A y \in S : n - y \in Nat
    OBVIOUS
  <2>2. D \in SUBSET Nat
    BY <2>1
  <2>3. D # {}
    OBVIOUS
  <2> QED
    BY <2>2, <2>3
<1> HIDE DEF D
<1>2. PICK d \in D : \A e \in D : d <= e
  BY <1>1, LeastOf
<1>3. PICK x \in S : d = n - x
  BY <1>2 DEF D
<1>4. \A y \in S : n - y \in D
  BY DEF D
<1>5. \A y \in S : x >= y
  <2> TAKE y \in S
  <2>1. n - x <= n - y
    BY <1>2, <1>3, <1>4
  <2> QED
    BY <2>1
<1> QED
  BY <1>3, <1>5 DEF Max

(* The function that Latest names is the one it says it is.                *)
Summarised(f, C) ==
  f = [c \in C |-> Max({IF x > 0 THEN x ELSE f[-x] : x \in log[c].forgets})]

(* There is such a function.                                               *)
LEMMA SummarisedExists ==
  ASSUME LogInv, SummariesInv
  PROVE  \E f : Summarised(f, Condensations)
<1> DEFINE n == Len(log)
           Early(m) == {c \in Condensations : c <= m}
           Without == {m \in 0..n : ~(\E f : Summarised(f, Early(m)))}
<1>1. n \in Nat /\ DOMAIN log = 1..n /\ Condensations \subseteq 1..n
  BY DEF LogInv, Condensations
<1> HIDE DEF n
<1>2. Without = {}
  <2> SUFFICES ASSUME Without # {} PROVE FALSE
    OBVIOUS
  <2>1. PICK m \in Without : \A l \in Without : m <= l
    <3>1. Without \in SUBSET Nat
      BY <1>1
    <3> HIDE DEF Without
    <3> QED
      BY <3>1, LeastOf
  <2>2. m \in 0..n /\ ~(\E f : Summarised(f, Early(m)))
    BY <2>1
  <2> HIDE DEF Without
  <2>3. CASE m = 0
    <3>1. Early(m) = {}
      <4>1. \A c \in Condensations : ~(c <= m)
        BY <1>1, <2>3
      <4> QED
        BY <4>1
    <3>2. Summarised([c \in {} |-> 0], {})
      BY DEF Summarised
    <3> QED
      BY <2>2, <3>1, <3>2
  <2>4. CASE m # 0
    <3>1. m - 1 \in 0..n /\ ~(m <= m - 1)
      BY <1>1, <2>2, <2>4
    <3>2. PICK g : Summarised(g, Early(m - 1))
      <4>1. m - 1 \notin Without
        BY <2>1, <3>1
      <4> QED
        BY <3>1, <4>1 DEF Without
    <3>3. CASE m \notin Condensations
      <4>1. Early(m) = Early(m - 1)
        <5>1. \A c \in Condensations : c <= m <=> c <= m - 1
          BY <1>1, <2>2, <2>4, <3>3
        <5> QED
          BY <5>1
      <4> QED
        BY <2>2, <3>2, <4>1
    <3>4. CASE m \in Condensations
      <4> DEFINE Of(f, c) == Max({IF x > 0 THEN x ELSE f[-x] : x \in log[c].forgets})
                 h == [c \in Early(m) |-> IF c = m THEN Of(g, m) ELSE g[c]]
      <4>1. Early(m) = Early(m - 1) \union {m} /\ m \notin Early(m - 1)
        <5>1. \A c \in Condensations : c <= m <=> c <= m - 1 \/ c = m
          BY <1>1, <2>2, <2>4, <3>4
        <5>2. m <= m /\ ~(m <= m - 1)
          BY <1>1, <2>2
        <5> QED
          BY <3>4, <5>1, <5>2
      <4>2. \A c \in Early(m - 1) : h[c] = g[c]
        BY <4>1
      <4>3. \A c \in Early(m) : \A x \in log[c].forgets : x > 0 \/ h[-x] = g[-x]
        <5> TAKE c \in Early(m)
        <5> TAKE x \in log[c].forgets
        <5>1. x \in Int /\ x # 0 /\ -c < x /\ (x < 0 => -x \in Condensations)
          BY DEF SummariesInv
        <5>2. ASSUME ~(x > 0) PROVE -x \in Early(m - 1)
          BY <1>1, <2>2, <5>1, <5>2
        <5> QED
          BY <4>2, <5>2
      <4>4. \A c \in Early(m) : Of(h, c) = Of(g, c)
        <5> TAKE c \in Early(m)
        <5> HIDE DEF h, Early
        <5>1. \A x \in log[c].forgets : (IF x > 0 THEN x ELSE h[-x]) = (IF x > 0 THEN x ELSE g[-x])
          BY <4>3
        <5>2. {IF x > 0 THEN x ELSE h[-x] : x \in log[c].forgets}
                = {IF x > 0 THEN x ELSE g[-x] : x \in log[c].forgets}
          BY <5>1
        <5> QED
          BY <5>2
      <4>5. \A c \in Early(m - 1) : g[c] = Of(g, c)
        <5>1. g = [c \in Early(m - 1) |-> Of(g, c)]
          BY <3>2 DEF Summarised
        <5> HIDE DEF Of, Early
        <5> QED
          BY <5>1
      <4> HIDE DEF Of
      <4>6. \A c \in Early(m) : h[c] = Of(h, c)
        <5> TAKE c \in Early(m)
        <5>1. CASE c = m
          BY <4>4, <5>1
        <5>2. CASE c # m
          <6>1. c \in Early(m - 1)
            BY <4>1, <5>2
          <6> QED
            BY <4>2, <4>4, <4>5, <6>1
        <5> QED
          BY <5>1, <5>2
      <4>7. h = [c \in Early(m) |-> h[c]]
        OBVIOUS
      <4> HIDE DEF h, Early
      <4>8. h = [c \in Early(m) |-> Of(h, c)]
        BY <4>6, <4>7
      <4>9. Summarised(h, Early(m))
        BY <4>8 DEF Summarised, Of
      <4> QED
        BY <2>2, <4>9
    <3> QED
      BY <3>3, <3>4
  <2> QED
    BY <2>3, <2>4
<1>3. Early(n) = Condensations
  <2> HIDE DEF Without
  <2>1. \A c \in Condensations : c <= n
    BY <1>1
  <2> QED
    BY <2>1
<1>4. n \in 0..n
  BY <1>1
<1> HIDE DEF Early
<1>5. \E f : Summarised(f, Early(n))
  BY <1>2, <1>4
<1> QED
  BY <1>3, <1>5

(* What Latest gives.                                                      *)
LEMMA LatestIs ==
  LogInv /\ SummariesInv =>
    /\ \A id : id > 0 => Latest(id) = id
    /\ \A c \in Condensations : Latest(-c) = Max({Latest(x) : x \in log[c].forgets})
<1> SUFFICES ASSUME LogInv, SummariesInv
             PROVE  /\ \A id : id > 0 => Latest(id) = id
                    /\ \A c \in Condensations :
                         Latest(-c) = Max({Latest(x) : x \in log[c].forgets})
  OBVIOUS
<1> DEFINE f == CHOOSE f : Summarised(f, Condensations)
<1>1. \A id : Latest(id) = IF id > 0 THEN id ELSE f[-id]
  BY DEF Latest, Summarised, Condensations
<1>2. Summarised(f, Condensations)
  BY SummarisedExists
<1> HIDE DEF f
<1>3. Condensations \subseteq 1..Len(log) /\ Len(log) \in Nat
  BY DEF LogInv, Condensations
<1>4. ASSUME NEW c \in Condensations
      PROVE  Latest(-c) = Max({Latest(x) : x \in log[c].forgets})
  <2>1. Latest(-c) = f[c]
    BY <1>1, <1>3
  <2>2. f[c] = Max({IF x > 0 THEN x ELSE f[-x] : x \in log[c].forgets})
    BY <1>2 DEF Summarised
  <2>3. {IF x > 0 THEN x ELSE f[-x] : x \in log[c].forgets} = {Latest(x) : x \in log[c].forgets}
    BY <1>1
  <2> QED
    BY <2>1, <2>2, <2>3
<1> QED
  BY <1>1, <1>4

(* The latest event that a summary stands for came before it, and is that  *)
(* of something that was forgotten for it.                                 *)
LEMMA LatestBounds ==
  LogInv /\ SummariesInv =>
    \A k \in Condensations : /\ Latest(-k) \in 1..k - 1
                             /\ \E x \in log[k].forgets : Latest(-k) = Latest(x)
<1> SUFFICES ASSUME LogInv, SummariesInv, NEW c \in Condensations
             PROVE  /\ Latest(-c) \in 1..c - 1
                    /\ \E x \in log[c].forgets : Latest(-c) = Latest(x)
  OBVIOUS
<1> DEFINE Good(d) == /\ Latest(-d) \in 1..d - 1
                      /\ \E x \in log[d].forgets : Latest(-d) = Latest(x)
           Bad == {d \in Condensations : ~Good(d)}
<1>1. Condensations \subseteq Nat \ {0}
  BY DEF LogInv, Condensations
<1>2. Bad = {}
  <2> SUFFICES ASSUME Bad # {} PROVE FALSE
    OBVIOUS
  <2>1. PICK d \in Bad : \A e \in Bad : d <= e
    <3>1. Bad \in SUBSET Nat
      BY <1>1
    <3> HIDE DEF Bad
    <3> QED
      BY <3>1, LeastOf
  <2>2. d \in Condensations /\ d \in Nat \ {0} /\ ~Good(d)
    BY <1>1, <2>1
  <2>3. ASSUME NEW x \in log[d].forgets PROVE Latest(x) \in 1..d - 1
    <3>1. x \in Int /\ x # 0 /\ -d < x /\ x < d /\ (x < 0 => -x \in Condensations)
      BY <2>2 DEF SummariesInv
    <3>2. CASE x > 0
      BY <2>2, <3>1, <3>2, LatestIs
    <3>3. CASE x < 0
      <4> DEFINE e == -x
      <4>1. e \in Condensations /\ e \in Nat /\ ~(d <= e) /\ -e = x /\ e - 1 < d - 1
        BY <2>2, <3>1, <3>3
      <4> HIDE DEF e
      <4>2. Good(e)
        <5> HIDE DEF Good
        <5> QED
          BY <2>1, <4>1
      <4>3. Latest(x) \in 1..e - 1
        BY <4>1, <4>2
      <4> QED
        BY <2>2, <4>1, <4>3
    <3> QED
      BY <3>1, <3>2, <3>3
  <2> DEFINE S == {Latest(x) : x \in log[d].forgets}
  <2>4. S \in SUBSET (1..d - 1) /\ S # {}
    BY <2>2, <2>3 DEF SummariesInv
  <2>5. Latest(-d) = Max(S)
    BY <2>2, LatestIs
  <2> HIDE DEF S
  <2>6. Max(S) \in S
    <3>1. d - 1 \in Nat
      BY <2>2
    <3> QED
      BY <2>4, <3>1, MaxIs
  <2>7. Good(d)
    BY <2>4, <2>5, <2>6 DEF S
  <2> QED
    BY <2>2, <2>7
<1> QED
  BY <1>2

(* A longer history has the summaries stand for the same events.           *)
LEMMA LatestStays ==
  ASSUME LogInv, LogInv', SummariesInv, SummariesInv',
         DOMAIN log \subseteq DOMAIN log', \A i \in DOMAIN log : log'[i] = log[i]
  PROVE  /\ Condensations \subseteq Condensations'
         /\ \A c \in Condensations : Latest(-c)' = Latest(-c)
         /\ \A id : id > 0 => Latest(id)' = id
<1>1. Condensations \subseteq Nat \ {0}
  BY DEF LogInv, Condensations
<1>2. /\ \A id : id > 0 => Latest(id) = id
      /\ \A c \in Condensations : Latest(-c) = Max({Latest(x) : x \in log[c].forgets})
  BY LatestIs
<1>3. /\ \A id : id > 0 => Latest(id)' = id
      /\ \A c \in Condensations' : Latest(-c)' = Max({Latest(x)' : x \in log'[c].forgets})
  <2>1. (LogInv /\ SummariesInv =>
           /\ \A id : id > 0 => Latest(id) = id
           /\ \A c \in Condensations : Latest(-c) = Max({Latest(x) : x \in log[c].forgets}))'
    BY LatestIs, PTL
  <2> QED
    BY <2>1
<1>4. Condensations \subseteq Condensations' /\ \A c \in Condensations : log'[c] = log[c]
  BY DEF Condensations
<1> DEFINE Bad == {c \in Condensations : ~(Latest(-c)' = Latest(-c))}
<1>5. Bad = {}
  <2> SUFFICES ASSUME Bad # {} PROVE FALSE
    OBVIOUS
  <2>1. PICK d \in Bad : \A e \in Bad : d <= e
    <3>1. Bad \in SUBSET Nat
      BY <1>1
    <3> HIDE DEF Bad
    <3> QED
      BY <3>1, LeastOf
  <2>2. d \in Condensations /\ d \in Nat \ {0} /\ ~(Latest(-d)' = Latest(-d)) /\ log'[d] = log[d]
    BY <1>1, <1>4, <2>1
  <2>3. ASSUME NEW x \in log[d].forgets PROVE Latest(x)' = Latest(x)
    <3>1. x \in Int /\ x # 0 /\ -d < x /\ x < d /\ (x < 0 => -x \in Condensations)
      BY <2>2 DEF SummariesInv
    <3>2. CASE x > 0
      BY <1>2, <1>3, <3>2
    <3>3. CASE x < 0
      <4> DEFINE e == -x
      <4>1. e \in Condensations /\ e \in Nat /\ ~(d <= e) /\ -e = x
        BY <2>2, <3>1, <3>3
      <4> HIDE DEF e
      <4> QED
        BY <2>1, <4>1
    <3> QED
      BY <3>1, <3>2, <3>3
  <2>4. {Latest(x)' : x \in log'[d].forgets} = {Latest(x) : x \in log[d].forgets}
    BY <2>2, <2>3
  <2> QED
    BY <1>2, <1>3, <1>4, <2>2, <2>4
<1> QED
  BY <1>3, <1>4, <1>5

------------------------------------------------------------------------------
(* Orderly histories                                                       *)

(* The calls of a response have nothing but calls of it and answers        *)
(* between them, and a call that is not valid has its error right after it.*)
ResponsesInv ==
  \A i \in Actions :
    /\ log[i].resp \in 1..i
    /\ \A k \in log[i].resp..i :
         /\ log[k].kind \in {"action", "observation"}
         /\ log[k].kind = "action" => log[k].resp = log[i].resp
ErrorsInv == \A i \in Actions : ~log[i].valid => i + 1 \in Answers(i)

(* A summary of the replay is one of a condensation.                       *)
KnownInv == \A x \in ToSet(events) : x < 0 => -x \in Condensations

CleanInv == Objection(events) = {} => view = events

HistoryInv == ResponsesInv /\ ErrorsInv /\ SummariesInv /\ KnownInv /\ CleanInv

(* What the history of an orderly one is on the way: some calls may still  *)
(* be without an answer.                                                   *)
OrderlySoFar == /\ \A i \in Actions : \A a, b \in Answers(i) : a = b
                /\ \A i, j \in Actions : log[i].resp = log[j].resp /\ i <= j =>
                     \A k \in i..j : log[k].kind # "observation"

(* Events that the properties have the LLM shown together or not at all.   *)
Together(a, b) == \/ a \in Actions /\ b \in Actions /\ log[a].resp = log[b].resp
                  \/ a \in Answers(b) \/ b \in Answers(a)
                  \/ \E i \in DOMAIN log : Thinks(i) /\ a \in Loop(i) /\ b \in Loop(i)

(* In an orderly history the replay, without any enforcement, has the      *)
(* events together or not at all; what may still be joined by new events,  *)
(* a call without an answer or a tool loop that goes on, is in it; a       *)
(* summary is where what it stands for was, and none comes after a call    *)
(* without its answer coming before it.                                    *)
InPlace == \A p, q \in DOMAIN events : p < q =>
             \A x \in {events[p]}, y \in {events[q]} : Latest(x) < Latest(y)
NothingTorn == \A a, b \in DOMAIN log :
                 Together(a, b) /\ a \in ToSet(events) => b \in ToSet(events)
UnansweredShown == \A i \in Actions : Answers(i) = {} => i \in ToSet(events)
OpenLoopsShown == \A i \in DOMAIN log :
                    Thinks(i) /\ Len(log) \in Loop(i) => Loop(i) \subseteq ToSet(events)
SummariesApart == \A p, r \in DOMAIN events :
                    p < r /\ Is(events[p], "action") /\ events[r] < 0 =>
                      \E q \in p..r : events[q] \in Answers(events[p])
OrderlyInv == OrderlySoFar => /\ InPlace /\ NothingTorn /\ UnansweredShown
                              /\ OpenLoopsShown /\ SummariesApart

(* Tool loops have no gaps, and nothing but calls and answers.             *)
LEMMA LoopIs ==
  LogInv =>
    \A i \in DOMAIN log : \A j \in Loop(i) :
      /\ j \in i..Len(log)
      /\ \A k \in i..j : k \in Loop(i)
      /\ Thinks(i) => Calls(j)
      /\ j # i => Calls(j) /\ ~Thinks(j)
<1> SUFFICES ASSUME LogInv, NEW i \in DOMAIN log, NEW j \in Loop(i)
             PROVE  /\ j \in i..Len(log)
                    /\ \A k \in i..j : k \in Loop(i)
                    /\ Thinks(i) => Calls(j)
                    /\ j # i => Calls(j) /\ ~Thinks(j)
  OBVIOUS
<1>1. Len(log) \in Nat /\ i \in 1..Len(log)
  BY DEF LogInv
<1>2. j \in i..Len(log) /\ \A k \in i + 1..j : Calls(k) /\ ~Thinks(k)
  BY DEF Loop
<1>3. ASSUME NEW k \in i..j PROVE k \in Loop(i)
  <2>1. k \in i..Len(log) /\ \A l \in i + 1..k : l \in i + 1..j
    BY <1>1, <1>2
  <2> QED
    BY <1>2, <2>1 DEF Loop
<1>4. j # i => Calls(j) /\ ~Thinks(j)
  <2>1. j # i => j \in i + 1..j
    BY <1>1, <1>2
  <2> QED
    BY <1>2, <2>1
<1>5. Thinks(i) => Calls(i)
  BY DEF Thinks, Is, Calls
<1> QED
  BY <1>2, <1>3, <1>4, <1>5

(* What the replay of new events gives, place by place.                    *)
LEMMA ExtendIs ==
  ASSUME LogInv, EventsInv, NEW es \in Seq(Plain), Extend(es)
  PROVE  /\ Len(log') = Len(log) + Len(es)
         /\ DOMAIN log = 1..Len(log) /\ DOMAIN log' = 1..Len(log')
         /\ \A i \in DOMAIN log : log'[i] = log[i]
         /\ \A j \in DOMAIN es : log'[Len(log) + j] = es[j]
         /\ \A p \in DOMAIN events : p \in DOMAIN events' /\ events'[p] = events[p]
         /\ \A q \in DOMAIN events' \ DOMAIN events :
              events'[q] > Len(log) /\ \A p \in DOMAIN events : p < q
         /\ ToSet(events)' = ToSet(events) \union
              {Len(log) + j : j \in {i \in DOMAIN es : Shown(es[i])}}
<1> DEFINE n == Len(log)
           k == Len(es)
           base == [j \in DOMAIN es |-> n + j]
           hidden == {n + j : j \in {i \in DOMAIN es : ~Shown(es[i])}}
           tail == Drop(base, hidden)
           T == n + 1..n + k
<1>1. /\ log \in Seq(Entries) /\ n \in Nat /\ DOMAIN log = 1..n
      /\ k \in Nat /\ DOMAIN es = 1..k /\ es \in Seq(Entries)
  <2>1. Plain \subseteq Entries
    BY DEF Entries
  <2>2. es \in Seq(Entries)
    BY <2>1, SeqWidens
  <2> QED
    BY <2>2 DEF LogInv
<1>2. log' = log \o es /\ events' = events \o tail
  BY DEF Extend
<1>3. /\ Len(log') = n + k /\ DOMAIN log' = 1..n + k
      /\ \A i \in 1..n : log'[i] = log[i]
      /\ \A j \in 1..k : log'[n + j] = es[j]
  BY <1>1, <1>2
<1>4. base \in Seq(T) /\ ToSet(base) = {n + j : j \in DOMAIN es}
  <2>1. base \in [1..k -> T]
    BY <1>1
  <2>2. base \in Seq(T)
    BY <1>1, <2>1
  <2>3. ToSet(base) = {n + j : j \in DOMAIN es}
    BY DEF ToSet
  <2> QED
    BY <2>2, <2>3
<1>5. ToSet(tail) = ToSet(base) \ hidden
  <2> HIDE DEF base, hidden, T
  <2> QED
    BY <1>4, DropLeaves
<1>6. ToSet(tail) = {n + j : j \in {i \in DOMAIN es : Shown(es[i])}}
  <2>1. \A i, j \in DOMAIN es : n + i = n + j => i = j
    BY <1>1
  <2> HIDE DEF n, tail
  <2> QED
    BY <1>4, <1>5, <2>1
<1>7. tail \in Seq(T)
  <2>1. Ordered(base) /\ T \in SUBSET Int
    BY <1>1 DEF Ordered
  <2> HIDE DEF base, hidden, T
  <2> QED
    BY <1>4, <2>1, DropKeeps
<1> HIDE DEF tail
<1>8. /\ Len(events) \in Nat /\ DOMAIN events = 1..Len(events) /\ events \in Seq(Int)
      /\ Len(tail) \in Nat /\ DOMAIN tail = 1..Len(tail) /\ tail \in Seq(Int)
      /\ \A i \in DOMAIN tail : tail[i] > n
  <2>1. Ids \subseteq Int /\ T \subseteq Int
    BY <1>1 DEF Ids
  <2>2. events \in Seq(Int)
    BY <2>1, SeqWidens DEF EventsInv
  <2>3. tail \in Seq(Int)
    <3> HIDE DEF T
    <3> QED
      BY <1>7, <2>1, SeqWidens
  <2>4. \A i \in DOMAIN tail : tail[i] > n
    BY <1>1, <1>7
  <2> QED
    BY <2>2, <2>3, <2>4
<1>9. /\ DOMAIN events' = 1..Len(events) + Len(tail)
      /\ \A i \in DOMAIN events : events'[i] = events[i]
      /\ \A i \in Len(events) + 1..Len(events) + Len(tail) : events'[i] = tail[i - Len(events)]
  BY <1>2, <1>8
<1>10. ToSet(events)' = ToSet(events) \union ToSet(tail)
  <2>1. ASSUME NEW i \in DOMAIN events' PROVE events'[i] \in ToSet(events) \union ToSet(tail)
    <3>1. CASE i \in DOMAIN events
      BY <1>9, <3>1 DEF ToSet
    <3>2. CASE i \notin DOMAIN events
      <4>1. i - Len(events) \in DOMAIN tail /\ events'[i] = tail[i - Len(events)]
        BY <1>8, <1>9, <3>2
      <4> QED
        BY <4>1 DEF ToSet
    <3> QED
      BY <3>1, <3>2
  <2>2. ASSUME NEW i \in DOMAIN events PROVE events[i] \in ToSet(events)'
    <3>1. i \in DOMAIN events' /\ events'[i] = events[i]
      BY <1>8, <1>9
    <3> QED
      BY <3>1 DEF ToSet
  <2>3. ASSUME NEW i \in DOMAIN tail PROVE tail[i] \in ToSet(events)'
    <3> DEFINE q == i + Len(events)
    <3>1. q \in Len(events) + 1..Len(events) + Len(tail) /\ q - Len(events) = i
      BY <1>8
    <3> HIDE DEF q
    <3>2. q \in DOMAIN events' /\ events'[q] = tail[i]
      BY <1>8, <1>9, <3>1
    <3> QED
      BY <3>2 DEF ToSet
  <2> QED
    BY <2>1, <2>2, <2>3 DEF ToSet
<1>11. \A q \in DOMAIN events' \ DOMAIN events :
         events'[q] > n /\ \A p \in DOMAIN events : p < q
  <2> TAKE q \in DOMAIN events' \ DOMAIN events
  <2>1. q - Len(events) \in DOMAIN tail /\ events'[q] = tail[q - Len(events)]
    BY <1>8, <1>9
  <2> QED
    BY <1>8, <1>9, <2>1
<1>12. \A p \in DOMAIN events : p \in DOMAIN events' /\ events'[p] = events[p]
  BY <1>8, <1>9
<1> QED
  BY <1>1, <1>3, <1>6, <1>10, <1>11, <1>12

(* Without an objection the view is the replay.                            *)
LEMMA CleanView == EventsInv /\ view = Enforced(events) => CleanInv
<1> SUFFICES ASSUME EventsInv, view = Enforced(events), Objection(events) = {}
             PROVE  view = events
  BY DEF CleanInv
<1>1. Ids \in SUBSET Int
  BY DEF Ids
<1> QED
  BY <1>1, EnforcedNothing DEF EventsInv

(* New events keep what the history says of responses and condensations.   *)
LEMMA ExtendHistory ==
  ASSUME IInv, IInv', HistoryInv, NEW es \in Seq(Plain), Extend(es), Responded(es)
  PROVE  HistoryInv'
<1> DEFINE n == Len(log)
<1>1. LogInv /\ EventsInv /\ LogInv' /\ EventsInv'
  BY DEF IInv
<1>2. /\ Len(log') = n + Len(es) /\ DOMAIN log = 1..n /\ DOMAIN log' = 1..Len(log')
      /\ \A i \in DOMAIN log : log'[i] = log[i]
      /\ \A j \in DOMAIN es : log'[n + j] = es[j]
      /\ ToSet(events)' = ToSet(events) \union
           {n + j : j \in {i \in DOMAIN es : Shown(es[i])}}
  BY <1>1, ExtendIs
<1>3. n \in Nat /\ Len(es) \in Nat /\ DOMAIN es = 1..Len(es)
  BY <1>1 DEF LogInv
<1> HIDE DEF n
<1>4. ASSUME NEW i \in DOMAIN log', i \notin DOMAIN log
      PROVE  i - n \in DOMAIN es /\ log'[i] = es[i - n] /\ n + (i - n) = i
  <2>1. i - n \in DOMAIN es /\ n + (i - n) = i
    BY <1>2, <1>3, <1>4
  <2> QED
    BY <1>2, <2>1
<1>5. \A i \in DOMAIN log : i \in DOMAIN log'
  BY <1>2, <1>3
<1>6. ResponsesInv'
  <2> SUFFICES ASSUME NEW i \in Actions'
               PROVE  /\ log'[i].resp \in 1..i
                      /\ \A k \in log'[i].resp..i :
                           /\ log'[k].kind \in {"action", "observation"}
                           /\ log'[k].kind = "action" => log'[k].resp = log'[i].resp
    BY DEF ResponsesInv
  <2>1. i \in DOMAIN log' /\ log'[i].kind = "action"
    BY DEF Actions
  <2>2. CASE i \in DOMAIN log
    <3>1. i \in Actions /\ log'[i] = log[i]
      BY <1>2, <2>1, <2>2 DEF Actions
    <3>2. /\ log[i].resp \in 1..i
          /\ \A k \in log[i].resp..i :
               /\ log[k].kind \in {"action", "observation"}
               /\ log[k].kind = "action" => log[k].resp = log[i].resp
      BY <3>1 DEF HistoryInv, ResponsesInv
    <3>3. \A k \in log[i].resp..i : log'[k] = log[k]
      BY <1>2, <1>3, <2>2, <3>2
    <3> QED
      BY <3>1, <3>2, <3>3
  <2>3. CASE i \notin DOMAIN log
    <3> DEFINE j == i - n
    <3>1. j \in DOMAIN es /\ log'[i] = es[j] /\ n + j = i
      BY <1>4, <2>1, <2>3
    <3> HIDE DEF j
    <3>2. es[j].resp = n + 1 /\ \A l \in 1..j : es[l].kind \in {"action", "observation"}
      BY <2>1, <3>1 DEF Responded, n
    <3>3. ASSUME NEW k \in n + 1..i
          PROVE  k - n \in 1..j /\ k - n \in DOMAIN es /\ log'[k] = es[k - n]
      <4>1. k - n \in 1..j /\ k - n \in DOMAIN es /\ n + (k - n) = k
        BY <1>3, <3>1
      <4> QED
        BY <1>2, <4>1
    <3>4. \A l \in DOMAIN es : es[l].kind = "action" => es[l].resp = n + 1
      BY DEF Responded, n
    <3>5. n + 1 \in 1..i
      BY <1>3, <3>1
    <3> QED
      BY <3>1, <3>2, <3>3, <3>4, <3>5
  <2> QED
    BY <2>2, <2>3
<1>7. ErrorsInv'
  <2> SUFFICES ASSUME NEW i \in Actions', ~log'[i].valid PROVE i + 1 \in Answers(i)'
    BY DEF ErrorsInv
  <2>1. i \in DOMAIN log' /\ log'[i].kind = "action"
    BY DEF Actions
  <2>2. CASE i \in DOMAIN log
    <3>1. i \in Actions /\ ~log[i].valid
      BY <1>2, <2>1, <2>2 DEF Actions
    <3>2. i + 1 \in Answers(i)
      BY <3>1 DEF HistoryInv, ErrorsInv
    <3>3. i + 1 \in DOMAIN log /\ log[i + 1].kind = "observation" /\ log[i + 1].of = i
      BY <3>2 DEF Answers
    <3> QED
      BY <1>2, <1>5, <3>3 DEF Answers
  <2>3. CASE i \notin DOMAIN log
    <3> DEFINE j == i - n
    <3>1. j \in DOMAIN es /\ log'[i] = es[j] /\ n + j = i
      BY <1>4, <2>1, <2>3
    <3> HIDE DEF j
    <3>2. j + 1 \in DOMAIN es /\ es[j + 1].kind = "observation" /\ es[j + 1].of = n + j
      BY <2>1, <3>1 DEF Responded, n
    <3>3. n + (j + 1) = i + 1 /\ i + 1 \in DOMAIN log'
      BY <1>2, <1>3, <3>1, <3>2
    <3>4. log'[i + 1] = es[j + 1]
      BY <1>2, <3>2, <3>3
    <3> QED
      BY <3>1, <3>2, <3>3, <3>4 DEF Answers
  <2> QED
    BY <2>2, <2>3
<1>8. Condensations' = Condensations
  <2>1. \A i \in DOMAIN log' \ DOMAIN log : log'[i].kind # "condensation"
    <3> TAKE i \in DOMAIN log' \ DOMAIN log
    <3>1. log'[i] \in Plain
      BY <1>4
    <3> QED
      BY <3>1 DEF Plain
  <2> QED
    BY <1>2, <1>5, <2>1 DEF Condensations
<1>9. SummariesInv'
  <2>1. \A c \in Condensations : log'[c] = log[c]
    BY <1>2 DEF Condensations
  <2> QED
    BY <1>8, <2>1 DEF HistoryInv, SummariesInv
<1>10. KnownInv'
  <2> SUFFICES ASSUME NEW x \in ToSet(events)', x < 0 PROVE -x \in Condensations'
    BY DEF KnownInv
  <2>1. x \in ToSet(events)
    BY <1>2, <1>3
  <2> QED
    BY <1>8, <2>1 DEF HistoryInv, KnownInv
<1>11. CleanInv'
  <2>1. (view = Enforced(events))'
    BY DEF Extend
  <2> QED
    BY <1>1, <2>1, CleanView, PTL
<1> QED
  BY <1>6, <1>7, <1>9, <1>10, <1>11 DEF HistoryInv

(* A history that goes on in order was in order.                           *)
LEMMA OrderlyBefore ==
  ASSUME DOMAIN log \subseteq DOMAIN log', \A i \in DOMAIN log : log'[i] = log[i], LogInv,
         OrderlySoFar'
  PROVE  OrderlySoFar
<1>1. Actions \subseteq Actions' /\ \A i : Answers(i) \subseteq Answers(i)'
  BY DEF Actions, Answers
<1>2. \A i \in Actions : \A a, b \in Answers(i) : a = b
  BY <1>1 DEF OrderlySoFar
<1>3. ASSUME NEW i \in Actions, NEW j \in Actions, log[i].resp = log[j].resp, i <= j,
             NEW k \in i..j
      PROVE  log[k].kind # "observation"
  <2>1. i \in DOMAIN log /\ j \in DOMAIN log
    BY DEF Actions
  <2>2. log'[i].resp = log'[j].resp /\ i \in Actions' /\ j \in Actions'
    BY <1>1, <1>3, <2>1
  <2>3. log'[k].kind # "observation"
    BY <1>3, <2>2 DEF OrderlySoFar
  <2>4. k \in DOMAIN log
    BY <2>1 DEF LogInv
  <2> QED
    BY <2>3, <2>4
<1> QED
  BY <1>2, <1>3 DEF OrderlySoFar

(* What Latest says of the events and summaries of the replay.             *)
LEMMA LatestShown ==
  LogInv /\ EventsInv /\ SummariesInv /\ KnownInv =>
    \A x \in ToSet(events) : /\ Latest(x) \in DOMAIN log
                             /\ x > 0 => Latest(x) = x
                             /\ x > 0 \/ (x < 0 /\ -x \in Condensations)
<1> SUFFICES ASSUME LogInv, EventsInv, SummariesInv, KnownInv, NEW x \in ToSet(events)
             PROVE  /\ Latest(x) \in DOMAIN log
                    /\ x > 0 => Latest(x) = x
                    /\ x > 0 \/ (x < 0 /\ -x \in Condensations)
  OBVIOUS
<1>1. Len(log) \in Nat /\ DOMAIN log = 1..Len(log)
  BY DEF LogInv
<1>2. x \in Ids
  BY DEF EventsInv, ToSet
<1>3. x \in Int /\ x # 0 /\ x <= Len(log)
  BY <1>2 DEF Ids
<1>4. CASE x > 0
  <2>1. Latest(x) = x
    BY <1>4, LatestIs
  <2> QED
    BY <1>1, <1>3, <1>4, <2>1
<1>5. CASE x < 0
  <2> DEFINE c == -x
  <2>1. c \in Condensations /\ -c = x
    BY <1>3, <1>5 DEF KnownInv
  <2>2. c \in 1..Len(log)
    BY <1>1, <2>1 DEF Condensations
  <2> HIDE DEF c
  <2>3. Latest(x) \in 1..c - 1
    BY <2>1, LatestBounds
  <2>4. Latest(x) \in DOMAIN log
    BY <1>1, <2>2, <2>3
  <2> QED
    BY <1>3, <1>5, <2>1, <2>4 DEF c
<1> QED
  BY <1>3, <1>4, <1>5

(* The replay's entries stand for what they stood for.                     *)
LEMMA ShownStays ==
  ASSUME LogInv, LogInv', EventsInv, HistoryInv, HistoryInv',
         DOMAIN log \subseteq DOMAIN log', \A i \in DOMAIN log : log'[i] = log[i],
         NEW x \in ToSet(events)
  PROVE  Latest(x)' = Latest(x) /\ Latest(x) \in DOMAIN log
<1>1. /\ \A c \in Condensations : Latest(-c)' = Latest(-c)
      /\ \A id : id > 0 => Latest(id)' = id
  BY LatestStays DEF HistoryInv
<1>2. /\ Latest(x) \in DOMAIN log
      /\ x > 0 => Latest(x) = x
      /\ x > 0 \/ (x < 0 /\ -x \in Condensations)
  BY LatestShown DEF HistoryInv
<1>3. CASE x > 0
  BY <1>1, <1>2, <1>3
<1>4. CASE x < 0 /\ -x \in Condensations
  <2> DEFINE c == -x
  <2>1. x \in Int
    BY DEF EventsInv, Ids, ToSet
  <2>2. c \in Condensations /\ -c = x
    BY <1>4, <2>1
  <2> HIDE DEF c
  <2> QED
    BY <1>1, <1>2, <2>2
<1> QED
  BY <1>2, <1>3, <1>4

(* New events keep an orderly history in its place and together.           *)
LEMMA ExtendOrderly ==
  ASSUME IInv, IInv', HistoryInv, HistoryInv', OrderlyInv,
         NEW es \in Seq(Plain), Extend(es), Responded(es)
  PROVE  OrderlyInv'
<1> SUFFICES ASSUME OrderlySoFar'
             PROVE  /\ InPlace' /\ NothingTorn' /\ UnansweredShown'
                    /\ OpenLoopsShown' /\ SummariesApart'
  BY DEF OrderlyInv
<1> DEFINE n == Len(log)
           m == Len(log')
           X == ToSet(events)
           Y == ToSet(events)'
<1>1. LogInv /\ EventsInv /\ LogInv' /\ EventsInv'
  BY DEF IInv
<1>2. /\ m = n + Len(es) /\ DOMAIN log = 1..n /\ DOMAIN log' = 1..m
      /\ \A i \in DOMAIN log : log'[i] = log[i]
      /\ \A j \in DOMAIN es : log'[n + j] = es[j]
      /\ \A p \in DOMAIN events : p \in DOMAIN events' /\ events'[p] = events[p]
      /\ \A q \in DOMAIN events' \ DOMAIN events :
           events'[q] > n /\ \A p \in DOMAIN events : p < q
      /\ Y = X \union {n + j : j \in {i \in DOMAIN es : Shown(es[i])}}
  BY <1>1, ExtendIs
<1>3. n \in Nat /\ Len(es) \in Nat /\ DOMAIN es = 1..Len(es) /\ m \in Nat /\ n <= m
  BY <1>1, <1>2 DEF LogInv
<1>4. DOMAIN log \subseteq DOMAIN log'
  BY <1>2, <1>3
<1>5. OrderlySoFar
  BY <1>1, <1>2, <1>4, OrderlyBefore
<1>6. InPlace /\ NothingTorn /\ UnansweredShown /\ OpenLoopsShown /\ SummariesApart
  BY <1>5 DEF OrderlyInv
<1>7. \A x \in X : x <= n
  BY <1>1 DEF EventsInv, Ids, ToSet
<1> HIDE DEF n, m, X, Y
\* What was there is shown as before, and a new call or answer is shown.
<1>8. X \subseteq Y /\ \A x \in 1..n : x \in Y => x \in X
  BY <1>2, <1>3
<1>9. ASSUME NEW x \in n + 1..m, log'[x].kind \in {"action", "observation"} PROVE x \in Y
  <2> DEFINE j == x - n
  <2>1. j \in DOMAIN es /\ n + j = x
    BY <1>2, <1>3
  <2> HIDE DEF j
  <2>2. Shown(es[j])
    BY <1>2, <1>9, <2>1 DEF Shown
  <2> QED
    BY <1>2, <2>1, <2>2
<1>10. ASSUME NEW x \in n + 1..m, log'[x].kind = "action" PROVE log'[x].resp = n + 1
  <2> DEFINE j == x - n
  <2>1. j \in DOMAIN es /\ n + j = x
    BY <1>2, <1>3
  <2> HIDE DEF j
  <2>2. log'[x] = es[j]
    BY <1>2, <2>1
  <2> QED
    BY <1>10, <2>1, <2>2 DEF Responded, n
<1>11. \A x \in 1..m : (x \in 1..n /\ log'[x] = log[x]) \/ x \in n + 1..m
  BY <1>2, <1>3
<1>12. ASSUME NEW x \in 1..m
       PROVE  Calls(x)' => log'[x].kind \in {"action", "observation"}
  <2>1. ~(x < 0)
    BY <1>3
  <2> QED
    BY <2>1 DEF Calls, Kind
<1>13. \A x \in 1..n : (Calls(x)' <=> Calls(x)) /\ (Thinks(x)' <=> Thinks(x))
  <2> TAKE x \in 1..n
  <2>1. Kind(x)' = Kind(x) /\ log'[x] = log[x]
    BY <1>2 DEF Kind
  <2>2. Calls(x)' <=> Calls(x)
    BY <2>1 DEF Calls
  <2>3. Thinks(x)' <=> Thinks(x)
    BY <2>1 DEF Thinks, Is
  <2> QED
    BY <2>2, <2>3
<1>14. (LogInv =>
         \A i \in DOMAIN log : \A j \in Loop(i) :
           /\ j \in i..Len(log)
           /\ \A k \in i..j : k \in Loop(i)
           /\ Thinks(i) => Calls(j)
           /\ j # i => Calls(j) /\ ~Thinks(j))'
  BY LoopIs, PTL
\* A tool loop that does not reach the end of the history is what it was.
<1>15. ASSUME NEW i \in 1..m, Thinks(i)', NEW x \in Loop(i)'
       PROVE  /\ x \in i..m
              /\ \A y \in i..x : y \in Loop(i)'
              /\ log'[x].kind \in {"action", "observation"}
              /\ x \in 1..n => i \in 1..n /\ Thinks(i) /\ x \in Loop(i)
  <2>1. x \in i..m /\ (\A y \in i..x : y \in Loop(i)') /\ Calls(x)'
    <3>1. /\ x \in i..Len(log')
          /\ \A k \in i..x : k \in Loop(i)'
          /\ Thinks(i)' => Calls(x)'
      BY <1>14, <1>1, <1>2, <1>15
    <3> QED
      BY <1>15, <3>1 DEF m
  <2>2. log'[x].kind \in {"action", "observation"}
    BY <1>3, <1>12, <2>1
  <2>3. ASSUME x \in 1..n PROVE i \in 1..n /\ Thinks(i) /\ x \in Loop(i)
    <3>1. i \in 1..n
      BY <1>3, <2>1, <2>3
    <3>2. \A k \in i + 1..x : Calls(k)' /\ ~Thinks(k)'
      BY DEF Loop
    <3>3. \A k \in i + 1..x : k \in 1..n
      BY <1>3, <2>3, <3>1
    <3>4. \A k \in i + 1..x : Calls(k) /\ ~Thinks(k)
      BY <1>13, <3>2, <3>3
    <3>5. x \in i..n
      BY <1>3, <2>1, <2>3
    <3> QED
      BY <1>13, <1>15, <3>1, <3>4, <3>5 DEF Loop, n
  <2> QED
    BY <2>1, <2>2, <2>3
<1>16. ASSUME NEW i \in 1..m, Thinks(i)', NEW x \in Loop(i)', x \in n + 1..m
       PROVE  Loop(i)' \subseteq Y
  <2> SUFFICES ASSUME NEW y \in Loop(i)' PROVE y \in Y
    OBVIOUS
  <2>1. y \in i..m /\ log'[y].kind \in {"action", "observation"}
    BY <1>15, <1>16
  <2>2. CASE y \in n + 1..m
    BY <1>9, <2>1, <2>2
  <2>3. CASE y \in 1..n
    <3>1. i \in 1..n /\ Thinks(i) /\ y \in Loop(i)
      BY <1>15, <1>16, <2>3
    <3>2. n \in i..x /\ n \in 1..n
      BY <1>3, <1>16, <3>1
    <3>3. n \in Loop(i)'
      BY <1>15, <1>16, <3>2
    <3>4. n \in Loop(i)
      BY <1>15, <1>16, <3>2, <3>3
    <3>5. Loop(i) \subseteq X
      BY <1>2, <1>6, <3>1, <3>4 DEF OpenLoopsShown, n, X
    <3> QED
      BY <1>8, <3>1, <3>5
  <2> QED
    BY <1>3, <2>1, <2>2, <2>3
<1>17. NothingTorn'
  <2> SUFFICES ASSUME NEW a \in 1..m, NEW b \in 1..m, Together(a, b)', a \in Y PROVE b \in Y
    BY <1>2 DEF NothingTorn, Y
  <2>1. ASSUME a \in 1..n, b \in 1..n, Together(a, b) PROVE b \in Y
    <3>1. a \in X
      BY <1>8, <2>1
    <3>2. b \in X
      BY <1>2, <1>6, <2>1, <3>1 DEF NothingTorn, X
    <3> QED
      BY <1>8, <3>2
  <2>2. CASE a \in Actions' /\ b \in Actions' /\ log'[a].resp = log'[b].resp
    <3>1. log'[a].kind = "action" /\ log'[b].kind = "action"
      BY <2>2 DEF Actions
    <3>2. \A x \in 1..n : log'[x].kind = "action" =>
            x \in Actions /\ log'[x].resp = log[x].resp /\ log[x].resp < n + 1
      <4> SUFFICES ASSUME NEW x \in 1..n, log'[x].kind = "action"
                   PROVE  x \in Actions /\ log'[x].resp = log[x].resp /\ log[x].resp < n + 1
        OBVIOUS
      <4>1. x \in Actions /\ log'[x] = log[x]
        BY <1>2 DEF Actions
      <4>2. log[x].resp \in 1..x
        BY <4>1 DEF HistoryInv, ResponsesInv
      <4> QED
        BY <1>3, <4>1, <4>2
    <3>3. CASE b \in n + 1..m
      BY <1>9, <3>1, <3>3
    <3>4. CASE b \in 1..n /\ a \in n + 1..m
      <4>1. log'[a].resp = n + 1 /\ log'[b].resp < n + 1
        BY <1>10, <3>1, <3>2, <3>4
      <4> QED
        BY <1>3, <2>2, <4>1
    <3>5. CASE b \in 1..n /\ a \in 1..n
      <4>1. Together(a, b)
        BY <2>2, <3>1, <3>2, <3>5 DEF Together
      <4> QED
        BY <2>1, <3>5, <4>1
    <3> QED
      BY <1>11, <3>3, <3>4, <3>5
  <2>3. CASE a \in Answers(b)'
    <3>1. log'[a].kind = "observation" /\ log'[a].of = b
      BY <2>3 DEF Answers
    <3>2. b \in 1..a - 1 /\ log'[b].kind = "action"
      BY <1>1, <1>2, <3>1 DEF LogInv
    <3>3. CASE b \in n + 1..m
      BY <1>9, <3>2, <3>3
    <3>4. CASE b \in 1..n /\ a \in 1..n
      <4>1. a \in Answers(b)
        BY <1>2, <3>1, <3>4 DEF Answers
      <4> QED
        BY <2>1, <3>4, <4>1 DEF Together
    <3>5. CASE b \in 1..n /\ a \in n + 1..m
      <4>1. b \in Actions /\ b \in Actions'
        BY <1>2, <3>2, <3>5 DEF Actions
      <4>2. Answers(b) = {}
        <5> SUFFICES ASSUME NEW o \in Answers(b) PROVE FALSE
          OBVIOUS
        <5>1. o \in 1..n /\ log[o].kind = "observation" /\ log[o].of = b
          BY <1>2 DEF Answers
        <5>2. o \in Answers(b)'
          BY <1>2, <1>4, <5>1 DEF Answers
        <5>3. o = a
          BY <2>3, <4>1, <5>2 DEF OrderlySoFar
        <5> QED
          BY <1>3, <3>5, <5>1, <5>3
      <4>3. b \in X
        BY <1>6, <4>1, <4>2 DEF UnansweredShown, X
      <4> QED
        BY <1>8, <4>3
    <3> QED
      BY <1>11, <3>3, <3>4, <3>5
  <2>4. CASE b \in Answers(a)'
    <3>1. log'[b].kind = "observation" /\ log'[b].of = a
      BY <2>4 DEF Answers
    <3>2. a \in 1..b - 1
      BY <1>1, <1>2, <3>1 DEF LogInv
    <3>3. CASE b \in n + 1..m
      BY <1>9, <3>1, <3>3
    <3>4. CASE b \in 1..n
      <4>1. a \in 1..n
        BY <1>3, <3>2, <3>4
      <4>2. b \in Answers(a)
        BY <1>2, <3>1, <3>4 DEF Answers
      <4> QED
        BY <2>1, <3>4, <4>1, <4>2 DEF Together
    <3> QED
      BY <1>11, <3>3, <3>4
  <2>5. ASSUME NEW i \in 1..m, Thinks(i)', a \in Loop(i)', b \in Loop(i)' PROVE b \in Y
    <3>1. CASE a \in n + 1..m
      BY <1>16, <2>5, <3>1
    <3>2. CASE b \in n + 1..m
      BY <1>16, <2>5, <3>2
    <3>3. CASE a \in 1..n /\ b \in 1..n
      <4>1. i \in 1..n /\ Thinks(i) /\ a \in Loop(i) /\ b \in Loop(i)
        BY <1>15, <2>5, <3>3
      <4> QED
        BY <1>2, <2>1, <3>3, <4>1 DEF Together
    <3> QED
      BY <1>11, <3>1, <3>2, <3>3
  <2> QED
    BY <1>2, <2>2, <2>3, <2>4, <2>5 DEF Together
<1>18. UnansweredShown'
  <2> SUFFICES ASSUME NEW i \in Actions', Answers(i)' = {} PROVE i \in Y
    BY DEF UnansweredShown, Y
  <2>1. i \in 1..m /\ log'[i].kind = "action"
    BY <1>2 DEF Actions
  <2>2. CASE i \in n + 1..m
    BY <1>9, <2>1, <2>2
  <2>3. CASE i \in 1..n
    <3>1. i \in Actions /\ Answers(i) \subseteq Answers(i)'
      BY <1>2, <1>4, <2>1, <2>3 DEF Actions, Answers
    <3>2. i \in X
      BY <1>6, <3>1, <2>3 DEF UnansweredShown, X
    <3> QED
      BY <1>8, <3>2
  <2> QED
    BY <1>11, <2>1, <2>2, <2>3
<1>19. OpenLoopsShown'
  <2> SUFFICES ASSUME NEW i \in 1..m, Thinks(i)', m \in Loop(i)' PROVE Loop(i)' \subseteq Y
    BY <1>2 DEF OpenLoopsShown, Y, m
  <2>1. CASE m \in n + 1..m
    BY <1>16, <2>1
  <2>2. CASE m = n
    <3> SUFFICES ASSUME NEW y \in Loop(i)' PROVE y \in Y
      OBVIOUS
    <3>1. y \in 1..n /\ n \in 1..n
      <4>1. y \in i..m /\ m \in i..m
        BY <1>15
      <4> QED
        BY <1>3, <2>2, <4>1
    <3>2. i \in 1..n /\ Thinks(i) /\ y \in Loop(i)
      BY <1>15, <3>1
    <3>3. n \in Loop(i)
      BY <1>15, <2>2, <3>1
    <3>4. Loop(i) \subseteq X
      BY <1>2, <1>6, <3>2, <3>3 DEF OpenLoopsShown, n, X
    <3> QED
      BY <1>8, <3>2, <3>4
  <2> QED
    BY <1>3, <2>1, <2>2
<1>20. InPlace'
  <2> SUFFICES ASSUME NEW p \in DOMAIN events', NEW q \in DOMAIN events', p < q,
                      NEW x, x = events'[p], NEW y, y = events'[q]
               PROVE  Latest(x)' < Latest(y)'
    BY DEF InPlace
  <2>1. \A id : id > 0 => Latest(id)' = id
    BY <1>1, <1>2, <1>4, LatestStays DEF HistoryInv
  <2>2. \A z \in X : Latest(z)' = Latest(z) /\ Latest(z) \in 1..n
    <3> TAKE z \in X
    <3> QED
      BY <1>1, <1>2, <1>4, ShownStays DEF X
  <2>3. DOMAIN events \subseteq Int /\ DOMAIN events' \subseteq Int
    BY <1>1 DEF EventsInv
  <2>4. CASE q \in DOMAIN events
    <3>1. p \in DOMAIN events
      <4>1. ASSUME p \notin DOMAIN events PROVE FALSE
        <5>1. q < p
          BY <1>2, <2>4, <4>1
        <5> QED
          BY <2>3, <5>1
      <4> QED
        BY <4>1
    <3>2. x = events[p] /\ y = events[q] /\ x \in X /\ y \in X
      BY <1>2, <2>4, <3>1 DEF ToSet, X
    <3>3. Latest(x) < Latest(y)
      BY <1>6, <2>4, <3>1, <3>2 DEF InPlace
    <3> QED
      BY <2>2, <3>2, <3>3
  <2>5. CASE q \notin DOMAIN events
    <3>1. y > n /\ y \in Int /\ x \in Int
      BY <1>1, <1>2, <2>5 DEF EventsInv, Ids
    <3>2. Latest(y)' = y
      BY <1>3, <2>1, <3>1
    <3>3. CASE p \in DOMAIN events
      <4>1. x = events[p] /\ x \in X
        BY <1>2, <3>3 DEF ToSet, X
      <4>2. Latest(x)' \in 1..n
        BY <2>2, <4>1
      <4> QED
        BY <1>3, <3>1, <3>2, <4>2
    <3>4. CASE p \notin DOMAIN events
      <4>1. x > n
        BY <1>2, <3>4
      <4>2. Latest(x)' = x
        BY <1>3, <2>1, <3>1, <4>1
      <4>3. x < y
        BY <1>1, <1>3, <3>1, <4>1 DEF EventsInv, Ordered
      <4> QED
        BY <3>2, <4>2, <4>3
    <3> QED
      BY <3>3, <3>4
  <2> QED
    BY <2>4, <2>5
\* New events are no summaries.
<1>21. SummariesApart'
  <2> SUFFICES ASSUME NEW p \in DOMAIN events', NEW r \in DOMAIN events', p < r,
                      Is(events[p], "action")', events'[r] < 0
               PROVE  \E q \in p..r : events'[q] \in Answers(events[p])'
    BY DEF SummariesApart
  <2>1. /\ DOMAIN events = 1..Len(events) /\ Len(events) \in Nat
        /\ DOMAIN events' = 1..Len(events') /\ Len(events') \in Nat
        /\ \A q \in DOMAIN events' : events'[q] \in Int
    BY <1>1 DEF EventsInv, Ids
  <2>2. r \in DOMAIN events
    BY <1>2, <1>3, <2>1
  <2>3. p \in DOMAIN events
    BY <1>2, <2>1, <2>2
  <2>4. events'[p] = events[p] /\ events'[r] = events[r] /\ events[p] \in X
    BY <1>2, <2>2, <2>3 DEF ToSet, X
  <2>5. PICK id : id = events[p]
    OBVIOUS
  <2>6. Is(id, "action")
    <3>1. Kind(id)' = "action"
      BY <2>4, <2>5 DEF Is, Kind
    <3>2. id < 0 \/ id \in DOMAIN log
      <4>1. id \in Ids
        BY <2>3, <2>5, <1>1 DEF EventsInv
      <4> QED
        BY <1>2, <1>3, <1>7, <2>4, <2>5, <4>1 DEF Ids
    <3> QED
      BY <1>2, <3>1, <3>2 DEF Is, Kind
  <2>7. PICK q \in p..r : events[q] \in Answers(id)
    BY <1>6, <2>2, <2>3, <2>4, <2>5, <2>6 DEF SummariesApart
  <2>8. q \in DOMAIN events
    BY <2>1, <2>2, <2>3
  <2>9. Answers(id) \subseteq Answers(id)'
    BY <1>2, <1>4 DEF Answers
  <2>10. events'[q] \in Answers(id)'
    BY <1>2, <2>7, <2>8, <2>9
  <2>11. Answers(events[p])' = Answers(id)'
    BY <2>4, <2>5 DEF Answers
  <2> QED
    BY <2>10, <2>11
<1> QED
  BY <1>17, <1>18, <1>19, <1>20, <1>21

(* An orderly history is one so far, and has all its calls answered.       *)
LEMMA OrderlyIs ==
  ASSUME LogInv, Orderly
  PROVE  OrderlySoFar /\ \A i \in Actions : Answers(i) # {}
<1>1. ASSUME NEW i \in Actions PROVE \E x : Answers(i) = {x}
  <2>1. Len(log) \in Nat /\ Answers(i) \subseteq 1..Len(log)
    BY DEF LogInv, Answers
  <2>2. IsFiniteSet(1..Len(log))
    <3>1. 1 \in Int /\ Len(log) \in Int
      BY <2>1
    <3> QED
      BY <3>1, FS_Interval
  <2>3. IsFiniteSet(Answers(i))
    BY <2>1, <2>2, FS_Subset
  <2>4. Cardinality(Answers(i)) = 1
    BY DEF Orderly
  <2> QED
    BY <2>3, <2>4, FS_Singleton
<1>2. ASSUME NEW i \in Actions PROVE Answers(i) # {} /\ \A a, b \in Answers(i) : a = b
  BY <1>1
<1> QED
  BY <1>2 DEF Orderly, OrderlySoFar

(* Once all calls are answered there is nothing to enforce.                *)
LEMMA NothingToEnforce ==
  ASSUME IInv, HistoryInv, OrderlyInv, OrderlySoFar, \A i \in Actions : Answers(i) # {}
  PROVE  view = events
<1> DEFINE X == ToSet(events)
           n == Len(log)
<1>1. /\ n \in Nat /\ DOMAIN log = 1..n
      /\ events \in Seq(Ids) /\ Ordered(events) /\ X \subseteq Ids
  BY DEF IInv, LogInv, EventsInv, ToSet
<1>2. \A id \in Ids : Is(id, "action") \/ Is(id, "observation") =>
        id \in 1..n /\ Kind(id) = log[id].kind
  BY <1>1 DEF Ids, Is, Kind
<1>3. \A o \in 1..n : log[o].kind = "observation" =>
        log[o].of \in 1..n /\ log[o].of \in Actions /\ o \in Answers(log[o].of)
  <2> SUFFICES ASSUME NEW o \in 1..n, log[o].kind = "observation"
               PROVE  log[o].of \in 1..n /\ log[o].of \in Actions /\ o \in Answers(log[o].of)
    OBVIOUS
  <2>1. log[o].of \in 1..o - 1 /\ log[log[o].of].kind = "action"
    BY <1>1 DEF IInv, LogInv
  <2>2. log[o].of \in 1..n
    BY <1>1, <2>1
  <2> QED
    BY <1>1, <2>1, <2>2 DEF Actions, Answers
<1>4. \A a, b \in 1..n : Together(a, b) /\ a \in X => b \in X
  BY <1>1 DEF OrderlyInv, NothingTorn
<1>5. RepeatedIn(X) = {}
  <2> SUFFICES ASSUME NEW o \in RepeatedIn(X) PROVE FALSE
    OBVIOUS
  <2>1. PICK f \in X : f < o /\ Is(f, "observation") /\ log[f].of = log[o].of
    BY DEF RepeatedIn
  <2>2. o \in X /\ Is(o, "observation")
    BY DEF RepeatedIn
  <2>3. /\ o \in 1..n /\ log[o].kind = "observation"
        /\ f \in 1..n /\ log[f].kind = "observation"
    BY <1>1, <1>2, <2>1, <2>2 DEF Is
  <2>4. log[o].of \in Actions /\ o \in Answers(log[o].of) /\ f \in Answers(log[o].of)
    BY <1>3, <2>1, <2>3
  <2>5. f = o
    BY <2>4 DEF OrderlySoFar
  <2> QED
    BY <2>1, <2>3, <2>5
<1>6. Whole(X)
  <2>1. ASSUME NEW id \in X, Is(id, "action")
        PROVE  Batch(log[id].resp) \subseteq X /\ Answers(id) \cap X # {}
    <3>1. id \in 1..n /\ id \in Actions
      BY <1>1, <1>2, <2>1 DEF Is, Actions
    <3>2. ASSUME NEW j \in Batch(log[id].resp) PROVE j \in X
      <4>1. j \in Actions /\ j \in 1..n /\ log[j].resp = log[id].resp
        BY <1>1 DEF Batch, Actions
      <4>2. Together(id, j)
        BY <3>1, <4>1 DEF Together
      <4> QED
        BY <1>4, <3>1, <4>1, <4>2
    <3>3. PICK o \in Answers(id) : TRUE
      BY <3>1
    <3>4. o \in 1..n /\ Together(id, o)
      BY <1>1 DEF Answers, Together
    <3>5. o \in X
      BY <1>4, <3>1, <3>4
    <3> QED
      BY <3>2, <3>5
  <2>2. ASSUME NEW id \in X, Is(id, "observation") PROVE log[id].of \in X
    <3>1. id \in 1..n /\ log[id].kind = "observation"
      BY <1>1, <1>2, <2>2 DEF Is
    <3>2. log[id].of \in 1..n /\ Together(id, log[id].of)
      BY <1>3, <3>1 DEF Together
    <3> QED
      BY <1>4, <3>1, <3>2
  <2>3. ASSUME NEW i \in DOMAIN log, Thinks(i), Loop(i) \cap X # {} PROVE Loop(i) \subseteq X
    <3>1. PICK y \in Loop(i) : y \in X
      BY <2>3
    <3>2. ASSUME NEW z \in Loop(i) PROVE z \in X
      <4>1. Loop(i) \subseteq 1..n
        BY <1>1 DEF Loop
      <4>2. Together(y, z)
        BY <2>3 DEF Together
      <4> QED
        BY <1>4, <3>1, <4>1, <4>2
    <3> QED
      BY <3>2
  <2> QED
    BY <2>1, <2>2, <2>3 DEF Whole
<1>7. Objection(events) = {}
  BY <1>1, <1>5, <1>6, WholeIs
<1> QED
  BY <1>7 DEF HistoryInv, CleanInv

(* Where the replay has all events from a to b, it has nothing else        *)
(* between them.                                                           *)
LEMMA Filled ==
  ASSUME IInv, HistoryInv, InPlace,
         NEW pa \in DOMAIN events, NEW pb \in DOMAIN events, NEW p \in pa..pb,
         NEW a, NEW b, a = events[pa], b = events[pb], a > 0, b > 0,
         \A x \in a..b : x \in ToSet(events)
  PROVE  events[p] \in a..b
<1> DEFINE x == events[p]
<1>1. /\ events \in Seq(Ids) /\ DOMAIN events = 1..Len(events) /\ Len(events) \in Nat
      /\ Len(log) \in Nat /\ DOMAIN log = 1..Len(log)
  BY DEF IInv, LogInv, EventsInv
<1>2. p \in DOMAIN events /\ pa \in Int /\ pb \in Int /\ p \in Int
  BY <1>1
<1>3. a \in Int /\ b \in Int /\ x \in Int
  BY <1>1, <1>2 DEF Ids
<1>4. \A z \in ToSet(events) : Latest(z) \in 1..Len(log) /\ (z > 0 => Latest(z) = z)
  BY <1>1, LatestShown DEF IInv, HistoryInv
<1>5. x \in ToSet(events) /\ a \in ToSet(events) /\ b \in ToSet(events)
  BY <1>2 DEF ToSet
<1>6. x = events[p]
  OBVIOUS
<1> HIDE DEF x
<1>7. a <= Latest(x) /\ (p # pa => a < Latest(x))
  <2>1. CASE p = pa
    <3>1. x = a
      BY <1>6, <2>1
    <3> QED
      BY <1>3, <1>4, <1>5, <2>1, <3>1
  <2>2. CASE p # pa
    <3>1. pa < p
      BY <1>2, <2>2
    <3>2. Latest(a) < Latest(x)
      BY <1>2, <1>6, <3>1 DEF InPlace
    <3> QED
      BY <1>3, <1>4, <1>5, <3>2
  <2> QED
    BY <2>1, <2>2
<1>8. Latest(x) <= Latest(b)
  <2>1. CASE p = pb
    <3>1. x = b
      BY <1>6, <2>1
    <3> QED
      BY <1>4, <1>5, <3>1
  <2>2. CASE p # pb
    <3>1. p < pb
      BY <1>2, <2>2
    <3>2. Latest(x) < Latest(b)
      BY <1>2, <1>6, <3>1 DEF InPlace
    <3> QED
      BY <1>4, <1>5, <3>2
  <2> QED
    BY <2>1, <2>2
<1>9. Latest(x) \in a..b
  <2>1. Latest(b) = b
    BY <1>4, <1>5
  <2> QED
    BY <1>3, <1>4, <1>5, <1>7, <1>8, <2>1
<1>10. CASE x > 0
  BY <1>4, <1>5, <1>6, <1>9, <1>10
<1>11. CASE ~(x > 0)
  <2> DEFINE l == Latest(x)
  <2>1. l \in a..b /\ l > 0 /\ l \in ToSet(events)
    BY <1>3, <1>9
  <2> HIDE DEF l
  <2>2. PICK q \in DOMAIN events : l = events[q]
    BY <2>1 DEF ToSet
  <2>3. Latest(l) = l
    BY <1>4, <2>1
  <2>4. q \in Int /\ q # p /\ l \in Int
    BY <1>1, <1>3, <1>6, <1>11, <2>1, <2>2
  <2>5. CASE q < p
    <3>1. Latest(l) < Latest(x)
      BY <1>2, <1>6, <2>2, <2>5 DEF InPlace
    <3> QED
      BY <2>3, <2>4, <3>1 DEF l
  <2>6. CASE p < q
    <3>1. Latest(x) < Latest(l)
      BY <1>2, <1>6, <2>2, <2>6 DEF InPlace
    <3> QED
      BY <2>3, <2>4, <3>1 DEF l
  <2> QED
    BY <1>2, <2>4, <2>5, <2>6
<1> QED
  BY <1>10, <1>11

(* What comes before an index of the view.                                 *)
Cut(k) == {view[p] : p \in 1..k}

(* A manipulation index separates no events that belong together.          *)
LEMMA CutsAreWhole ==
  ASSUME IInv, HistoryInv, OrderlyInv, OrderlySoFar, view = events,
         NEW k \in ManipulationIndices \union {0, Len(view)},
         NEW a \in DOMAIN log, NEW b \in DOMAIN log, Together(a, b), a \in Cut(k)
  PROVE  b \in Cut(k)
<1> SUFFICES ASSUME b \notin Cut(k) PROVE FALSE
  OBVIOUS
<1> DEFINE n == Len(log)
           X == ToSet(events)
           L == Len(view)
<1>1. /\ n \in Nat /\ DOMAIN log = 1..n
      /\ events \in Seq(Ids) /\ Ordered(events) /\ Distinct(events) /\ X \subseteq Ids
      /\ L \in Nat /\ DOMAIN events = 1..L
  BY DEF IInv, LogInv, EventsInv, ToSet
<1>2. k \in 0..L /\ (k \in 1..L - 1 => k \in ManipulationIndices)
  <2>1. ManipulationIndices \subseteq 0..L
    BY DEF ManipulationIndices
  <2>2. k \in ManipulationIndices \/ k = 0 \/ k = L
    OBVIOUS
  <2> HIDE DEF L
  <2> QED
    BY <1>1, <2>1, <2>2
<1>3. InPlace /\ \A x, y \in 1..n : Together(x, y) /\ x \in X => y \in X
  BY <1>1 DEF OrderlyInv, NothingTorn
<1> HIDE DEF L, n
<1>4. PICK pa \in 1..k : a = events[pa]
  BY DEF Cut
<1>5. pa \in DOMAIN events /\ a \in X
  BY <1>1, <1>2, <1>4 DEF ToSet
<1>6. b \in X
  BY <1>1, <1>3, <1>5
<1>7. PICK pb \in DOMAIN events : b = events[pb]
  BY <1>6 DEF ToSet
<1>8. pb \notin 1..k
  BY <1>7 DEF Cut
<1>9. pb > k /\ pa < pb /\ k \in 1..L - 1 /\ k \in pa..pb /\ k + 1 \in pa..pb
  BY <1>1, <1>2, <1>4, <1>7, <1>8
<1>10. k \in ManipulationIndices
  BY <1>2, <1>9
<1>11. a \in 1..n /\ b \in 1..n
  BY <1>1
<1>12. a < b
  <2>1. a < b \/ a >= b
    BY <1>11
  <2> QED
    BY <1>4, <1>5, <1>7, <1>9, <1>11, <2>1 DEF Ordered, IInv, EventsInv
<1>13. k \notin BetweenCalls /\ k \notin WhilePending /\ k \notin InLoop
  BY <1>10 DEF ManipulationIndices
<1> HIDE DEF X
<1>14. \A x \in 1..n : Kind(x) = log[x].kind
  BY <1>1 DEF Kind
<1>15. CASE a \in Actions /\ b \in Actions /\ log[a].resp = log[b].resp
  <2>1. \A x \in a..b : x \in Actions /\ log[x].resp = log[a].resp
    <3> TAKE x \in a..b
    <3>1. log[a].resp \in 1..a
      BY <1>15 DEF HistoryInv, ResponsesInv
    <3>2. x \in log[b].resp..b
      BY <1>11, <1>15, <3>1
    <3>3. /\ log[x].kind \in {"action", "observation"}
          /\ log[x].kind = "action" => log[x].resp = log[b].resp
      BY <1>15, <3>2 DEF HistoryInv, ResponsesInv
    <3>4. log[x].kind # "observation"
      BY <1>11, <1>12, <1>15 DEF OrderlySoFar
    <3>5. x \in DOMAIN log
      BY <1>1, <1>11
    <3> QED
      BY <1>15, <3>3, <3>4, <3>5 DEF Actions
  <2>2. \A x \in a..b : x \in X
    <3> TAKE x \in a..b
    <3>1. Together(a, x) /\ x \in 1..n
      BY <1>1, <1>11, <1>15, <2>1 DEF Together
    <3> QED
      BY <1>3, <1>5, <1>11, <3>1
  <2>3. \A p \in pa..pb : events[p] \in a..b
    <3> TAKE p \in pa..pb
    <3> QED
      BY <1>3, <1>4, <1>5, <1>7, <1>11, <2>2, Filled DEF X
  <2>4. \A x \in a..b : Is(x, "action") /\ log[x].resp = log[a].resp
    <3> TAKE x \in a..b
    <3>1. x \in 1..n
      BY <1>1, <1>11
    <3> QED
      BY <1>14, <2>1, <3>1 DEF Is, Actions
  <2>5. view[k] \in a..b /\ view[k + 1] \in a..b
    BY <1>9, <2>3
  <2>6. k \in BetweenCalls
    BY <1>9, <2>4, <2>5 DEF BetweenCalls, L
  <2> QED
    BY <1>13, <2>6
<1>16. CASE b \in Answers(a)
  <2>1. log[b].kind = "observation" /\ log[b].of = a
    BY <1>16 DEF Answers
  <2>2. log[a].kind = "action"
    BY <2>1 DEF IInv, LogInv
  <2>3. a \in Actions /\ Is(a, "action")
    BY <1>11, <1>14, <2>2 DEF Actions, Is
  <2>4. \A q \in 1..k : view[q] \notin Answers(a)
    <3> TAKE q \in 1..k
    <3>1. view[q] # b
      BY DEF Cut
    <3> QED
      BY <1>16, <2>3, <3>1 DEF OrderlySoFar
  <2>5. k \in WhilePending
    BY <1>4, <1>9, <2>3, <2>4 DEF WhilePending, L
  <2> QED
    BY <1>13, <2>5
<1>17. CASE a \in Answers(b)
  <2>1. log[a].kind = "observation" /\ log[a].of = b
    BY <1>17 DEF Answers
  <2>2. b \in 1..a - 1
    BY <2>1 DEF IInv, LogInv
  <2> QED
    BY <1>11, <1>12, <2>2
<1>18. ASSUME NEW i \in DOMAIN log, Thinks(i), a \in Loop(i), b \in Loop(i) PROVE FALSE
  <2>1. \A j \in Loop(i) : /\ j \in i..n
                           /\ \A l \in i..j : l \in Loop(i)
                           /\ Calls(j)
                           /\ j # i => ~Thinks(j)
    BY <1>18, LoopIs DEF IInv, n
  <2>2. i \in 1..n /\ i <= a /\ a <= b /\ i \in i..a
    BY <1>1, <1>11, <1>12, <1>18, <2>1
  <2>3. \A x \in i..b : x \in Loop(i)
    BY <1>18, <2>1
  <2>4. \A x \in i..b : x \in X
    <3> TAKE x \in i..b
    <3>1. Together(a, x) /\ x \in 1..n
      BY <1>1, <1>11, <1>18, <2>2, <2>3 DEF Together
    <3> QED
      BY <1>3, <1>5, <1>11, <3>1
  <2>5. PICK pi \in DOMAIN events : i = events[pi]
    <3>1. i \in X
      BY <2>2, <2>4, <1>11
    <3> QED
      BY <3>1 DEF ToSet, X
  <2>6. pi <= pa
    <3>1. ~(pa < pi)
      BY <1>4, <1>5, <1>11, <2>2, <2>5 DEF Ordered, IInv, EventsInv
    <3> QED
      BY <1>1, <1>5, <2>5, <3>1
  <2>7. \A p \in pi..pb : events[p] \in i..b
    <3> TAKE p \in pi..pb
    <3> QED
      BY <1>3, <1>7, <1>11, <2>2, <2>4, <2>5, Filled DEF X
  <2>8. k + 1 \in DOMAIN events /\ k + 1 \in pi..pb /\ k + 1 # pi /\ pi \in 1..k
    BY <1>1, <1>2, <1>4, <1>9, <2>5, <2>6
  <2>9. view[k + 1] # i
    BY <1>1, <2>5, <2>8 DEF Distinct
  <2>10. Calls(view[k + 1]) /\ ~Thinks(view[k + 1])
    BY <2>1, <2>3, <2>7, <2>8, <2>9
  <2>11. \A q \in pi..k : Calls(view[q])
    <3> TAKE q \in pi..k
    <3>1. q \in pi..pb
      BY <1>1, <1>2, <1>9, <2>5
    <3> QED
      BY <2>1, <2>3, <2>7, <3>1
  <2>12. k \in InLoop
    BY <1>9, <1>18, <2>5, <2>8, <2>10, <2>11 DEF InLoop, L
  <2> QED
    BY <1>13, <2>12
<1> QED
  BY <1>15, <1>16, <1>17, <1>18 DEF Together

(* What is left when a stretch is dropped.                                 *)
LEMMA DropStretch ==
  ASSUME NEW T, NEW v \in Seq(T), NEW start \in 0..Len(v), NEW end \in start..Len(v),
         NEW S, \A p \in 1..Len(v) : v[p] \in S <=> p \in start + 1..end
  PROVE  /\ Drop(v, S) \in Seq(T)
         /\ Len(Drop(v, S)) = Len(v) - (end - start)
         /\ \A i \in 1..start : Drop(v, S)[i] = v[i]
         /\ \A i \in start + 1..Len(v) - (end - start) : Drop(v, S)[i] = v[i + (end - start)]
<1>1. /\ Len(v) \in Nat /\ DOMAIN v = 1..Len(v) /\ \A i \in 1..Len(v) : v[i] \in T
      /\ start \in Nat /\ end \in Nat /\ start <= end /\ end <= Len(v)
  OBVIOUS
<1>2. PICK f : /\ f[0] = << >>
               /\ \A n \in 1..Len(v) :
                    f[n] = IF v[n] \in S THEN f[n - 1] ELSE Append(f[n - 1], v[n])
               /\ Drop(v, S) = f[Len(v)]
  BY <1>1, DropIs
<1> DEFINE At(i) == IF i <= start THEN i ELSE i + (end - start)
           Long(n) == IF n <= start THEN n ELSE IF n <= end THEN start ELSE n - (end - start)
           Good(u, n) == /\ u \in Seq(T) /\ Len(u) = Long(n)
                         /\ \A i \in 1..Len(u) : u[i] = v[At(i)]
           Bad == {n \in 0..Len(v) : ~Good(f[n], n)}
<1>3. \A n \in 1..Len(v) : v[n] \in S <=> n \in start + 1..end
  OBVIOUS
<1>4. Bad = {}
  <2> SUFFICES ASSUME Bad # {} PROVE FALSE
    OBVIOUS
  <2>1. PICK n \in Bad : \A l \in Bad : n <= l
    <3>1. Bad \in SUBSET Nat
      BY <1>1
    <3> HIDE DEF Bad
    <3> QED
      BY <3>1, LeastOf
  <2>2. n \in 0..Len(v) /\ ~Good(f[n], n)
    BY <2>1
  <2>3. Good(<< >>, 0)
    BY <1>1
  <2> HIDE DEF Good
  <2>4. n # 0
    BY <1>2, <2>2, <2>3
  <2>5. n \in 1..Len(v) /\ n - 1 \in 0..Len(v) /\ ~(n <= n - 1)
    BY <1>1, <2>2, <2>4
  <2> DEFINE u == f[n - 1]
  <2>6. Good(u, n - 1)
    BY <2>1, <2>5
  <2>7. f[n] = IF v[n] \in S THEN u ELSE Append(u, v[n])
    BY <1>2, <2>5
  <2> HIDE DEF u
  <2>8. CASE n \in start + 1..end
    <3>1. f[n] = u
      BY <1>3, <2>5, <2>7, <2>8
    <3>2. Long(n) = Long(n - 1)
      BY <1>1, <2>8
    <3>3. Good(f[n], n)
      BY <2>6, <3>1, <3>2 DEF Good
    <3> QED
      BY <2>2, <3>3
  <2>9. CASE n \notin start + 1..end
    <3>1. f[n] = Append(u, v[n]) /\ v[n] \in T
      BY <1>1, <1>3, <2>5, <2>7, <2>9
    <3>2. Long(n) = Long(n - 1) + 1 /\ At(Long(n)) = n
      BY <1>1, <2>5, <2>9
    <3>3. u \in Seq(T) /\ Len(u) = Long(n - 1) /\ \A i \in 1..Len(u) : u[i] = v[At(i)]
      BY <2>6 DEF Good
    <3> HIDE DEF Long, At
    <3>4. Good(f[n], n)
      BY <3>1, <3>2, <3>3 DEF Good
    <3> QED
      BY <2>2, <3>4
  <2> QED
    BY <2>8, <2>9
<1>5. Good(Drop(v, S), Len(v))
  <2>1. Len(v) \in 0..Len(v)
    BY <1>1
  <2> HIDE DEF Good
  <2> QED
    BY <1>2, <1>4, <2>1
<1> DEFINE w == Drop(v, S)
<1>6. w \in Seq(T) /\ Len(w) = Long(Len(v)) /\ \A i \in 1..Len(w) : w[i] = v[At(i)]
  BY <1>5
<1> HIDE DEF w
<1>7. Len(w) = Len(v) - (end - start)
  BY <1>1, <1>6
<1>8. \A i \in 1..start : i \in 1..Len(w) /\ At(i) = i
  BY <1>1, <1>7
<1>9. \A i \in start + 1..Len(v) - (end - start) : i \in 1..Len(w) /\ At(i) = i + (end - start)
  BY <1>1, <1>7
<1> HIDE DEF At
<1>10. /\ \A i \in 1..start : w[i] = v[i]
       /\ \A i \in start + 1..Len(v) - (end - start) : w[i] = v[i + (end - start)]
  BY <1>6, <1>8, <1>9
<1> QED
  BY <1>6, <1>7, <1>10 DEF w

(* Where the events of the replay are, once a stretch is forgotten.        *)
LEMMA ApplyIs ==
  ASSUME IInv, view = events, NEW c, NEW summary \in BOOLEAN, Apply(c, summary),
         NEW start \in 0..Len(view), NEW end \in start..Len(view),
         c.forgets = {view[p] : p \in start + 1..end}, c.offset = start
  PROVE  /\ summary => start + 1 \in DOMAIN events' /\ events'[start + 1] = -(Len(log) + 1)
         /\ \A p \in DOMAIN events' : (summary /\ p = start + 1)
              \/ \E q \in DOMAIN events :
                   /\ events'[p] = events[q]
                   /\ q \notin start + 1..end
                   /\ p <= start => q = p
                   /\ p > start => q = p + (end - start) - (IF summary THEN 1 ELSE 0)
<1> DEFINE L == Len(events)
           d == end - start
           kept == Drop(events, c.forgets)
           m == Len(log)
<1>1. /\ events \in Seq(Ids) /\ Distinct(events) /\ L \in Nat /\ DOMAIN events = 1..L
      /\ m \in Nat
  BY DEF IInv, EventsInv, LogInv
<1>2. /\ start \in 0..L /\ end \in start..L
      /\ \A p \in 1..L : events[p] \in c.forgets <=> p \in start + 1..end
  <2>1. c.forgets = {events[p] : p \in start + 1..end} /\ start \in 0..L /\ end \in start..L
    OBVIOUS
  <2> HIDE DEF L
  <2>2. \A p \in start + 1..end : p \in DOMAIN events
    BY <1>1, <2>1
  <2> QED
    BY <1>1, <2>1, <2>2 DEF Distinct
<1>3. /\ kept \in Seq(Ids)
      /\ Len(kept) = L - d
      /\ \A i \in 1..start : kept[i] = events[i]
      /\ \A i \in start + 1..L - d : kept[i] = events[i + d]
  <2> DEFINE F == c.forgets
             v == events
  <2>1. /\ v \in Seq(Ids) /\ start \in 0..Len(v) /\ end \in start..Len(v)
        /\ \A p \in 1..Len(v) : v[p] \in F <=> p \in start + 1..end
    BY <1>1, <1>2
  <2> HIDE DEF F, v
  <2>2. /\ Drop(v, F) \in Seq(Ids)
        /\ Len(Drop(v, F)) = Len(v) - (end - start)
        /\ \A i \in 1..start : Drop(v, F)[i] = v[i]
        /\ \A i \in start + 1..Len(v) - (end - start) : Drop(v, F)[i] = v[i + (end - start)]
    BY <2>1, DropStretch
  <2> QED
    BY <2>2 DEF F, v
<1>4. d \in Nat /\ start \in Nat /\ end \in Nat /\ start + d = end /\ start <= L - d /\ end <= L
  BY <1>1, <1>2
<1>5. Len(log') = m + 1
  BY CondensationAdds DEF IInv
<1> DEFINE id == -(m + 1)
<1>6. events' = IF summary THEN InsertAt(kept, Min({c.offset, Len(kept)}) + 1, id) ELSE kept
  <2>1. -Len(log') = id
    BY <1>5
  <2> QED
    BY <2>1 DEF Apply
<1> HIDE DEF kept, L, d, m
<1>7. Min({c.offset, Len(kept)}) = start
  <2>1. c.offset = start /\ start <= Len(kept) /\ Len(kept) \in Nat
    BY <1>1, <1>3, <1>4
  <2>2. \E x \in {c.offset, Len(kept)} : \A y \in {c.offset, Len(kept)} : x <= y
    BY <1>4, <2>1
  <2> DEFINE K == {c.offset, Len(kept)}
             x == Min(K)
  <2>3. x \in K /\ \A y \in K : x <= y
    BY <2>2 DEF Min
  <2> HIDE DEF x
  <2>4. x = start
    BY <1>4, <2>1, <2>3
  <2> QED
    BY <2>4 DEF x
<1>8. CASE ~summary
  <2>1. events' = kept /\ DOMAIN events' = 1..L - d
    BY <1>1, <1>3, <1>4, <1>6, <1>8
  <2>2. ASSUME NEW p \in DOMAIN events', p <= start
        PROVE  p \in DOMAIN events /\ events'[p] = events[p] /\ p \notin start + 1..end
    BY <1>1, <1>3, <1>4, <2>1, <2>2
  <2>3. ASSUME NEW p \in DOMAIN events', p > start
        PROVE  /\ p + d - 0 \in DOMAIN events /\ events'[p] = events[p + d - 0]
               /\ p + d - 0 \notin start + 1..end
    <3>1. p \in start + 1..L - d /\ p + d - 0 = p + d
      BY <1>1, <1>4, <2>1, <2>3
    <3>2. p + d \in 1..L /\ p + d \notin start + 1..end
      BY <1>1, <1>4, <3>1
    <3>3. events'[p] = events[p + d]
      BY <1>3, <2>1, <3>1
    <3> QED
      BY <1>1, <3>1, <3>2, <3>3
  <2>4. DOMAIN events' \subseteq Int
    BY <2>1
  <2> HIDE DEF id
  <2>5. ASSUME NEW p \in DOMAIN events'
        PROVE  \E q \in DOMAIN events :
                   /\ events'[p] = events[q]
                   /\ q \notin start + 1..end
                   /\ p <= start => q = p
                   /\ p > start => q = p + d - 0
    <3>1. CASE p <= start
      BY <1>4, <2>2, <2>4, <3>1
    <3>2. CASE p > start
      BY <1>4, <2>3, <2>4, <3>2
    <3> QED
      BY <1>4, <2>4, <3>1, <3>2
  <2> QED
    BY <1>8, <2>5 DEF d
<1>9. CASE summary
  <2> DEFINE T == Ids \union {id}
  <2>1. events' = InsertAt(kept, start + 1, id)
    BY <1>6, <1>7, <1>9
  <2>2. kept \in Seq(T) /\ start \in 0..Len(kept) /\ id \in T
    <3>1. Ids \subseteq T
      OBVIOUS
    <3>2. kept \in Seq(T)
      <4> HIDE DEF T
      <4> QED
        BY <1>3, <3>1, SeqWidens
    <3> QED
      BY <1>1, <1>3, <1>4, <3>2
  <2> HIDE DEF T, id
  <2> DEFINE w == events'
  <2>3. w = InsertAt(kept, start + 1, id)
    BY <2>1
  <2> HIDE DEF w
  <2>4. w \in Seq(T) /\ Len(w) = Len(kept) + 1
    BY <2>2, <2>3, InsertAtIs
  <2>5. \A i \in 1..start : w[i] = kept[i]
    BY <2>2, <2>3, InsertAtIs
  <2>6. w[start + 1] = id
    BY <2>2, <2>3, InsertAtIs
  <2>7. \A i \in start + 2..Len(kept) + 1 : w[i] = kept[i - 1]
    BY <2>2, <2>3, InsertAtIs
  <2>8. /\ events' \in Seq(T)
        /\ Len(events') = Len(kept) + 1
        /\ \A i \in 1..start : events'[i] = kept[i]
        /\ events'[start + 1] = id
        /\ \A i \in start + 2..Len(kept) + 1 : events'[i] = kept[i - 1]
    BY <2>4, <2>5, <2>6, <2>7 DEF w
  <2>9. DOMAIN events' = 1..L - d + 1
    BY <1>1, <1>3, <1>4, <2>8
  <2>10. start + 1 \in DOMAIN events'
    BY <1>1, <1>4, <2>9
  <2>11. ASSUME NEW p \in DOMAIN events', p <= start
        PROVE  p \in DOMAIN events /\ events'[p] = events[p] /\ p \notin start + 1..end
    BY <1>1, <1>3, <1>4, <2>8, <2>9, <2>11
  <2>12. ASSUME NEW p \in DOMAIN events', p > start + 1
        PROVE  /\ p + d - 1 \in DOMAIN events /\ events'[p] = events[p + d - 1]
               /\ p + d - 1 \notin start + 1..end
    <3>1. p \in start + 2..L - d + 1 /\ p - 1 \in start + 1..L - d /\ (p - 1) + d = p + d - 1
      BY <1>1, <1>4, <2>9, <2>12
    <3>2. events'[p] = kept[p - 1] /\ kept[p - 1] = events[p + d - 1]
      BY <1>3, <2>8, <3>1
    <3> QED
      BY <1>1, <1>4, <3>1, <3>2
  <2>13. DOMAIN events' \subseteq Int
    BY <2>9
  <2>14. ASSUME NEW p \in DOMAIN events', p # start + 1
        PROVE  \E q \in DOMAIN events :
                   /\ events'[p] = events[q]
                   /\ q \notin start + 1..end
                   /\ p <= start => q = p
                   /\ p > start => q = p + d - 1
    <3>1. CASE p <= start
      BY <1>4, <2>11, <2>13, <3>1
    <3>2. CASE p > start + 1
      BY <1>4, <2>12, <2>13, <3>2
    <3> QED
      BY <1>4, <2>13, <2>14, <3>1, <3>2
  <2> QED
    BY <1>9, <2>8, <2>10, <2>14 DEF d, id, m
<1> QED
  BY <1>8, <1>9

(* A condensation keeps what the history says of responses and             *)
(* condensations.                                                          *)
LEMMA ApplyHistory ==
  ASSUME IInv, HistoryInv, NEW c, Forgotten(c), NEW summary \in BOOLEAN, Apply(c, summary)
  PROVE  HistoryInv'
<1> DEFINE n == Len(log)
           X == ToSet(events)
<1>1. /\ n \in Nat /\ DOMAIN log = 1..n /\ Len(log') = n + 1 /\ DOMAIN log' = 1..n + 1
      /\ \A i \in 1..n : log'[i] = log[i]
      /\ \A k : k = n + 1 => log'[k] = [kind |-> "condensation", forgets |-> c.forgets]
      /\ \A i \in 1..n : Answers(i)' = Answers(i)
  BY CondensationAdds DEF IInv, LogInv
<1> HIDE DEF n
<1>2. /\ EventsInv'
      /\ X \subseteq Ids
      /\ ToSet(events)' \subseteq (X \ c.forgets) \union {- Len(log')}
  BY CondensationKeeps DEF IInv, EventsInv, ToSet
<1>3. c.forgets \subseteq X /\ c.forgets # {}
  <2>1. ToSet(view) \subseteq X
    BY DEF IInv, ViewIsLargest
  <2>2. PICK start, end \in ManipulationIndices \union {0, Len(view)} :
          start < end /\ c.forgets = {view[p] : p \in start + 1..end}
    BY DEF Forgotten, Stretch
  <2>3. start + 1 \in start + 1..end
    <3>1. Len(view) \in Nat
      BY DEF IInv, ViewInv
    <3>2. ManipulationIndices \subseteq 0..Len(view)
      BY DEF ManipulationIndices
    <3>3. start \in 0..Len(view) /\ end \in 0..Len(view)
      BY <3>1, <3>2
    <3> QED
      BY <2>2, <3>1, <3>3
  <2> QED
    BY <2>1, <2>2, <2>3 DEF Forgotten
<1>4. \A i \in 1..n + 1 : (i \in 1..n /\ log'[i] = log[i])
                          \/ (i = n + 1 /\ log'[i].kind = "condensation")
  BY <1>1
<1>5. Actions' = Actions
  BY <1>1, <1>4 DEF Actions
<1>6. Condensations' = Condensations \union {n + 1}
  BY <1>1, <1>4 DEF Condensations
<1>7. ResponsesInv'
  <2> SUFFICES ASSUME NEW i \in Actions
               PROVE  /\ log'[i].resp \in 1..i
                      /\ \A k \in log'[i].resp..i :
                           /\ log'[k].kind \in {"action", "observation"}
                           /\ log'[k].kind = "action" => log'[k].resp = log'[i].resp
    BY <1>5 DEF ResponsesInv
  <2>1. i \in 1..n /\ log'[i] = log[i]
    BY <1>1 DEF Actions
  <2>2. /\ log[i].resp \in 1..i
        /\ \A k \in log[i].resp..i :
             /\ log[k].kind \in {"action", "observation"}
             /\ log[k].kind = "action" => log[k].resp = log[i].resp
    BY DEF HistoryInv, ResponsesInv
  <2>3. \A k \in log[i].resp..i : log'[k] = log[k]
    BY <1>1, <2>1, <2>2
  <2> QED
    BY <2>1, <2>2, <2>3
<1>8. ErrorsInv'
  <2> SUFFICES ASSUME NEW i \in Actions, ~log'[i].valid PROVE i + 1 \in Answers(i)'
    BY <1>5 DEF ErrorsInv
  <2>1. i \in 1..n /\ log'[i] = log[i]
    BY <1>1 DEF Actions
  <2> QED
    BY <1>1, <2>1 DEF HistoryInv, ErrorsInv
<1>9. SummariesInv'
  <2> SUFFICES ASSUME NEW d \in Condensations \union {n + 1}
               PROVE  /\ log'[d].forgets # {}
                      /\ \A x \in log'[d].forgets :
                           /\ x \in Int /\ x # 0 /\ -d < x /\ x < d
                           /\ x < 0 => -x \in Condensations'
    BY <1>6 DEF SummariesInv
  <2>1. CASE d \in Condensations
    <3>1. log'[d] = log[d]
      BY <1>1, <2>1 DEF Condensations
    <3> QED
      BY <1>6, <2>1, <3>1 DEF HistoryInv, SummariesInv
  <2>2. CASE d = n + 1
    <3>1. log'[d].forgets = c.forgets
      BY <1>1, <2>2
    <3>2. ASSUME NEW x \in c.forgets
          PROVE  /\ x \in Int /\ x # 0 /\ -d < x /\ x < d
                 /\ x < 0 => -x \in Condensations'
      <4>1. x \in X /\ x \in Ids
        BY <1>2, <1>3
      <4>2. x \in Int /\ x # 0 /\ -n <= x /\ x <= n
        BY <4>1 DEF Ids, n
      <4>3. x < 0 => -x \in Condensations
        BY <4>1 DEF HistoryInv, KnownInv
      <4> QED
        BY <1>1, <1>6, <2>2, <4>2, <4>3
    <3> QED
      BY <1>3, <3>1, <3>2
  <2> QED
    BY <2>1, <2>2
<1>10. KnownInv'
  <2> SUFFICES ASSUME NEW x \in ToSet(events)', x < 0 PROVE -x \in Condensations'
    BY DEF KnownInv
  <2>1. CASE x \in X
    BY <1>6, <2>1 DEF HistoryInv, KnownInv
  <2>2. CASE x = -Len(log')
    <3>1. -x = n + 1
      BY <1>1, <2>2
    <3> QED
      BY <1>6, <3>1
  <2> QED
    BY <1>2, <2>1, <2>2
<1>11. CleanInv'
  <2>1. (view = Enforced(events))'
    BY DEF Apply
  <2> QED
    BY <1>2, <2>1, CleanView, PTL
<1> QED
  BY <1>7, <1>8, <1>9, <1>10, <1>11 DEF HistoryInv

(* A condensation keeps an orderly history in its place and together.      *)
LEMMA ApplyOrderly ==
  ASSUME IInv, IInv', HistoryInv, HistoryInv', OrderlyInv, Pending = {},
         NEW c, Forgotten(c), NEW summary \in BOOLEAN, Apply(c, summary)
  PROVE  OrderlyInv'
<1>1. (LogInv /\ SummariesInv =>
         \A k \in Condensations : /\ Latest(-k) \in 1..k - 1
                                  /\ \E x \in log[k].forgets : Latest(-k) = Latest(x))'
  BY LatestBounds, PTL
<1> SUFFICES ASSUME OrderlySoFar'
             PROVE  /\ InPlace' /\ NothingTorn' /\ UnansweredShown'
                    /\ OpenLoopsShown' /\ SummariesApart'
  BY DEF OrderlyInv
<1> DEFINE n == Len(log)
           X == ToSet(events)
           L == Len(view)
<1>2. /\ LogInv /\ EventsInv /\ LogInv' /\ EventsInv'
      /\ n \in Nat /\ DOMAIN log = 1..n /\ Len(log') = n + 1 /\ DOMAIN log' = 1..n + 1
      /\ \A i \in 1..n : log'[i] = log[i]
      /\ \A k : k = n + 1 => log'[k] = [kind |-> "condensation", forgets |-> c.forgets]
      /\ \A i \in 1..n : /\ Thinks(i)' <=> Thinks(i)
                         /\ Answers(i)' = Answers(i) /\ Loop(i)' = Loop(i)
  BY CondensationAdds DEF IInv, LogInv
<1>3. DOMAIN log \subseteq DOMAIN log' /\ \A i \in DOMAIN log : log'[i] = log[i]
  BY <1>2
<1>4. OrderlySoFar
  BY <1>2, <1>3, OrderlyBefore
<1>5. \A i \in Actions : Answers(i) # {}
  BY DEF HistoryInv, ErrorsInv, Pending
<1>6. view = events
  BY <1>4, <1>5, NothingToEnforce
<1>7. InPlace /\ NothingTorn /\ SummariesApart
  BY <1>4 DEF OrderlyInv
<1>8. \A i \in 1..n + 1 : i \in 1..n \/ (i = n + 1 /\ log'[i].kind = "condensation")
  BY <1>2
<1>9. Actions' = Actions /\ Actions \subseteq 1..n
  BY <1>2, <1>8 DEF Actions
<1>10. L \in Nat /\ DOMAIN events = 1..L /\ Distinct(events) /\ X \subseteq Ids
  BY <1>2, <1>6 DEF EventsInv, ToSet
<1>11. PICK start, end \in ManipulationIndices \union {0, L} :
         /\ start < end
         /\ c.forgets = {view[p] : p \in start + 1..end}
         /\ c.offset = start
  BY DEF Forgotten, Stretch
<1>12. start \in 0..L /\ end \in 0..L /\ end \in start..L /\ start \in Nat /\ end \in Nat
  <2>1. ManipulationIndices \subseteq 0..L
    BY DEF ManipulationIndices
  <2> HIDE DEF L
  <2>2. start \in 0..L /\ end \in 0..L
    BY <1>10, <1>11, <2>1
  <2> QED
    BY <1>10, <1>11, <2>2
<1> HIDE DEF n, X
<1>13. /\ summary => start + 1 \in DOMAIN events' /\ events'[start + 1] = -(n + 1)
       /\ \A p \in DOMAIN events' : (summary /\ p = start + 1)
            \/ \E q \in DOMAIN events :
                 /\ events'[p] = events[q]
                 /\ q \notin start + 1..end
                 /\ p <= start => q = p
                 /\ p > start => q = p + (end - start) - (IF summary THEN 1 ELSE 0)
  <2> HIDE DEF L
  <2>1. start \in 0..Len(view) /\ end \in start..Len(view)
    BY <1>12 DEF L
  <2>2. /\ summary => start + 1 \in DOMAIN events' /\ events'[start + 1] = -(Len(log) + 1)
        /\ \A p \in DOMAIN events' : (summary /\ p = start + 1)
             \/ \E q \in DOMAIN events :
                  /\ events'[p] = events[q]
                  /\ q \notin start + 1..end
                  /\ p <= start => q = p
                  /\ p > start => q = p + (end - start) - (IF summary THEN 1 ELSE 0)
    BY <1>6, <1>11, <2>1, ApplyIs
  <2> QED
    BY <2>2 DEF n
<1>14. UnansweredShown'
  <2>1. \A i \in Actions' : Answers(i)' # {}
    BY <1>2, <1>5, <1>9
  <2> QED
    BY <2>1 DEF UnansweredShown
<1>15. \A i \in 1..n + 1 : Thinks(i)' =>
         i \in 1..n /\ Loop(i)' = Loop(i) /\ Thinks(i) /\ Loop(i) \subseteq 1..n
  <2> SUFFICES ASSUME NEW i \in 1..n + 1, Thinks(i)' PROVE i \in 1..n /\ Loop(i) \subseteq 1..n
    BY <1>2
  <2>1. ~(i < 0)
    BY <1>2
  <2>2. log'[i].kind = "action"
    BY <2>1 DEF Thinks, Is, Kind
  <2>3. i \in 1..n
    BY <1>8, <2>2
  <2> QED
    BY <1>2, <2>3 DEF Loop, n
<1>16. OpenLoopsShown'
  <2>1. n + 1 \notin 1..n
    BY <1>2
  <2>2. ASSUME NEW i \in 1..n + 1, Thinks(i)' PROVE n + 1 \notin Loop(i)'
    BY <1>15, <2>1, <2>2
  <2> QED
    BY <1>2, <2>2 DEF OpenLoopsShown
<1>17. ToSet(events)' = (X \ c.forgets) \union (IF summary THEN {-(n + 1)} ELSE {})
  <2>1. X \ c.forgets \subseteq ToSet(events)'
    BY CondensationKeeps DEF X
  <2>2. /\ summary => start + 1 \in DOMAIN events' /\ events'[start + 1] = -(n + 1)
        /\ \A p \in DOMAIN events' : (summary /\ p = start + 1)
             \/ \E q \in DOMAIN events : events'[p] = events[q] /\ q \notin start + 1..end
    BY <1>13
  <2>3. \A q \in DOMAIN events : q \notin start + 1..end => events[q] \in X \ c.forgets
    <3> SUFFICES ASSUME NEW q \in DOMAIN events, q \notin start + 1..end, events[q] \in c.forgets
                 PROVE  FALSE
      BY DEF X, ToSet
    <3>1. PICK p \in start + 1..end : events[q] = events[p]
      BY <1>6, <1>11
    <3>2. p \in DOMAIN events
      BY <1>10, <1>12
    <3> QED
      BY <1>10, <3>1, <3>2 DEF Distinct
  <2>4. summary => -(n + 1) \in ToSet(events)'
    BY <2>2 DEF ToSet
  <2>5. ASSUME NEW p \in DOMAIN events'
        PROVE  events'[p] \in (X \ c.forgets) \union (IF summary THEN {-(n + 1)} ELSE {})
    BY <2>2, <2>3
  <2>6. ToSet(events)' = {events'[p] : p \in DOMAIN events'}
    BY DEF ToSet
  <2> QED
    BY <2>1, <2>4, <2>5, <2>6
<1>18. \A x \in X : x \in c.forgets <=> x \in Cut(end) /\ x \notin Cut(start)
  <2> TAKE x \in X
  <2>1. PICK q \in DOMAIN events : x = events[q]
    BY DEF X, ToSet
  <2>2. \A k \in 0..L : x \in Cut(k) <=> q <= k
    <3> TAKE k \in 0..L
    <3>1. \A p \in 1..k : p \in DOMAIN events
      BY <1>10
    <3>2. x \in Cut(k) <=> \E p \in 1..k : p = q
      BY <1>6, <1>10, <2>1, <3>1 DEF Cut, Distinct
    <3> QED
      BY <1>10, <3>2
  <2>3. x \in c.forgets <=> q \in start + 1..end
    <3>1. \A p \in start + 1..end : p \in DOMAIN events
      BY <1>10, <1>12
    <3> QED
      BY <1>6, <1>10, <1>11, <2>1, <3>1 DEF Distinct
  <2> QED
    BY <1>10, <1>12, <2>2, <2>3
<1>19. ASSUME NEW a \in 1..n, NEW b \in 1..n, Together(a, b), a \in X, a \notin c.forgets
       PROVE  b \in X /\ b \notin c.forgets
  <2>1. b \in X
    BY <1>2, <1>7, <1>19 DEF NothingTorn, X
  <2>2. Together(b, a)
    BY <1>19 DEF Together
  <2>3. \A k \in {start, end} : a \in Cut(k) <=> b \in Cut(k)
    <3> TAKE k \in {start, end}
    <3>1. k \in ManipulationIndices \union {0, Len(view)}
      BY DEF L
    <3> HIDE DEF L
    <3>2. a \in Cut(k) => b \in Cut(k)
      BY <1>2, <1>4, <1>6, <1>19, <3>1, CutsAreWhole
    <3>3. b \in Cut(k) => a \in Cut(k)
      BY <1>2, <1>4, <1>6, <2>2, <3>1, CutsAreWhole
    <3> QED
      BY <3>2, <3>3
  <2> QED
    BY <1>18, <1>19, <2>1, <2>3
<1>20. NothingTorn'
  <2> SUFFICES ASSUME NEW a \in 1..n + 1, NEW b \in 1..n + 1, Together(a, b)',
                      a \in ToSet(events)'
               PROVE  b \in ToSet(events)'
    BY <1>2 DEF NothingTorn
  <2>1. /\ \A i \in Actions : log'[i].resp = log[i].resp
    BY <1>2, <1>9
  <2>2. \A i \in 1..n + 1 : \A o \in Answers(i)' : i \in 1..n /\ o \in 1..n /\ o \in Answers(i)
    <3> SUFFICES ASSUME NEW i \in 1..n + 1, NEW o \in Answers(i)'
                 PROVE  i \in 1..n /\ o \in 1..n
      BY <1>2
    <3>1. o \in 1..n + 1 /\ log'[o].kind = "observation" /\ log'[o].of = i
      BY <1>2 DEF Answers
    <3>2. o \in 1..n
      BY <1>8, <3>1
    <3>3. i \in 1..o - 1
      BY <1>2, <3>1 DEF LogInv
    <3> QED
      BY <1>2, <3>2, <3>3
  <2>3. a \in 1..n /\ b \in 1..n /\ Together(a, b)
    <3>1. CASE a \in Actions' /\ b \in Actions' /\ log'[a].resp = log'[b].resp
      BY <1>9, <2>1, <3>1 DEF Together
    <3>2. CASE a \in Answers(b)'
      BY <2>2, <3>2 DEF Together
    <3>3. CASE b \in Answers(a)'
      BY <2>2, <3>3 DEF Together
    <3>4. ASSUME NEW i \in 1..n + 1, Thinks(i)', a \in Loop(i)', b \in Loop(i)'
          PROVE  a \in 1..n /\ b \in 1..n /\ Together(a, b)
      <4>1. i \in 1..n /\ Thinks(i) /\ a \in Loop(i) /\ b \in Loop(i) /\ Loop(i) \subseteq 1..n
        BY <1>15, <3>4
      <4> QED
        BY <1>2, <4>1 DEF Together
    <3> QED
      BY <1>2, <3>1, <3>2, <3>3, <3>4 DEF Together
  <2>4. a \in X \ c.forgets
    <3>1. a # -(n + 1)
      BY <1>2, <2>3
    <3> QED
      BY <1>17, <3>1
  <2> QED
    BY <1>17, <1>19, <2>3, <2>4
<1>21. InPlace'
  <2> SUFFICES ASSUME NEW p \in DOMAIN events', NEW q \in DOMAIN events', p < q,
                      NEW x, x = events'[p], NEW y, y = events'[q]
               PROVE  Latest(x)' < Latest(y)'
    BY DEF InPlace
  <2>1. \A z \in X : Latest(z)' = Latest(z) /\ Latest(z) \in 1..n
    <3> TAKE z \in X
    <3> QED
      BY <1>2, <1>3, ShownStays DEF X
  <2>2. DOMAIN events' \subseteq Int
    BY <1>2 DEF EventsInv
  <2> DEFINE e == IF summary THEN 1 ELSE 0
  <2>3. e \in {0, 1} /\ (summary => e = 1) /\ (~summary => e = 0)
    OBVIOUS
  <2>4. \A r \in DOMAIN events' : (summary /\ r = start + 1)
          \/ \E s \in DOMAIN events : /\ events'[r] = events[s]
                                      /\ s \notin start + 1..end
                                      /\ r <= start => s = r
                                      /\ r > start => s = r + (end - start) - e
    BY <1>13
  <2>5. summary => events'[start + 1] = -(n + 1)
    BY <1>13
  <2> HIDE DEF e
  \* Two entries that were there.
  <2>6. ASSUME ~(summary /\ p = start + 1), ~(summary /\ q = start + 1)
        PROVE  Latest(x)' < Latest(y)'
    <3>1. PICK s \in DOMAIN events : /\ x = events[s]
                                     /\ s \notin start + 1..end
                                     /\ p <= start => s = p
                                     /\ p > start => s = p + (end - start) - e
      BY <2>4, <2>6
    <3>2. PICK t \in DOMAIN events : /\ y = events[t]
                                     /\ t \notin start + 1..end
                                     /\ q <= start => t = q
                                     /\ q > start => t = q + (end - start) - e
      BY <2>4, <2>6
    <3>3. s < t
      BY <1>10, <1>11, <1>12, <2>2, <2>3, <3>1, <3>2
    <3>4. Latest(x) < Latest(y)
      BY <1>7, <3>1, <3>2, <3>3 DEF InPlace
    <3>5. x \in X /\ y \in X
      BY <3>1, <3>2 DEF X, ToSet
    <3> QED
      BY <2>1, <3>4, <3>5
  \* The summary stands for the last of what is forgotten.
  <2>7. ASSUME NEW id, id = -(n + 1)
        PROVE  \E u \in start + 1..end : \A z \in {events[u]} : z \in X /\ Latest(id)' = Latest(z)
    <3>1. PICK k : k = n + 1
      OBVIOUS
    <3>2. k \in Condensations' /\ log'[k].forgets = c.forgets /\ -k = id
      BY <1>2, <2>7, <3>1 DEF Condensations
    <3>3. PICK z \in c.forgets : Latest(-k)' = Latest(z)'
      BY <1>1, <1>2, <3>2 DEF HistoryInv
    <3>4. PICK u \in start + 1..end : z = events[u]
      BY <1>6, <1>11
    <3>5. z \in X
      BY <1>10, <1>12, <3>4 DEF X, ToSet
    <3>6. Latest(id)' = Latest(z)
      BY <2>1, <3>2, <3>3, <3>5
    <3> QED
      BY <3>4, <3>5, <3>6
  \* The summary and an entry that was there, before it or after it.
  <2>8. CASE summary /\ p = start + 1
    <3>1. x = -(n + 1)
      BY <2>5, <2>8
    <3>2. PICK u \in start + 1..end : \A z \in {events[u]} : z \in X /\ Latest(x)' = Latest(z)
      BY <2>7, <3>1
    <3>3. PICK z : z = events[u]
      OBVIOUS
    <3>4. PICK t \in DOMAIN events : /\ y = events[t]
                                     /\ q > start => t = q + (end - start) - e
      <4>1. q # start + 1
        BY <1>12, <2>2, <2>8
      <4> QED
        BY <2>4, <4>1
    <3>5. u \in DOMAIN events /\ u < t
      BY <1>10, <1>11, <1>12, <2>2, <2>3, <2>8, <3>4
    <3>6. Latest(z) < Latest(y) /\ y \in X
      BY <1>7, <3>3, <3>4, <3>5 DEF InPlace, X, ToSet
    <3> QED
      BY <2>1, <3>2, <3>3, <3>6
  <2>9. CASE summary /\ q = start + 1
    <3>1. y = -(n + 1)
      BY <2>5, <2>9
    <3>2. PICK u \in start + 1..end : \A z \in {events[u]} : z \in X /\ Latest(y)' = Latest(z)
      BY <2>7, <3>1
    <3>3. PICK z : z = events[u]
      OBVIOUS
    <3>4. PICK s \in DOMAIN events : /\ x = events[s]
                                     /\ p <= start => s = p
      <4>1. p # start + 1
        BY <1>12, <2>2, <2>9
      <4> QED
        BY <2>4, <4>1
    <3>5. u \in DOMAIN events /\ s < u
      BY <1>10, <1>11, <1>12, <2>2, <2>9, <3>4
    <3>6. Latest(x) < Latest(z) /\ x \in X
      BY <1>7, <3>3, <3>4, <3>5 DEF InPlace, X, ToSet
    <3> QED
      BY <2>1, <3>2, <3>3, <3>6
  <2> QED
    BY <2>6, <2>8, <2>9
\* The answers of the calls before the summary are before it.
<1>22. SummariesApart'
  <2> SUFFICES ASSUME NEW p \in DOMAIN events', NEW r \in DOMAIN events', p < r,
                      Is(events[p], "action")', events'[r] < 0,
                      NEW id, id = events'[p]
               PROVE  \E q \in p..r : events'[q] \in Answers(id)'
    BY DEF SummariesApart
  <2> DEFINE e == IF summary THEN 1 ELSE 0
  <2>1. e \in {0, 1} /\ (summary => e = 1) /\ (~summary => e = 0)
    OBVIOUS
  <2>2. \A u \in DOMAIN events' : (summary /\ u = start + 1)
          \/ \E v \in DOMAIN events : /\ events'[u] = events[v]
                                      /\ v \notin start + 1..end
                                      /\ u <= start => v = u
                                      /\ u > start => v = u + (end - start) - e
    BY <1>13
  <2>3. summary => events'[start + 1] = -(n + 1)
    BY <1>13
  <2> HIDE DEF e
  <2>4. /\ DOMAIN events' \subseteq Int /\ \A u \in DOMAIN events' : events'[u] \in Int
        /\ DOMAIN events \subseteq Int /\ \A u \in DOMAIN events : events[u] \in Int
    BY <1>2 DEF EventsInv, Ids
  <2>5. ~(id < 0)
    BY DEF Is, Kind
  <2>6. ~(summary /\ p = start + 1)
    BY <1>2, <2>3, <2>5
  <2>7. PICK s \in DOMAIN events : /\ id = events[s]
                                   /\ s \notin start + 1..end
                                   /\ p <= start => s = p
                                   /\ p > start => s = p + (end - start) - e
    BY <2>2, <2>6
  <2>8. id \in X /\ id \in 1..n /\ id \in Ids
    <3>1. id \in X
      BY <2>7 DEF X, ToSet
    <3>2. id \in Ids
      BY <1>10, <3>1
    <3> QED
      BY <1>2, <2>5, <3>1, <3>2 DEF Ids, n
  <2>9. Is(id, "action") /\ Answers(id)' = Answers(id) /\ id \in Actions
    <3>1. log'[id].kind = "action"
      BY <2>5 DEF Is, Kind
    <3>2. log[id].kind = "action"
      BY <1>2, <2>8, <3>1
    <3> QED
      BY <1>2, <2>5, <2>8, <3>2 DEF Is, Kind, Actions
  \* It is enough to find an answer in the replay that stays.
  <2>10. ASSUME NEW u \in DOMAIN events', NEW v \in DOMAIN events, events[v] \in Answers(id),
               events'[u] = events[v], u <= r
         PROVE  \E q \in p..r : events'[q] \in Answers(id)'
    <3>1. p <= u
      <4> SUFFICES ASSUME u < p PROVE FALSE
        BY <2>4
      <4>1. events[v] \in 1..n /\ id < events[v]
        <5>1. events[v] \in DOMAIN log /\ log[events[v]].kind = "observation"
              /\ log[events[v]].of = id
          BY <2>10 DEF Answers
        <5>2. id \in 1..events[v] - 1
          BY <1>2, <5>1 DEF LogInv
        <5> QED
          BY <1>2, <5>1, <5>2
      <4>2. events'[u] < events'[p]
        BY <1>2, <2>8, <2>10, <4>1 DEF EventsInv, Ordered
      <4> QED
        BY <1>2, <2>8, <2>10, <4>1, <4>2
    <3>2. u \in p..r
      BY <2>4, <2>10, <3>1
    <3> QED
      BY <2>9, <2>10, <3>2
  <2>11. CASE summary /\ r = start + 1
    <3>1. p <= start /\ s = p /\ s \in 1..start
      BY <1>10, <1>12, <2>4, <2>7, <2>11
    <3>2. id \in Cut(start)
      BY <1>6, <2>7, <3>1 DEF Cut
    <3>3. PICK o \in Answers(id) : o \in 1..n /\ Together(id, o)
      <4>1. PICK o \in Answers(id) : TRUE
        BY <1>5, <2>9
      <4> QED
        BY <1>2, <4>1 DEF Answers, Together
    <3>4. o \in Cut(start)
      <4>1. start \in ManipulationIndices \union {0, Len(view)}
        BY DEF L
      <4> HIDE DEF L
      <4> QED
        BY <1>2, <1>4, <1>6, <2>8, <3>2, <3>3, <4>1, CutsAreWhole
    <3>5. PICK v \in 1..start : o = events[v]
      BY <1>6, <3>4 DEF Cut
    <3>6. v \in DOMAIN events /\ v < r /\ v \in Int
      BY <1>10, <1>12, <2>11
    <3>7. o \in X /\ o \notin c.forgets
      <4>1. o \in X
        BY <3>5, <3>6 DEF X, ToSet
      <4> QED
        BY <1>18, <3>4, <4>1
    <3>8. PICK u \in DOMAIN events' : events'[u] = o
      <4>1. o \in ToSet(events)'
        BY <1>17, <3>7
      <4> QED
        BY <4>1 DEF ToSet
    <3>9. u <= r
      <4>1. ~(summary /\ u = start + 1)
        BY <1>2, <2>3, <3>3, <3>8
      <4>2. PICK w \in DOMAIN events : /\ o = events[w]
                                       /\ u <= start => w = u
                                       /\ u > start => w = u + (end - start) - e
        BY <2>2, <3>8, <4>1
      <4>3. w = v
        BY <1>10, <3>5, <3>6, <4>2 DEF Distinct
      <4> QED
        BY <1>12, <2>1, <2>4, <2>11, <3>5, <3>6, <4>1, <4>2, <4>3
    <3> QED
      BY <2>10, <3>3, <3>5, <3>6, <3>8, <3>9
  <2>12. CASE ~(summary /\ r = start + 1)
    <3>1. PICK t \in DOMAIN events : /\ events'[r] = events[t]
                                     /\ t \notin start + 1..end
                                     /\ r <= start => t = r
                                     /\ r > start => t = r + (end - start) - e
      BY <2>2, <2>12
    <3>2. s < t
      BY <1>10, <1>11, <1>12, <2>1, <2>4, <2>6, <2>7, <2>12, <3>1
    <3>3. PICK v \in s..t : events[v] \in Answers(id)
      BY <1>7, <2>7, <2>9, <3>1, <3>2 DEF SummariesApart
    <3>4. v \in DOMAIN events /\ v \in Int
      BY <1>10, <2>4, <2>7, <3>1
    <3>5. PICK o : o = events[v]
      OBVIOUS
    <3>6. o \in 1..n /\ Together(id, o) /\ o \in X
      BY <1>2, <3>3, <3>4, <3>5 DEF Answers, Together, X, ToSet
    <3>7. id \notin c.forgets
      <4>1. ASSUME NEW z \in start + 1..end, id = events[z] PROVE FALSE
        <5>1. z \in DOMAIN events
          BY <1>10, <1>12
        <5>2. z = s
          BY <1>10, <2>7, <4>1, <5>1 DEF Distinct
        <5> QED
          BY <2>7, <5>2
      <4> QED
        BY <1>6, <1>11, <4>1
    <3>8. o \notin c.forgets
      BY <1>19, <2>8, <3>6, <3>7
    <3>9. PICK u \in DOMAIN events' : events'[u] = o
      <4>1. o \in ToSet(events)'
        BY <1>17, <3>6, <3>8
      <4> QED
        BY <4>1 DEF ToSet
    <3>10. u <= r
      <4>1. ~(summary /\ u = start + 1)
        BY <1>2, <2>3, <3>6, <3>9
      <4>2. PICK w \in DOMAIN events : /\ o = events[w]
                                       /\ w \notin start + 1..end
                                       /\ u <= start => w = u
                                       /\ u > start => w = u + (end - start) - e
        BY <2>2, <3>9, <4>1
      <4>3. w = v
        BY <1>10, <3>4, <3>5, <4>2 DEF Distinct
      <4>4. w <= t /\ w \in Int /\ t \in Int /\ u \in Int /\ r \in Int
        BY <2>4, <3>3, <4>3, <3>1
      <4> QED
        BY <1>11, <1>12, <2>1, <2>12, <3>1, <4>1, <4>2, <4>4
    <3> QED
      BY <2>10, <3>3, <3>4, <3>5, <3>9, <3>10
  <2> QED
    BY <2>11, <2>12
<1> QED
  BY <1>14, <1>16, <1>20, <1>21, <1>22

(* A history of one message.                                               *)
LEMMA InitIsOrderly == Init => HistoryInv /\ OrderlyInv
<1> SUFFICES ASSUME Init PROVE HistoryInv /\ OrderlyInv
  OBVIOUS
<1> DEFINE m == [kind |-> "message"]
<1>1. log = <<m>> /\ events = <<1>> /\ view = <<1>>
  BY DEF Init
<1>2. /\ Len(log) = 1 /\ DOMAIN log = {1} /\ log[1].kind = "message"
      /\ DOMAIN events = {1} /\ events[1] = 1
  BY <1>1
<1>3. Actions = {} /\ Condensations = {} /\ ToSet(events) = {1} /\ ~Thinks(1)
  BY <1>2 DEF Actions, Condensations, ToSet, Thinks, Is, Kind
<1>4. ResponsesInv /\ ErrorsInv /\ SummariesInv /\ UnansweredShown
  BY <1>3 DEF ResponsesInv, ErrorsInv, SummariesInv, UnansweredShown
<1>5. KnownInv /\ CleanInv
  BY <1>1, <1>3 DEF KnownInv, CleanInv
<1>6. InPlace /\ NothingTorn /\ OpenLoopsShown /\ SummariesApart
  BY <1>2, <1>3 DEF InPlace, NothingTorn, OpenLoopsShown, SummariesApart
<1> QED
  BY <1>4, <1>5, <1>6 DEF HistoryInv, OrderlyInv

(* A stuttering step.                                                      *)
LEMMA StutterIsOrderly ==
  ASSUME IInv, IInv', HistoryInv, OrderlyInv, UNCHANGED vars
  PROVE  HistoryInv' /\ OrderlyInv'
<1>1. log' = log /\ events' = events /\ view' = view
  BY DEF vars
<1>2. /\ Actions' = Actions /\ Condensations' = Condensations
      /\ ToSet(events)' = ToSet(events)
      /\ \A i : Answers(i)' = Answers(i) /\ (Thinks(i)' <=> Thinks(i)) /\ Loop(i)' = Loop(i)
  BY <1>1 DEF Actions, Condensations, Answers, Thinks, Loop, Calls, Is, Kind
<1>3. ResponsesInv' /\ ErrorsInv' /\ SummariesInv' /\ KnownInv'
  BY <1>1, <1>2 DEF HistoryInv, ResponsesInv, ErrorsInv, SummariesInv, KnownInv
<1>4. CleanInv'
  <2>1. Objection(events)' = Objection(events)
    BY <1>1 DEF Objection, Repeated, TornBatches, Unpaired, TornLoops, Loop, Is, Kind, Answers,
       Batch, Actions, Thinks, Calls
  <2> QED
    BY <1>1, <2>1 DEF HistoryInv, CleanInv
<1>5. HistoryInv'
  BY <1>3, <1>4 DEF HistoryInv
<1>6. ASSUME OrderlySoFar'
      PROVE  /\ InPlace' /\ NothingTorn' /\ UnansweredShown'
             /\ OpenLoopsShown' /\ SummariesApart'
  <2>1. OrderlySoFar
    BY <1>1, <1>2, <1>6 DEF OrderlySoFar
  <2>2. InPlace'
    <3> SUFFICES ASSUME NEW p \in DOMAIN events', NEW q \in DOMAIN events', p < q,
                        NEW x, x = events'[p], NEW y, y = events'[q]
                 PROVE  Latest(x)' < Latest(y)'
      BY DEF InPlace
    <3>1. x \in ToSet(events) /\ y \in ToSet(events)
      BY <1>1 DEF ToSet
    <3>2. Latest(x)' = Latest(x) /\ Latest(y)' = Latest(y)
      BY <1>1, <1>5, <3>1, ShownStays DEF IInv
    <3>3. Latest(x) < Latest(y)
      BY <1>1, <2>1 DEF OrderlyInv, InPlace
    <3> QED
      BY <3>2, <3>3
  <2>3. NothingTorn' /\ UnansweredShown' /\ OpenLoopsShown'
    BY <1>1, <1>2, <2>1 DEF OrderlyInv, NothingTorn, Together, UnansweredShown, OpenLoopsShown
  <2>4. SummariesApart'
    BY <1>1, <2>1 DEF OrderlyInv, SummariesApart, Is, Kind, Answers
  <2> QED
    BY <2>2, <2>3, <2>4
<1> QED
  BY <1>5, <1>6 DEF OrderlyInv

(* Every step keeps what makes the enforcement needless.                   *)
LEMMA OrderIsKept ==
  IInv /\ IInv' /\ HistoryInv /\ OrderlyInv /\ [Next]_vars => HistoryInv' /\ OrderlyInv'
<1> SUFFICES ASSUME IInv, IInv', HistoryInv, OrderlyInv, [Next]_vars
             PROVE  HistoryInv' /\ OrderlyInv'
  OBVIOUS
<1>1. CASE Grow
  <2>1. PICK es \in Seq(Plain) : Extend(es) /\ InOrder(es) /\ Responded(es)
    BY <1>1, GrowIs DEF IInv
  <2>2. HistoryInv'
    BY <2>1, ExtendHistory
  <2> QED
    BY <2>1, <2>2, ExtendOrderly
<1>2. CASE Condense \/ HardReset
  <2>1. PICK c, summary : summary \in BOOLEAN /\ Forgotten(c) /\ Apply(c, summary)
    BY <1>2, CondensationIs
  <2>2. Pending = {}
    BY <1>2 DEF Condense, HardReset
  <2>3. HistoryInv'
    BY <2>1, ApplyHistory
  <2> QED
    BY <2>1, <2>2, <2>3, ApplyOrderly
<1>3. CASE UNCHANGED vars
  BY <1>3, StutterIsOrderly
<1> QED
  BY <1>1, <1>2, <1>3 DEF Next, Grow
------------------------------------------------------------------------------
(* The theorems                                                            *)

(* So it holds throughout.                                                 *)
LEMMA Invariant == Spec => []IInv
<1> QED
  BY InitHolds, Invariance, PTL DEF Spec

\* The properties object in any order and as often as they like
\* (View.enforce_properties()): what is left is the largest part of the
\* events without the second observations that none of them objects to.
THEOREM EnforcementIsLargest == Spec => []ViewIsLargest
<1>1. IInv => ViewIsLargest
  BY DEF IInv
<1> QED
  BY <1>1, Invariant, PTL

\* A condensation makes the view shorter where the minimum progress is more
\* than one event (LLMSummarizingCondenser): what the enforcement drops
\* besides does not come back, and no second observation becomes a first.
THEOREM CondensationProgresses == Spec => CondensationShrinks
<1> DEFINE Shrinks == /\ \E c \in DOMAIN log' \ DOMAIN log : log'[c].kind = "condensation"
                      /\ Len(view) * MinProgress > 100
                      => Len(view') < Len(view)
<1>1. ASSUME IInv, [Next]_vars PROVE Shrinks \/ UNCHANGED vars
  <2>1. CASE Grow
    <3>1. \A c \in DOMAIN log' \ DOMAIN log : log'[c].kind # "condensation"
      BY <1>1, <2>1, GrowKeeps
    <3> QED
      BY <3>1
  <2>2. CASE Condense \/ HardReset
    <3>1. PICK c, summary : summary \in BOOLEAN /\ Forgotten(c) /\ Apply(c, summary)
      BY <1>1, <2>2, CondensationIs
    <3>2. Len(view) * MinProgress > 100 => Len(view') < Len(view)
      BY <1>1, <3>1, CondensationIsProgress
    <3> QED
      BY <3>2
  <2>3. CASE UNCHANGED vars
    BY <2>3
  <2> QED
    BY <1>1, <2>1, <2>2, <2>3 DEF Next, Grow
<1>2. IInv /\ [Next]_vars => [Shrinks]_vars
  BY <1>1
<1>3. Spec => [][Shrinks]_vars
  BY <1>2, Invariant, PTL DEF Spec
<1> QED
  BY <1>3 DEF CondensationShrinks

(* And so does what makes the enforcement needless.                        *)
LEMMA OrderInvariant == Spec => [](IInv /\ HistoryInv /\ OrderlyInv)
<1>1. Init => IInv /\ HistoryInv /\ OrderlyInv
  BY InitHolds, InitIsOrderly
<1>2. IInv /\ HistoryInv /\ OrderlyInv /\ [Next]_vars => (IInv /\ HistoryInv /\ OrderlyInv)'
  BY Invariance, OrderIsKept
<1> QED
  BY <1>1, <1>2, PTL DEF Spec

\* Whatever the history, its condensations and its repeated observations,
\* the LLM is shown every call with exactly one observation after it, no
\* observation without its call, and only whole responses and tool loops
\* (View.enforce_properties()).  In an orderly history no summary, nor
\* anything else that the history does not have there, comes between a call
\* and its observation (ManipulationIndices.find_next()).
THEOREM ViewIsCoherent == Spec => []PromptIsCoherent
<1>1. IInv /\ HistoryInv /\ OrderlyInv => (Orderly => NothingInserted)
  <2> SUFFICES ASSUME IInv, HistoryInv, OrderlyInv, Orderly PROVE NothingInserted
    OBVIOUS
  <2>1. OrderlySoFar /\ \A i \in Actions : Answers(i) # {}
    BY OrderlyIs DEF IInv
  <2>2. view = events
    BY <2>1, NothingToEnforce
  <2>3. InPlace /\ SummariesApart
    BY <2>1 DEF OrderlyInv
  <2>4. LogInv /\ EventsInv /\ SummariesInv /\ KnownInv
    BY DEF IInv, HistoryInv
  <2> SUFFICES ASSUME NEW p \in DOMAIN events, NEW q \in DOMAIN events, NEW r \in p..q,
                      events[q] \in Answers(events[p]),
                      NEW x, x = events[r], NEW i, i = events[p], NEW o, o = events[q]
               PROVE  x \in i..o
    BY <2>2 DEF NothingInserted
  <2>5. /\ DOMAIN events = 1..Len(events) /\ Len(events) \in Nat
        /\ Len(log) \in Nat /\ DOMAIN log = 1..Len(log)
        /\ Distinct(events) /\ \A z \in DOMAIN events : events[z] \in Ids
    BY <2>4 DEF LogInv, EventsInv
  <2>6. r \in DOMAIN events /\ p <= r /\ r <= q /\ p \in Int /\ q \in Int /\ r \in Int
    BY <2>5
  <2>7. o \in DOMAIN log /\ log[o].kind = "observation" /\ log[o].of = i
    BY DEF Answers
  <2>8. i \in 1..o - 1 /\ log[i].kind = "action"
    BY <2>4, <2>7 DEF LogInv
  <2>9. Is(i, "action") /\ i \in Actions
    BY <2>5, <2>7, <2>8 DEF Is, Kind, Actions
  <2>10. \A z \in ToSet(events) : Latest(z) \in DOMAIN log /\ (z > 0 => Latest(z) = z)
    BY <2>4, LatestShown
  <2>11. x \in ToSet(events) /\ i \in ToSet(events) /\ o \in ToSet(events) /\ x \in Ids
    BY <2>5, <2>6 DEF ToSet
  <2>12. ~(x < 0)
    <3> SUFFICES ASSUME x < 0 PROVE FALSE
      OBVIOUS
    <3>1. p < r
      <4>1. p # r
        BY <2>5, <2>7, <2>8
      <4> QED
        BY <2>6, <4>1
    <3>2. PICK a \in p..r : events[a] \in Answers(i)
      BY <2>3, <2>6, <2>9, <3>1 DEF SummariesApart
    <3>3. events[a] = o
      BY <2>1, <2>9, <3>2 DEF OrderlySoFar
    <3>4. a = q
      BY <2>5, <2>6, <3>2, <3>3 DEF Distinct
    <3>5. x = o
      BY <2>6, <3>2, <3>4
    <3> QED
      BY <2>5, <2>7, <3>5
  <2>13. x > 0 /\ x \in Int /\ i > 0 /\ o > 0 /\ i \in Int /\ o \in Int
    BY <2>5, <2>7, <2>8, <2>11, <2>12 DEF Ids
  <2>14. i <= x
    <3>1. p = r \/ Latest(i) < Latest(x)
      BY <2>3, <2>6 DEF InPlace
    <3> QED
      BY <2>10, <2>11, <2>13, <3>1
  <2>15. x <= o
    <3>1. r = q \/ Latest(x) < Latest(o)
      BY <2>3, <2>6 DEF InPlace
    <3> QED
      BY <2>10, <2>11, <2>13, <3>1
  <2> QED
    BY <2>13, <2>14, <2>15
<1>2. IInv /\ HistoryInv /\ OrderlyInv => PromptIsCoherent
  BY <1>1, Coherent DEF IInv, ViewInv
<1> QED
  BY <1>2, OrderInvariant, PTL

\* Condensation at the manipulation indices leaves nothing to enforce, "the
\* properties should hold inductively": as long as every call has its one
\* answer after its response, the LLM is shown all that was not summarised
\* (LLMSummarizingCondenser, ManipulationIndices).
THEOREM NothingIsLeftToEnforce == Spec => []NothingIsEnforced
<1>1. IInv /\ HistoryInv /\ OrderlyInv => NothingIsEnforced
  <2> SUFFICES ASSUME IInv, HistoryInv, OrderlyInv, Orderly PROVE view = events
    BY DEF NothingIsEnforced
  <2>1. OrderlySoFar /\ \A i \in Actions : Answers(i) # {}
    BY OrderlyIs DEF IInv
  <2> QED
    BY <2>1, NothingToEnforce
<1> QED
  BY <1>1, OrderInvariant, PTL

\* A summary takes the place of what it summarises (Condensation.apply()):
\* summaries of summaries included, what the LLM is shown stays in the order
\* of the history.
THEOREM SummariesAreInPlace == Spec => []Chronological
<1>1. IInv /\ HistoryInv /\ OrderlyInv => Chronological
  <2> SUFFICES ASSUME IInv, HistoryInv, OrderlyInv, Orderly,
                      NEW p \in DOMAIN view, NEW q \in DOMAIN view, p < q
               PROVE  Latest(view[p]) < Latest(view[q])
    BY DEF Chronological
  <2>1. OrderlySoFar /\ \A i \in Actions : Answers(i) # {}
    BY OrderlyIs DEF IInv
  <2>2. view = events
    BY <2>1, NothingToEnforce
  <2> QED
    BY <2>1, <2>2 DEF OrderlyInv, InPlace
<1> QED
  BY <1>1, OrderInvariant, PTL
==============================================================================
