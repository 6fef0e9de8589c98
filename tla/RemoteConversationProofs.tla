----------------------- MODULE RemoteConversationProofs -----------------------
(***************************************************************************)
(* RemoteConversation for any history of the server, any number of         *)
(* messages, runs, reconnections, overtakings and failures, any threshold. *)
(*                                                                         *)
(* What insertions and the loop of reconcile() do to the client's copy is  *)
(* proved first: it keeps its order, if it has one, and gains the events.  *)
(* Then the handshake: what the copy lacks is bounded by what the answer   *)
(* of reconcile() will bring, and is nothing afterwards.                   *)
(***************************************************************************)
EXTENDS RemoteConversation, WellFoundedInduction, TLAPS

Attaching == conn \in {"subscribed", "open"}
Missing == ToSet(log) \ (Cached \union ToSet(chan))
Answer(n) == {log[i] : i \in 1..n}
Distinct(c) == \A i, j \in DOMAIN c : i < j => c[i] # c[j]

(* What TypeOK needs to be inductive: the counters have not reached their  *)
(* bounds where they are counted.                                          *)
BoundsInv == /\ pc \notin {"refresh", "fallback", "last_merge"} => polls < Threshold
             /\ task # "tail" => iter < MaxIterations

(* An event is emitted once, also one that waited for its turn.            *)
LogInv == /\ Distinct(log)
          /\ early # 0 => early \notin ToSet(log) /\ kind[early] \notin Terminal

(* Events are on their way in the order of the log, however many of them   *)
(* have been overtaken, and only while there is a connection.              *)
ChannelInv == /\ ~Attaching => chan = << >>
              /\ early # 0 => early \notin ToSet(chan)
              /\ \A i, j \in DOMAIN chan : \A a, b \in DOMAIN log :
                   i < j /\ chan[i] = log[a] /\ chan[j] = log[b] => a < b

(* The handshake over the first connection.  The server subscribes the     *)
(* client, then sends it the state: as soon as that is on its way, what is *)
(* missing has been stored, so that the answer of reconcile(), which waits *)
(* for the state, brings it; and once that is merged, nothing is missing.  *)
HandshakeInv ==
  /\ pc = "sync" => conn = "none"
  /\ conn = "none" /\ ~gaps => ~ready
  /\ pc \notin {"sync", "connecting", "failed"} => ready
  /\ Attaching /\ ~gaps =>
       /\ ready \/ chan # << >> \/ conn = "open" => Missing \subseteq Answer(stored)
       /\ pc = "merge" => Missing \subseteq Answer(fetched)
       /\ pc \notin {"sync", "connecting", "reconcile", "merge", "failed"}
            => Missing = {}

(* A terminal status that the socket brought to a run() has every event up *)
(* to it before it in the copy, as long as no event overtakes another.     *)
Waits == pc \in {"running", "waiting", "polling", "refresh", "fallback", "last_merge"}
QueueInv == Waits /\ ~gaps /\ ~overtaken => \A e \in ToSet(wsq) : UpTo(e) \subseteq Cached

(* All but the last event that the decisive poll met are stored, and are   *)
(* in the answer that the fallback of run() gets.                          *)
FallbackInv ==
  /\ pc \in {"refresh", "fallback"} => stored >= mark - 1
  /\ pc = "last_merge" /\ ~torn => fetched >= mark - 1

IInv == /\ CacheSorted /\ BoundsInv /\ LogInv /\ ChannelInv /\ HandshakeInv
        /\ QueueInv /\ FallbackInv
------------------------------------------------------------------------------
(* The copy                                                                *)

(* A sequence over a set is one over a larger set.                         *)
LEMMA SeqWidens ==
  ASSUME NEW S, NEW T, S \subseteq T, NEW c \in Seq(S)
  PROVE  c \in Seq(T)
<1>1. /\ Len(c) \in Nat
      /\ c = [i \in 1..Len(c) |-> c[i]]
      /\ \A i \in 1..Len(c) : c[i] \in S
  OBVIOUS
<1>2. \A i \in 1..Len(c) : c[i] \in T
  BY <1>1
<1> QED
  BY <1>1, <1>2

(* What an insertion after the first k elements gives.                     *)
LEMMA InsertAtIs ==
  ASSUME NEW S, NEW c \in Seq(S), NEW k \in 0..Len(c), NEW e \in S,
         NEW new, new = InsertAt(c, k + 1, e)
  PROVE  /\ new \in Seq(S)
         /\ Len(new) = Len(c) + 1
         /\ \A i \in 1..k : new[i] = c[i]
         /\ new[k + 1] = e
         /\ \A i \in k + 2..Len(c) + 1 : new[i] = c[i - 1]
<1> DEFINE a == SubSeq(c, 1, k)
           b == SubSeq(c, k + 1, Len(c))
<1>1. k \in Int /\ Len(c) \in Nat /\ (k + 1) - 1 = k
  OBVIOUS
<1>2. InsertAt(c, k + 1, e) = a \o <<e>> \o b
  BY <1>1 DEF InsertAt
<1>3. a \in Seq(S) /\ Len(a) = k /\ \A i \in 1..k : a[i] = c[i]
  BY <1>1
<1>4. b \in Seq(S) /\ Len(b) = Len(c) - k /\ \A i \in 1..Len(c) - k : b[i] = c[k + i]
  BY <1>1
<1> HIDE DEF a, b
<1>5. /\ a \o <<e>> \in Seq(S)
      /\ Len(a \o <<e>>) = k + 1
      /\ \A i \in 1..k : (a \o <<e>>)[i] = a[i]
      /\ (a \o <<e>>)[k + 1] = e
  BY <1>1, <1>3
<1> DEFINE f == a \o <<e>>
<1> HIDE DEF f
<1>6. f \in Seq(S) /\ Len(f) = k + 1
  BY <1>5 DEF f
<1>7. /\ f \o b \in Seq(S)
      /\ Len(f \o b) = Len(c) + 1
      /\ \A i \in 1..k + 1 : (f \o b)[i] = f[i]
      /\ \A i \in k + 2..Len(c) + 1 : (f \o b)[i] = b[i - (k + 1)]
  <2>1. f \in Seq(S) /\ b \in Seq(S)
    BY <1>4, <1>6
  <2>2. f \o b \in Seq(S) /\ Len(f \o b) = Len(f) + Len(b)
    BY <2>1
  <2>3. \A i \in 1..Len(f) : (f \o b)[i] = f[i]
    BY <2>1
  <2>4. \A i \in Len(f) + 1..Len(f) + Len(b) : (f \o b)[i] = b[i - Len(f)]
    BY <2>1
  <2>5. Len(f) + 1 = k + 2 /\ Len(f) + Len(b) = Len(c) + 1
    BY <1>1, <1>4, <1>6
  <2> QED
    BY <1>6, <2>2, <2>3, <2>4, <2>5
<1>8. \A i \in k + 2..Len(c) + 1 : b[i - (k + 1)] = c[i - 1]
  <2> TAKE i \in k + 2..Len(c) + 1
  <2>1. i - (k + 1) \in 1..Len(c) - k /\ k + (i - (k + 1)) = i - 1
    BY <1>1
  <2> QED
    BY <1>4, <2>1
<1>9. new = f \o b
  BY <1>2 DEF f
<1>10. /\ \A i \in 1..k : f[i] = c[i]
       /\ f[k + 1] = e
  BY <1>3, <1>5 DEF f
<1>11. \A i \in 1..k : i \in 1..k + 1
  BY <1>1
<1>12. (\A i \in 1..k : new[i] = c[i]) /\ new[k + 1] = e
  <2>1. k + 1 \in 1..k + 1
    BY <1>1
  <2>2. new[k + 1] = e
    BY <1>7, <1>9, <1>10, <2>1
  <2> QED
    BY <1>7, <1>9, <1>10, <1>11, <2>2
<1>13. \A i \in k + 2..Len(c) + 1 : new[i] = c[i - 1]
  BY <1>7, <1>8, <1>9
<1> QED
  BY <1>7, <1>9, <1>12, <1>13

(* A set of numbers that is not empty has a least one: what stands here    *)
(* for an induction.                                                       *)
LEMMA LeastOf ==
  ASSUME NEW S \in SUBSET Nat, S # {}
  PROVE  \E x \in S : \A y \in S : x <= y
<1>1. PICK x \in S : \A y \in S : ~(<<y, x>> \in OpToRel(<, Nat))
  BY NatLessThanWellFounded, WFMin
<1>2. \A y \in S : ~(y < x)
  BY <1>1 DEF OpToRel
<1> QED
  BY <1>2

(* In an ordered copy, bisect_right parts what is not later from what is.  *)
LEMMA BeforeSplits ==
  ASSUME NEW c \in Seq(Nat), InOrder(c), NEW e \in Nat, NEW k \in Before(c, e)
  PROVE  \A i \in DOMAIN c : i <= k <=> c[i] <= e
<1>1. /\ k \in 0..Len(c) /\ Len(c) \in Nat /\ DOMAIN c = 1..Len(c)
      /\ k > 0 => c[k] <= e
      /\ k < Len(c) => e < c[k + 1]
  BY DEF Before
<1>2. ASSUME NEW i \in 1..Len(c) PROVE i <= k <=> c[i] <= e
  <2>1. c[i] \in Nat
    BY <1>2
  <2>2. CASE i <= k
    <3>1. k \in 1..Len(c) /\ c[k] \in Nat /\ c[k] <= e
      BY <1>1, <2>2
    <3>2. i = k \/ c[i] < c[k]
      BY <1>1, <2>2, <3>1 DEF InOrder
    <3> QED
      BY <2>1, <2>2, <3>1, <3>2
  <2>3. CASE i > k
    <3>1. k + 1 \in 1..Len(c) /\ c[k + 1] \in Nat /\ e < c[k + 1]
      BY <1>1, <2>3
    <3>2. i = k + 1 \/ c[k + 1] < c[i]
      <4>1. i = k + 1 \/ k + 1 < i
        BY <1>1, <2>3
      <4> QED
        BY <1>1, <3>1, <4>1 DEF InOrder
    <3> QED
      BY <1>1, <2>1, <2>3, <3>1, <3>2
  <2> QED
    BY <1>1, <2>2, <2>3
<1> QED
  BY <1>1, <1>2

(* add_event() adds the event to the members of the copy, once, and leaves *)
(* an ordered copy ordered.                                                *)
LEMMA AddKeeps ==
  ASSUME NEW S \in SUBSET Nat, NEW c \in Seq(S), Distinct(c), NEW e \in S,
         NEW d \in Add(c, e)
  PROVE  /\ d \in Seq(S)
         /\ Distinct(d)
         /\ InOrder(c) => InOrder(d)
         /\ ToSet(d) = ToSet(c) \union {e}
<1>1. CASE Known(c, e)
  BY <1>1 DEF Add, Known
<1>2. CASE ~Known(c, e)
  <2>0. PICK k \in Before(c, e) : d = InsertAt(c, k + 1, e)
    BY <1>2 DEF Add
  <2>1. c \in Seq(Nat) /\ e \in Nat /\ Len(c) \in Nat /\ DOMAIN c = 1..Len(c)
    <3>1. S \subseteq Nat
      OBVIOUS
    <3>2. c \in Seq(Nat)
      BY <3>1, SeqWidens
    <3> QED
      BY <3>1, <3>2
  <2>2. k \in 0..Len(c)
    BY DEF Before
  <2>4. /\ d \in Seq(S)
        /\ Len(d) = Len(c) + 1
        /\ \A i \in 1..k : d[i] = c[i]
        /\ d[k + 1] = e
        /\ \A i \in k + 2..Len(c) + 1 : d[i] = c[i - 1]
    <3>1. d \in Seq(S) /\ Len(d) = Len(c) + 1
      BY <2>0, <2>2, InsertAtIs
    <3>2. \A i \in 1..k : d[i] = c[i]
      BY <2>0, <2>2, InsertAtIs
    <3>3. d[k + 1] = e
      BY <2>0, <2>2, InsertAtIs
    <3>4. \A i \in k + 2..Len(c) + 1 : d[i] = c[i - 1]
      BY <2>0, <2>2, InsertAtIs
    <3> QED
      BY <3>1, <3>2, <3>3, <3>4
  <2>5. DOMAIN d = 1..Len(c) + 1
    BY <2>1, <2>4
  <2>6. \A i \in 1..Len(c) : c[i] # e /\ c[i] \in Nat
    BY <1>2, <2>1 DEF Known, ToSet
  <2>c. ASSUME NEW i \in 1..Len(c) + 1, NEW j \in 1..Len(c) + 1, i < j
        PROVE  \/ i \in 1..k /\ j \in 1..k
               \/ i \in 1..k /\ j = k + 1
               \/ i \in 1..k /\ j \in k + 2..Len(c) + 1
               \/ i = k + 1 /\ j \in k + 2..Len(c) + 1
               \/ i \in k + 2..Len(c) + 1 /\ j \in k + 2..Len(c) + 1
    BY <2>1, <2>2, <2>c
  <2>d. /\ \A i \in 1..k : i \in 1..Len(c)
        /\ \A i \in k + 2..Len(c) + 1 : i - 1 \in 1..Len(c) /\ k < i - 1
    BY <2>1, <2>2
  <2>7. Distinct(d)
    <3> SUFFICES ASSUME NEW i \in 1..Len(c) + 1, NEW j \in 1..Len(c) + 1, i < j
                 PROVE  d[i] # d[j]
      BY <2>5 DEF Distinct
    <3>1. CASE i \in 1..k /\ j \in 1..k
      <4>1. i \in DOMAIN c /\ j \in DOMAIN c /\ c[i] # c[j]
        BY <2>1, <2>d, <3>1 DEF Distinct
      <4> QED
        BY <2>4, <3>1, <4>1
    <3>2. CASE i \in 1..k /\ j = k + 1
      BY <2>4, <2>6, <2>d, <3>2
    <3>3. CASE i \in 1..k /\ j \in k + 2..Len(c) + 1
      <4>1. i < j - 1
        BY <2>2, <3>3
      <4>2. i \in DOMAIN c /\ j - 1 \in DOMAIN c /\ c[i] # c[j - 1]
        BY <2>1, <2>d, <3>3, <4>1 DEF Distinct
      <4> QED
        BY <2>4, <3>3, <4>2
    <3>4. CASE i = k + 1 /\ j \in k + 2..Len(c) + 1
      BY <2>4, <2>6, <2>d, <3>4
    <3>5. CASE i \in k + 2..Len(c) + 1 /\ j \in k + 2..Len(c) + 1
      <4>1. i - 1 < j - 1
        BY <3>5
      <4>2. i - 1 \in DOMAIN c /\ j - 1 \in DOMAIN c /\ c[i - 1] # c[j - 1]
        BY <2>1, <2>d, <3>5, <4>1 DEF Distinct
      <4> QED
        BY <2>4, <3>5, <4>2
    <3> QED
      BY <2>c, <3>1, <3>2, <3>3, <3>4, <3>5
  <2>8. ASSUME InOrder(c) PROVE InOrder(d)
    <3>s. \A i \in 1..Len(c) : i <= k <=> c[i] <= e
      BY <2>0, <2>1, <2>8, BeforeSplits
    <3> SUFFICES ASSUME NEW i \in 1..Len(c) + 1, NEW j \in 1..Len(c) + 1, i < j
                 PROVE  d[i] < d[j]
      BY <2>5 DEF InOrder
    <3>1. CASE i \in 1..k /\ j \in 1..k
      <4>1. i \in DOMAIN c /\ j \in DOMAIN c /\ c[i] < c[j]
        BY <2>1, <2>8, <2>d, <3>1 DEF InOrder
      <4> QED
        BY <2>4, <3>1, <4>1
    <3>2. CASE i \in 1..k /\ j = k + 1
      <4>1. i \in 1..Len(c) /\ i <= k
        BY <2>2, <2>d, <3>2
      <4>2. c[i] <= e /\ c[i] # e /\ c[i] \in Nat
        BY <2>6, <3>s, <4>1
      <4> QED
        BY <2>1, <2>4, <3>2, <4>2
    <3>3. CASE i \in 1..k /\ j \in k + 2..Len(c) + 1
      <4>1. i < j - 1
        BY <2>2, <3>3
      <4>2. i \in DOMAIN c /\ j - 1 \in DOMAIN c /\ c[i] < c[j - 1]
        BY <2>1, <2>8, <2>d, <3>3, <4>1 DEF InOrder
      <4> QED
        BY <2>4, <3>3, <4>2
    <3>4. CASE i = k + 1 /\ j \in k + 2..Len(c) + 1
      <4>1. j - 1 \in 1..Len(c) /\ ~(j - 1 <= k)
        BY <2>1, <2>2, <2>d, <3>4
      <4>2. ~(c[j - 1] <= e) /\ c[j - 1] \in Nat
        BY <2>6, <3>s, <4>1
      <4> QED
        BY <2>1, <2>4, <3>4, <4>2
    <3>5. CASE i \in k + 2..Len(c) + 1 /\ j \in k + 2..Len(c) + 1
      <4>1. i - 1 < j - 1
        BY <3>5
      <4>2. i - 1 \in DOMAIN c /\ j - 1 \in DOMAIN c /\ c[i - 1] < c[j - 1]
        BY <2>1, <2>8, <2>d, <3>5, <4>1 DEF InOrder
      <4> QED
        BY <2>4, <3>5, <4>2
    <3> QED
      BY <2>c, <3>1, <3>2, <3>3, <3>4, <3>5
  <2>9. ToSet(d) = ToSet(c) \union {e}
    <3>1. ASSUME NEW i \in 1..Len(c) + 1 PROVE d[i] \in ToSet(c) \union {e}
      <4>1. CASE i <= k
        BY <2>1, <2>2, <2>4, <4>1 DEF ToSet
      <4>2. CASE i = k + 1
        BY <2>4, <4>2
      <4>3. CASE i > k + 1
        <5>1. i \in k + 2..Len(c) + 1 /\ i - 1 \in DOMAIN c
          BY <2>1, <2>2, <4>3
        <5>2. d[i] = c[i - 1]
          BY <2>4, <5>1
        <5> QED
          BY <5>1, <5>2 DEF ToSet
      <4> QED
        BY <2>2, <4>1, <4>2, <4>3
    <3>2. ASSUME NEW i \in 1..Len(c) PROVE c[i] \in ToSet(d)
      <4>1. CASE i <= k
        <5>1. i \in 1..k /\ i \in DOMAIN d
          BY <2>1, <2>2, <2>5, <4>1
        <5>2. d[i] = c[i]
          BY <2>4, <5>1
        <5> QED
          BY <5>1, <5>2 DEF ToSet
      <4>2. CASE i > k
        <5>1. i + 1 \in k + 2..Len(c) + 1 /\ i + 1 \in DOMAIN d
          BY <2>2, <2>4, <2>5, <4>2
        <5>2. d[i + 1] = c[i]
          BY <2>4, <2>5, <5>1
        <5> QED
          BY <5>1, <5>2 DEF ToSet
      <4> QED
        BY <2>2, <4>1, <4>2
    <3>3. e \in ToSet(d)
      <4>1. k + 1 \in DOMAIN d /\ d[k + 1] = e
        BY <2>1, <2>2, <2>4, <2>5
      <4> QED
        BY <4>1 DEF ToSet
    <3> QED
      BY <2>1, <2>4, <2>5, <3>1, <3>2, <3>3 DEF ToSet
  <2> QED
    BY <2>4, <2>7, <2>8, <2>9
<1> QED
  BY <1>1, <1>2

(* The loop of reconcile(), copy by copy: the function that AddAll names   *)
(* is the one it says it is.                                               *)
More(x, e) == UNION {Add(d, e) : d \in x}
Copies(c, s, f, m) == f = [k \in 0..m |-> IF k = 0 THEN {c} ELSE More(f[k - 1], s[k])]

(* There is such a function.                                               *)
LEMMA CopiesExist ==
  ASSUME NEW c, NEW s, NEW n \in Nat
  PROVE  \E f : Copies(c, s, f, n)
<1> DEFINE None == {m \in Nat : ~(\E f : Copies(c, s, f, m))}
<1>1. SUFFICES ASSUME None # {} PROVE FALSE
  OBVIOUS
<1>2. PICK m \in None : \A l \in None : m <= l
  <2>1. None \in SUBSET Nat
    OBVIOUS
  <2> HIDE DEF None
  <2> QED
    BY <1>1, <2>1, LeastOf
<1>3. m \in Nat /\ ~(\E f : Copies(c, s, f, m))
  BY <1>2
<1>4. CASE m = 0
  <2> DEFINE h == [k \in 0..m |-> {c}]
  <2>2. h = [k \in 0..m |-> IF k = 0 THEN {c} ELSE More(h[k - 1], s[k])]
    BY <1>4
  <2> HIDE DEF h
  <2>1. Copies(c, s, h, m)
    BY <2>2 DEF Copies
  <2> QED
    BY <1>3, <2>1
<1>5. CASE m > 0
  <2>1. PICK g : Copies(c, s, g, m - 1)
    <3>1. m - 1 \in Nat /\ ~(m <= m - 1)
      BY <1>3, <1>5
    <3>2. m - 1 \notin None
      BY <1>2, <3>1
    <3> QED
      BY <3>1, <3>2
  <2> DEFINE h == [k \in 0..m |-> IF k = m THEN More(g[m - 1], s[m]) ELSE g[k]]
  <2>2. \A k \in 0..m - 1 : g[k] = IF k = 0 THEN {c} ELSE More(g[k - 1], s[k])
    BY <2>1 DEF Copies
  <2>3. \A k \in 0..m : h[k] = IF k = 0 THEN {c} ELSE More(h[k - 1], s[k])
    <3> SUFFICES ASSUME NEW k \in 0..m
                 PROVE  h[k] = IF k = 0 THEN {c} ELSE More(h[k - 1], s[k])
      OBVIOUS
    <3>1. CASE k = 0
      BY <1>3, <1>5, <2>2, <3>1
    <3>2. CASE k # 0
      <4>1. k - 1 \in 0..m /\ k - 1 # m /\ h[k - 1] = g[k - 1]
        BY <1>3, <3>2
      <4>2. CASE k = m
        BY <3>2, <4>1, <4>2
      <4>3. CASE k # m
        BY <1>3, <2>2, <3>2, <4>1, <4>3
      <4> QED
        BY <4>2, <4>3
    <3> QED
      BY <3>1, <3>2
  <2>4. h = [k \in 0..m |-> h[k]]
    OBVIOUS
  <2> HIDE DEF h
  <2>6. h = [k \in 0..m |-> IF k = 0 THEN {c} ELSE More(h[k - 1], s[k])]
    BY <2>3, <2>4
  <2>5. Copies(c, s, h, m)
    BY <2>6 DEF Copies
  <2> QED
    BY <1>3, <2>5
<1> QED
  BY <1>3, <1>4, <1>5

(* What the loop gives, event by event.                                    *)
Loop(c, s, n, f) == /\ f[0] = {c}
                    /\ \A k \in 1..n : f[k] = More(f[k - 1], s[k])
                    /\ AddAll(c, s, n) = f[n]

(* AddAll is such a loop.                                                  *)
LEMMA AddAllIs ==
  ASSUME NEW c, NEW s, NEW n \in Nat
  PROVE  \E f : Loop(c, s, n, f)
<1> DEFINE f == CHOOSE f : Copies(c, s, f, n)
<1>1. Copies(c, s, f, n)
  BY CopiesExist
<1>2. AddAll(c, s, n) = f[n]
  BY DEF AddAll, Copies, More
<1> HIDE DEF f
<1>3. f[0] = {c} /\ \A k \in 1..n : f[k] = More(f[k - 1], s[k])
  <2>1. f = [k \in 0..n |-> IF k = 0 THEN {c} ELSE More(f[k - 1], s[k])]
    BY <1>1 DEF Copies
  <2>2. \A k \in 0..n : f[k] = IF k = 0 THEN {c} ELSE More(f[k - 1], s[k])
    BY <2>1
  <2> QED
    BY <2>2
<1> QED
  BY <1>2, <1>3 DEF Loop

(* After the loop the copy has the n events as well, each once, and is     *)
(* still in order if it was.                                               *)
LEMMA AddAllKeeps ==
  ASSUME NEW S \in SUBSET Nat, NEW c \in Seq(S), Distinct(c),
         NEW n \in Nat, NEW s, \A k \in 1..n : s[k] \in S,
         NEW d \in AddAll(c, s, n)
  PROVE  /\ d \in Seq(S)
         /\ Distinct(d)
         /\ InOrder(c) => InOrder(d)
         /\ ToSet(d) = ToSet(c) \union {s[k] : k \in 1..n}
<1>0. PICK f : Loop(c, s, n, f)
  BY AddAllIs
<1>1. /\ f[0] = {c}
      /\ \A k \in 1..n : f[k] = More(f[k - 1], s[k])
      /\ AddAll(c, s, n) = f[n]
  BY <1>0 DEF Loop
<1> DEFINE Fine(b, k) == /\ b \in Seq(S)
                         /\ Distinct(b)
                         /\ InOrder(c) => InOrder(b)
                         /\ ToSet(b) = ToSet(c) \union {s[l] : l \in 1..k}
           Good(k) == \A b \in f[k] : Fine(b, k)
           Bad == {k \in 0..n : ~Good(k)}
<1>2. Bad = {}
  <2> SUFFICES ASSUME Bad # {} PROVE FALSE
    OBVIOUS
  <2>1. PICK k \in Bad : \A l \in Bad : k <= l
    <3>1. Bad \in SUBSET Nat
      OBVIOUS
    <3> HIDE DEF Bad
    <3> QED
      BY <3>1, LeastOf
  <2>2. k \in 0..n /\ ~Good(k)
    BY <2>1
  <2>3. CASE k = 0
    <3>1. Fine(c, 0)
      <4>1. {s[l] : l \in 1..0} = {}
        OBVIOUS
      <4> QED
        BY <4>1
    <3> QED
      BY <1>1, <2>2, <2>3, <3>1
  <2>4. CASE k # 0
    <3>1. k \in 1..n /\ k - 1 \in 0..n /\ ~(k <= k - 1) /\ s[k] \in S
      BY <2>2, <2>4
    <3>2. Good(k - 1)
      <4> HIDE DEF Good
      <4> QED
        BY <2>1, <3>1
    <3>3. ASSUME NEW b \in f[k] PROVE Fine(b, k)
      <4>1. PICK g \in f[k - 1] : b \in Add(g, s[k])
        <5>1. f[k] = More(f[k - 1], s[k])
          BY <1>1, <3>1
        <5> QED
          BY <3>3, <5>1 DEF More
      <4>2. Fine(g, k - 1)
        BY <3>2
      <4>3. /\ b \in Seq(S)
            /\ Distinct(b)
            /\ InOrder(g) => InOrder(b)
            /\ ToSet(b) = ToSet(g) \union {s[k]}
        <5>1. g \in Seq(S) /\ Distinct(g) /\ s[k] \in S /\ b \in Add(g, s[k])
          BY <3>1, <4>1, <4>2
        <5> DEFINE e == s[k]
        <5>2. e \in S /\ b \in Add(g, e)
          BY <5>1
        <5> HIDE DEF e, Fine, Good, Bad
        <5>3. b \in Seq(S) /\ Distinct(b) /\ (InOrder(g) => InOrder(b)) /\ ToSet(b) = ToSet(g) \union {e}
          BY <5>1, <5>2, AddKeeps
        <5> QED
          BY <5>3 DEF e
      <4>4. {s[l] : l \in 1..k} = {s[l] : l \in 1..k - 1} \union {s[k]}
        <5>1. 1..k = (1..k - 1) \union {k}
          BY <3>1
        <5> QED
          BY <5>1
      <4> QED
        BY <4>2, <4>3, <4>4
    <3> QED
      <4> HIDE DEF Fine
      <4> QED
        BY <2>2, <3>3
  <2> QED
    BY <2>3, <2>4
<1>3. Good(n)
  <2>1. n \in 0..n
    OBVIOUS
  <2> HIDE DEF Good
  <2> QED
    BY <1>2, <2>1
<1>4. Fine(d, n)
  <2> HIDE DEF Fine
  <2> QED
    BY <1>1, <1>3
<1> QED
  BY <1>4
------------------------------------------------------------------------------
(* Types, part by part: the events, the server, the socket, the client     *)

(* The assumption on the constants, one by one.                            *)
LEMMA Constants == /\ Threshold \in Nat \ {0} /\ MaxIterations \in Nat \ {0}
                   /\ MaxOps \in Nat /\ Early \subseteq {"event", "stats"}
BY RemoteAssumption

TerminalEvents == {e \in Made : kind[e] \in Terminal}

LogTyped == /\ kind \in Seq(Kinds)
            /\ log \in Seq(Made)
            /\ early \in 0..Len(kind)
            /\ LogInv

ServerTyped == /\ todo \in Seq(Statuses \union {"event"})
               /\ stored \in 0..Len(log)
               /\ Len(log) - stored \in {0, 1}
               /\ status \in Statuses
               /\ task \in {"none", "created", "loop", "tail"}
               /\ iter \in 0..MaxIterations
               /\ task # "tail" => iter < MaxIterations

SocketTyped == /\ conn \in {"none", "subscribed", "open", "closed"}
               /\ chan \in Seq(Made)
               /\ ready \in BOOLEAN
               /\ wsq \in Seq(TerminalEvents)

ThreadTyped ==
  /\ pc \in {"sync", "connecting", "reconcile", "merge", "failed", "idle",
             "raised", "sending", "running", "waiting", "polling", "refresh",
             "fallback", "last_merge"}
  /\ polls \in 0..Threshold
  /\ pc \notin {"refresh", "fallback", "last_merge"} => polls < Threshold

FlagsTyped == /\ torn \in BOOLEAN /\ gaps \in BOOLEAN
              /\ overtaken \in BOOLEAN /\ orderly \in BOOLEAN
              /\ ops \in 0..MaxOps

AnswerTyped == fetched \in 0..stored

MarkTyped == mark \in 0..(Len(log) + Len(todo))

CacheTyped == cache \in Seq(Made) /\ Distinct(cache) /\ (orderly => InOrder(cache))

Typed == /\ LogTyped /\ ServerTyped /\ SocketTyped /\ ThreadTyped
         /\ FlagsTyped /\ AnswerTyped /\ MarkTyped /\ CacheTyped

(* The types are the state of the copy, the events and the bounds, part by *)
(* part.                                                                   *)
LEMMA TypedIs == Typed <=> CacheSorted /\ BoundsInv /\ LogInv
<1>1. {ready, torn, gaps, overtaken, orderly} \subseteq BOOLEAN
        <=> /\ ready \in BOOLEAN /\ torn \in BOOLEAN /\ gaps \in BOOLEAN
            /\ overtaken \in BOOLEAN /\ orderly \in BOOLEAN
  OBVIOUS
<1>2. Distinct(cache) /\ (orderly => InOrder(cache))
        <=> \A i, j \in DOMAIN cache :
              i < j => cache[i] # cache[j] /\ (orderly => cache[i] < cache[j])
  BY DEF InOrder, Distinct
<1> QED
  BY <1>1, <1>2 DEF Typed, LogTyped, ServerTyped, SocketTyped, ThreadTyped,
     FlagsTyped, AnswerTyped, MarkTyped, CacheTyped, CacheSorted, TypeOK,
     BoundsInv, TerminalEvents

(* What the server emits in one go.                                        *)
LEMMA Emissions ==
  LET S == Statuses \union {"event"}
  IN  /\ << >> \in Seq(S) /\ Len(<< >>) = 0
      /\ \A a \in S : <<a>> \in Seq(S) /\ Len(<<a>>) = 1
      /\ \A a, b \in S : <<a, b>> \in Seq(S) /\ Len(<<a, b>>) = 2
      /\ \A a, b, c \in S : <<a, b, c>> \in Seq(S) /\ Len(<<a, b, c>>) = 3
      /\ \A s, t \in Seq(S) : s \o t \in Seq(S)
OBVIOUS

(* The sets of kinds, element by element.                                  *)
LEMMA KindsAre ==
  /\ Terminal = {"FINISHED", "ERROR", "STUCK"}
  /\ Statuses = {"FINISHED", "ERROR", "STUCK", "IDLE", "RUNNING", "PAUSED",
                 "WAITING_FOR_CONFIRMATION"}
  /\ Kinds = {"FINISHED", "ERROR", "STUCK", "IDLE", "RUNNING", "PAUSED",
              "WAITING_FOR_CONFIRMATION", "stats", "full_state", "event"}
BY DEF Kinds, Updates, Statuses, Terminal

(* What an operation does to the members of a sequence.                    *)
LEMMA Members ==
  ASSUME NEW S, NEW s \in Seq(S)
  PROVE  /\ \A x \in S : ToSet(Append(s, x)) = ToSet(s) \union {x}
         /\ s # << >> => ToSet(s) = ToSet(Tail(s)) \union {Head(s)}
<1>1. ASSUME NEW x \in S PROVE ToSet(Append(s, x)) = ToSet(s) \union {x}
  <2> DEFINE t == Append(s, x)
  <2>1. /\ DOMAIN t = 1..Len(s) + 1
        /\ DOMAIN s = 1..Len(s)
        /\ Len(s) \in Nat
        /\ \A i \in 1..Len(s) : t[i] = s[i]
        /\ t[Len(s) + 1] = x
    OBVIOUS
  <2> HIDE DEF t
  <2>2. \A i \in DOMAIN t : t[i] \in ToSet(s) \union {x}
    BY <2>1 DEF ToSet
  <2>3. \A i \in DOMAIN s : s[i] \in ToSet(t)
    BY <2>1 DEF ToSet
  <2>4. x \in ToSet(t)
    BY <2>1 DEF ToSet
  <2>5. ToSet(t) = ToSet(s) \union {x}
    BY <2>2, <2>3, <2>4 DEF ToSet
  <2> QED
    BY <2>5 DEF t
<1>2. ASSUME s # << >> PROVE ToSet(s) = ToSet(Tail(s)) \union {Head(s)}
  <2> DEFINE t == Tail(s)
  <2>1. /\ DOMAIN s = 1..Len(s)
        /\ Len(s) \in Nat \ {0}
        /\ DOMAIN t = 1..Len(s) - 1
        /\ \A i \in 1..Len(s) - 1 : t[i] = s[i + 1]
        /\ Head(s) = s[1]
    BY <1>2
  <2> HIDE DEF t
  <2>2. \A i \in DOMAIN t : t[i] \in ToSet(s)
    BY <2>1 DEF ToSet
  <2>3. \A i \in DOMAIN s : s[i] \in ToSet(t) \union {Head(s)}
    <3> TAKE i \in DOMAIN s
    <3>1. CASE i = 1
      BY <2>1, <3>1
    <3>2. CASE i # 1
      <4>1. i - 1 \in DOMAIN t /\ t[i - 1] = s[i]
        BY <2>1, <3>2
      <4> QED
        BY <4>1 DEF ToSet
    <3> QED
      BY <3>1, <3>2
  <2>4. Head(s) \in ToSet(s)
    BY <2>1 DEF ToSet
  <2>5. ToSet(s) = ToSet(t) \union {Head(s)}
    BY <2>2, <2>3, <2>4 DEF ToSet
  <2> QED
    BY <2>5 DEF t
<1> QED
  BY <1>1, <1>2

\* t is s without its i-th element.
Without(t, s, i) ==
  \A k \in 1..Len(s) - 1 : t[k] = IF k < i THEN s[k] ELSE s[k + 1]

(* What is left of a sequence without its i-th element.                    *)
LEMMA RemoveAtIs ==
  ASSUME NEW S, NEW s \in Seq(S), NEW i \in 1..Len(s), NEW t, t = RemoveAt(s, i)
  PROVE  /\ t \in Seq(S)
         /\ Len(t) = Len(s) - 1
         /\ Without(t, s, i)
         /\ ToSet(s) = ToSet(t) \union {s[i]}
<1> DEFINE a == SubSeq(s, 1, i - 1)
           b == SubSeq(s, i + 1, Len(s))
<1>1. Len(s) \in Nat /\ i \in Nat /\ DOMAIN s = 1..Len(s)
  OBVIOUS
<1>2. t = a \o b
  BY DEF RemoveAt
<1>3. a \in Seq(S) /\ Len(a) = i - 1 /\ \A k \in 1..i - 1 : a[k] = s[k]
  BY <1>1
<1>4. b \in Seq(S) /\ Len(b) = Len(s) - i /\ \A k \in 1..Len(s) - i : b[k] = s[i + k]
  <2>1. i + 1 \in Int /\ 1 <= i + 1 /\ Len(s) <= Len(s) /\ Len(s) - (i + 1) + 1 = Len(s) - i
    BY <1>1
  <2>2. b = [k \in 1..Len(s) - i |-> s[(i + 1) + k - 1]]
    BY <1>1, <2>1
  <2>3. \A k \in 1..Len(s) - i : s[(i + 1) + k - 1] = s[i + k] /\ s[i + k] \in S
    <3> TAKE k \in 1..Len(s) - i
    <3>1. (i + 1) + k - 1 = i + k /\ i + k \in 1..Len(s)
      BY <1>1
    <3> QED
      BY <3>1
  <2> HIDE DEF b
  <2>4. Len(s) - i \in Nat
    BY <1>1
  <2> QED
    BY <2>2, <2>3, <2>4
<1> HIDE DEF a, b
<1>5. t \in Seq(S) /\ Len(t) = Len(s) - 1
  <2>0. a \in Seq(S) /\ b \in Seq(S)
    BY <1>3, <1>4
  <2>2. a \o b \in Seq(S) /\ Len(a \o b) = Len(a) + Len(b)
    BY <2>0
  <2>1. t \in Seq(S) /\ Len(t) = Len(a) + Len(b)
    BY <1>2, <2>2
  <2> QED
    BY <1>1, <1>3, <1>4, <2>1
<1>6. ASSUME NEW k \in 1..Len(s) - 1
      PROVE  t[k] = IF k < i THEN s[k] ELSE s[k + 1]
  <2>1. CASE k < i
    <3>1. k \in 1..i - 1 /\ k \in 1..Len(a)
      BY <1>1, <1>3, <2>1
    <3>2. t[k] = a[k]
      <4>1. a \in Seq(S) /\ b \in Seq(S)
        BY <1>3, <1>4
      <4>2. (a \o b)[k] = a[k]
        BY <3>1, <4>1
      <4> QED
        BY <1>2, <4>2
    <3> QED
      BY <1>3, <2>1, <3>1, <3>2
  <2>2. CASE ~(k < i)
    <3>1. k - (i - 1) \in 1..Len(s) - i /\ i + (k - (i - 1)) = k + 1
      BY <1>1, <2>2
    <3>2. k \in Len(a) + 1..Len(a) + Len(b)
      BY <1>1, <1>3, <1>4, <2>2
    <3>3. t[k] = b[k - Len(a)]
      <4>1. a \in Seq(S) /\ b \in Seq(S)
        BY <1>3, <1>4
      <4>2. (a \o b)[k] = b[k - Len(a)]
        BY <3>2, <4>1
      <4> QED
        BY <1>2, <4>2
    <3>4. t[k] = s[k + 1]
      BY <1>3, <1>4, <3>1, <3>3
    <3> QED
      BY <2>2, <3>4
  <2> QED
    BY <2>1, <2>2
<1>7. ToSet(s) = ToSet(t) \union {s[i]}
  <2>1. DOMAIN t = 1..Len(s) - 1
    BY <1>1, <1>5
  <2>2. \A k \in DOMAIN t : t[k] \in ToSet(s)
    <3> TAKE k \in DOMAIN t
    <3>1. k \in DOMAIN s /\ k + 1 \in DOMAIN s
      BY <1>1, <2>1
    <3> QED
      BY <1>6, <2>1, <3>1 DEF ToSet
  <2>3. \A k \in DOMAIN s : s[k] \in ToSet(t) \union {s[i]}
    <3> TAKE k \in DOMAIN s
    <3>1. CASE k < i
      <4>1. k \in DOMAIN t
        BY <1>1, <2>1, <3>1
      <4>2. t[k] = s[k]
        BY <1>6, <2>1, <3>1, <4>1
      <4> QED
        BY <4>1, <4>2 DEF ToSet
    <3>2. CASE k = i
      BY <3>2
    <3>3. CASE k > i
      <4>1. k - 1 \in DOMAIN t /\ ~(k - 1 < i) /\ (k - 1) + 1 = k
        BY <1>1, <2>1, <3>3
      <4>2. t[k - 1] = s[k]
        BY <1>6, <2>1, <4>1
      <4> QED
        BY <4>1, <4>2 DEF ToSet
    <3> QED
      BY <1>1, <3>1, <3>2, <3>3
  <2>4. s[i] \in ToSet(s)
    BY <1>1 DEF ToSet
  <2> QED
    BY <2>2, <2>3, <2>4 DEF ToSet
<1> QED
  BY <1>5, <1>6, <1>7 DEF Without
------------------------------------------------------------------------------
(* The events                                                              *)

(* An event that is made keeps its kind, and its place.                    *)
LEMMA KindGrows ==
  ASSUME LogTyped, ServerTyped, Next
  PROVE  /\ kind' \in Seq(Kinds)
         /\ Len(kind) \in Nat /\ Len(kind') \in Nat /\ Len(kind) <= Len(kind')
         /\ \A e \in Made : e \in Made' /\ kind'[e] = kind[e]
<1> DEFINE Grown == /\ kind' \in Seq(Kinds)
                    /\ Len(kind) \in Nat /\ Len(kind') \in Nat /\ Len(kind) <= Len(kind')
                    /\ \A e \in 1..Len(kind) : e \in 1..Len(kind') /\ kind'[e] = kind[e]
<1>1. ASSUME NEW k \in Kinds, kind' = Append(kind, k) PROVE Grown
  <2>1. kind \in Seq(Kinds)
    BY DEF LogTyped
  <2> QED
    BY <1>1, <2>1
<1>2. ASSUME kind' = kind PROVE Grown
  <2>1. kind \in Seq(Kinds)
    BY DEF LogTyped
  <2> QED
    BY <1>2, <2>1
<1> HIDE DEF Grown
<1>3. ASSUME Emit PROVE Grown
  <2>1. CASE todo = << >>
    BY <1>2, <1>3, <2>1 DEF Emit
  <2>2. CASE todo # << >>
    <3>1. Head(todo) \in Kinds
      <4>1. Head(todo) \in Statuses \union {"event"}
        BY <2>2 DEF ServerTyped
      <4> QED
        BY <4>1 DEF Kinds, Updates
    <3> QED
      BY <1>1, <1>3, <2>2, <3>1 DEF Emit
  <2> QED
    BY <2>1, <2>2
<1>4. ASSUME Make PROVE Grown
  <2>1. PICK k \in Early : kind' = Append(kind, k)
    BY <1>4 DEF Make
  <2>2. k \in Kinds
    BY <2>1, Constants, KindsAre
  <2> QED
    BY <1>1, <2>1, <2>2
<1>5. ASSUME PushState PROVE Grown
  <2>1. "full_state" \in Kinds
    BY KindsAre
  <2> QED
    BY <1>1, <1>5, <2>1 DEF PushState
<1>6. ASSUME \/ Store \/ StartRun \/ Iterate \/ EndRun \/ Pause \/ Subscribe
             \/ Receive \/ Disconnect \/ Reconnect \/ FullSync \/ Ready \/ NotReady
             \/ Fetch \/ Merge \/ Send \/ Sent \/ Run \/ PostRun \/ Notified
             \/ TimedOut \/ Expire \/ Poll \/ PollFails \/ Refresh
      PROVE  Grown
  <2>1. kind' = kind
    BY <1>6 DEF Store, StartRun, Iterate, EndRun, Pause, Subscribe, Receive,
       Disconnect, Reconnect, FullSync, Ready, NotReady, Fetch, Merge, Send, Sent,
       Run, PostRun, Notified, TimedOut, Expire, Poll, PollFails, Refresh, server
  <2> QED
    BY <1>2, <2>1
<1>7. Grown
  BY <1>3, <1>4, <1>5, <1>6 DEF Next, Server, Caller, Network, Others
<1> QED
  BY <1>7 DEF Grown, Made

(* What was a sequence of events is one.                                   *)
LEMMA MadeGrows ==
  ASSUME LogTyped, ServerTyped, Next
  PROVE  /\ Made \subseteq Made'
         /\ TerminalEvents \subseteq TerminalEvents'
         /\ \A c \in Seq(Made) : c \in Seq(Made')
         /\ \A c \in Seq(TerminalEvents) : c \in Seq(TerminalEvents')
<1>1. Made \subseteq Made'
  BY KindGrows
<1>2. TerminalEvents \subseteq TerminalEvents'
  BY KindGrows DEF TerminalEvents
<1>3. ASSUME NEW c \in Seq(Made) PROVE c \in Seq(Made')
  BY <1>1, SeqWidens
<1>4. ASSUME NEW c \in Seq(TerminalEvents) PROVE c \in Seq(TerminalEvents')
  BY <1>2, SeqWidens
<1> QED
  BY <1>1, <1>2, <1>3, <1>4

(* What an emission does: the event is new, or waited for its turn.        *)
Emitting(e) == /\ e \in Made'
               /\ e \in Made => e = early /\ e # 0 /\ early' = 0
               /\ e \notin ToSet(log)
               /\ log' = Append(log, e)
               /\ chan' = IF Attaching THEN Append(chan, e) ELSE chan
               /\ early' \in {0, early}

(* Whichever of the two emits, it does that.                               *)
LEMMA EmitIs ==
  ASSUME LogTyped, ServerTyped, Emit
  PROVE  \E e : Emitting(e)
<1>t. /\ kind \in Seq(Kinds) /\ Len(kind) \in Nat
      /\ log \in Seq(1..Len(kind)) /\ early \in 0..Len(kind)
  BY DEF LogTyped, Made
<1>1. \A x \in ToSet(log) : x \in 1..Len(kind)
  BY <1>t DEF ToSet
<1>2. CASE todo # << >>
  <2> DEFINE e == Len(kind')
  <2>1. /\ kind' = Append(kind, Head(todo)) /\ log' = Append(log, e)
        /\ early' = early
        /\ chan' = IF Attaching THEN Append(chan, e) ELSE chan
    BY <1>2 DEF Emit, Publish, Attaching
  <2>2. e = Len(kind) + 1
    BY <1>t, <2>1
  <2>3. e \in 1..Len(kind') /\ e \notin 1..Len(kind)
    BY <1>t, <2>2
  <2> HIDE DEF e
  <2>4. Emitting(e)
    BY <1>1, <2>1, <2>3 DEF Emitting, Made
  <2> QED
    BY <2>4
<1>3. CASE todo = << >>
  <2>1. /\ early # 0 /\ early' = 0 /\ kind' = kind /\ log' = Append(log, early)
        /\ chan' = IF Attaching THEN Append(chan, early) ELSE chan
    BY <1>3 DEF Emit, Publish, Attaching
  <2>2. early \notin ToSet(log) /\ early \in 1..Len(kind)
    BY <1>t, <2>1 DEF LogTyped, LogInv
  <2>3. Emitting(early)
    BY <2>1, <2>2 DEF Emitting, Made
  <2> QED
    BY <2>3
<1> QED
  BY <1>2, <1>3

(* Every step keeps the log, in which no event is twice.                   *)
LEMMA LogKept ==
  ASSUME LogTyped, ServerTyped, Next
  PROVE  LogTyped'
<1>t. /\ kind \in Seq(Kinds) /\ Len(kind) \in Nat /\ log \in Seq(Made)
      /\ early \in 0..Len(kind) /\ LogInv
      /\ DOMAIN log = 1..Len(log) /\ Len(log) \in Nat
  BY DEF LogTyped
<1>k. /\ kind' \in Seq(Kinds) /\ Len(kind') \in Nat /\ Len(kind) <= Len(kind')
      /\ \A e \in Made : e \in Made' /\ kind'[e] = kind[e]
  BY KindGrows
<1>m. log \in Seq(Made')
  BY <1>t, MadeGrows
<1>1. CASE Emit
  <2>1. PICK e : Emitting(e)
    BY <1>1, EmitIs
  <2>2. /\ e \in Made' /\ e \notin ToSet(log) /\ log' = Append(log, e)
        /\ early' \in {0, early} /\ (e \in Made => early' = 0)
    BY <2>1 DEF Emitting
  <2>3. log' \in Seq(Made')
    BY <1>m, <2>2
  <2>4. /\ DOMAIN log' = 1..Len(log) + 1 /\ log'[Len(log) + 1] = e
        /\ \A i \in 1..Len(log) : log'[i] = log[i] /\ log[i] # e
    <3>1. \A i \in 1..Len(log) : log[i] # e
      BY <1>t, <2>2 DEF ToSet
    <3> QED
      BY <1>m, <2>2, <3>1
  <2>5. Distinct(log')
    <3> SUFFICES ASSUME NEW i \in 1..Len(log) + 1, NEW j \in 1..Len(log) + 1, i < j
                 PROVE  log'[i] # log'[j]
      BY <2>4 DEF Distinct
    <3>1. i \in 1..Len(log) /\ (j \in 1..Len(log) \/ j = Len(log) + 1)
      BY <1>t
    <3> QED
      BY <1>t, <2>4, <3>1 DEF LogInv, Distinct
  <2>6. ASSUME early' # 0 PROVE early' \notin ToSet(log') /\ kind'[early'] \notin Terminal
    <3>1. early' = early /\ early # 0 /\ e \notin Made /\ early \in Made
      BY <1>t, <2>2, <2>6 DEF Made
    <3>2. ToSet(log') = ToSet(log) \union {e}
      BY <1>m, <2>2, Members
    <3>3. early \notin ToSet(log) /\ kind[early] \notin Terminal /\ kind'[early] = kind[early]
      BY <1>k, <1>t, <3>1 DEF LogInv
    <3> QED
      BY <3>1, <3>2, <3>3
  <2>7. early' \in 0..Len(kind')
    BY <1>k, <1>t, <2>2
  <2> QED
    BY <1>k, <2>3, <2>5, <2>6, <2>7 DEF LogTyped, LogInv
<1>2. CASE Make
  <2>1. PICK k \in Early : kind' = Append(kind, k)
    BY <1>2 DEF Make
  <2>2. log' = log /\ early' = Len(kind')
    BY <1>2 DEF Make
  <2>3. early' = Len(kind) + 1 /\ kind'[early'] = k
    BY <1>t, <2>1, <2>2
  <2>4. k \notin Terminal
    BY Constants, KindsAre
  <2>5. early' \notin ToSet(log)
    <3>1. \A x \in ToSet(log) : x \in 1..Len(kind)
      BY <1>t DEF ToSet, Made
    <3> QED
      BY <1>t, <2>3, <3>1
  <2>6. early' \in 0..Len(kind')
    BY <1>k, <2>2
  <2> QED
    BY <1>k, <1>m, <1>t, <2>2, <2>3, <2>4, <2>5, <2>6 DEF LogTyped, LogInv, Distinct
<1>3. CASE \/ Store \/ StartRun \/ Iterate \/ EndRun \/ Pause \/ Subscribe \/ PushState
           \/ Receive \/ Disconnect \/ Reconnect \/ FullSync \/ Ready \/ NotReady
           \/ Fetch \/ Merge \/ Send \/ Sent \/ Run \/ PostRun \/ Notified
           \/ TimedOut \/ Expire \/ Poll \/ PollFails \/ Refresh
  <2>1. log' = log /\ early' = early
    BY <1>3 DEF Store, StartRun, Iterate, EndRun, Pause, Subscribe, PushState,
       Receive, Disconnect, Reconnect, FullSync, Ready, NotReady, Fetch, Merge, Send,
       Sent, Run, PostRun, Notified, TimedOut, Expire, Poll, PollFails, Refresh, server
  <2>2. early' \in 0..Len(kind')
    BY <1>k, <1>t, <2>1
  <2>3. early # 0 => early \in Made
    BY <1>t DEF Made
  <2> QED
    BY <1>k, <1>m, <1>t, <2>1, <2>2, <2>3 DEF LogTyped, LogInv, Distinct
<1> QED
  BY <1>1, <1>2, <1>3 DEF Next, Server, Caller, Network, Others
------------------------------------------------------------------------------
(* The server stores what it emitted, in that order.                      *)
LEMMA ServerKept ==
  ASSUME Typed, Next
  PROVE  ServerTyped'
<1> USE Constants, Emissions, KindsAre DEF ServerTyped
<1>1. ASSUME Emit PROVE ServerTyped'
  <2>1. PICK e : Emitting(e)
    BY <1>1, EmitIs DEF Typed
  <2>2. log \in Seq(Made) /\ log' = Append(log, e)
    BY <2>1 DEF Typed, LogTyped, Emitting
  <2>3. Len(log') = Len(log) + 1 /\ Len(log) \in Nat
    BY <2>2
  <2>4. /\ stored = Len(log) /\ UNCHANGED <<stored, task, iter>>
        /\ \/ todo # << >> /\ todo' = Tail(todo)
              /\ status' = IF Head(todo) \in Statuses THEN Head(todo) ELSE status
           \/ UNCHANGED <<todo, status>>
    BY <1>1 DEF Emit
  <2> HIDE Emissions, KindsAre
  <2>5. todo' \in Seq(Statuses \union {"event"}) /\ status' \in Statuses
    BY <2>4 DEF Typed
  <2> QED
    BY <2>3, <2>4, <2>5 DEF Typed
<1>2. ASSUME StartRun PROVE ServerTyped'
  BY <1>2 DEF Typed, StartRun, Idle, server
<1>3. ASSUME Iterate PROVE ServerTyped'
  <2>1. /\ UNCHANGED <<log, stored, status>>
        /\ task = "loop" /\ iter \in 0..MaxIterations /\ iter < MaxIterations
    BY <1>3 DEF Typed, Iterate
  <2>2. Resumed \in Seq(Statuses \union {"event"})
    BY DEF Resumed
  <2> DEFINE S == Statuses \union {"event"}
             Tails == {<<"ERROR", "event">>, <<"event", "WAITING_FOR_CONFIRMATION">>,
                       <<"event", "FINISHED">>, <<"event">>, <<"event", "ERROR", "event">>}
  <2>6. \/ todo' = todo
        \/ todo' = <<"STUCK">>
        \/ \E t \in Tails : todo' = Resumed \o t
    <3> HIDE Emissions, KindsAre
    <3> QED
      BY <1>3 DEF Iterate
  <2>7. \A t \in Tails : t \in Seq(S)
    <3>1. {"ERROR", "event", "WAITING_FOR_CONFIRMATION", "FINISHED"} \subseteq S
      OBVIOUS
    <3>2. /\ \A a \in S : <<a>> \in Seq(S)
          /\ \A a, b \in S : <<a, b>> \in Seq(S)
          /\ \A a, b, c \in S : <<a, b, c>> \in Seq(S)
      OBVIOUS
    <3> HIDE Emissions, KindsAre DEF S
    <3>3. <<"event">> \in Seq(S)
      BY <3>1, <3>2
    <3>4. /\ <<"ERROR", "event">> \in Seq(S) /\ <<"event", "FINISHED">> \in Seq(S)
          /\ <<"event", "WAITING_FOR_CONFIRMATION">> \in Seq(S)
      BY <3>1, <3>2
    <3>5. <<"event", "ERROR", "event">> \in Seq(S)
      BY <3>1, <3>2
    <3> QED
      BY <3>3, <3>4, <3>5
  <2>8. <<"STUCK">> \in Seq(S)
    OBVIOUS
  <2>3. todo' \in Seq(S)
    <3>1. todo \in Seq(S)
      BY DEF Typed
    <3> HIDE DEF S, Tails
    <3>2. \A t \in Seq(S) : Resumed \o t \in Seq(S)
      BY <2>2 DEF S
    <3> HIDE Emissions, KindsAre
    <3> QED
      BY <2>6, <2>7, <2>8, <3>1, <3>2
  <2>4. \/ UNCHANGED <<task, iter>>
        \/ task' = "tail" /\ iter' \in {iter, iter + 1}
        \/ /\ task' = IF iter + 1 < MaxIterations THEN "loop" ELSE "tail"
           /\ iter' = iter + 1
    BY <1>3, <2>1 DEF Iterate
  <2> HIDE Emissions, KindsAre
  <2>5. /\ task' \in {"loop", "tail"}
        /\ iter' \in 0..MaxIterations
        /\ task' # "tail" => iter' < MaxIterations
    BY <2>1, <2>4
  <2> QED
    BY <2>1, <2>3, <2>5 DEF Typed
<1>4. ASSUME EndRun PROVE ServerTyped'
  BY <1>4 DEF Typed, EndRun, Idle, server
<1>5. ASSUME Pause PROVE ServerTyped'
  BY <1>5 DEF Typed, Pause, Idle, server
<1>6. ASSUME Send PROVE ServerTyped'
  BY <1>6 DEF Typed, Send, Idle, server
<1>7. ASSUME PostRun PROVE ServerTyped'
  BY <1>7 DEF Typed, PostRun, Idle, server
<1>8. ASSUME Store PROVE ServerTyped'
  BY <1>8 DEF Typed, Store, Idle, server
<1>9. ASSUME Make \/ Subscribe \/ PushState \/ Receive \/ Disconnect \/
             Reconnect \/ FullSync \/ Ready \/ NotReady \/ Fetch \/ Merge \/
             Sent \/ Run \/ Notified \/ TimedOut \/ Expire \/ Poll \/
             PollFails \/ Refresh
      PROVE  ServerTyped'
  BY <1>9 DEF Typed, Make, Subscribe, PushState, Receive, Disconnect,
     Reconnect, FullSync, Ready, NotReady, Fetch, Merge, Sent, Run,
     Notified, TimedOut, Expire, Poll, PollFails, Refresh, Idle, server
<1> QED
  BY <1>1, <1>2, <1>3, <1>4, <1>5, <1>6, <1>7, <1>8, <1>9 DEF Next, Server,
     Caller, Network, Others

(* The socket carries events that are made, and tells of terminal ones.   *)
LEMMA SocketKept ==
  ASSUME Typed, Next
  PROVE  SocketTyped'
<1> USE DEF SocketTyped
<1>m. /\ chan \in Seq(Made') /\ wsq \in Seq(TerminalEvents')
      /\ \A e \in Made : e \in Made'
      /\ << >> \in Seq(Made') /\ << >> \in Seq(TerminalEvents')
  BY MadeGrows DEF Typed
<1>1. ASSUME Emit PROVE SocketTyped'
  <2>1. PICK e : Emitting(e)
    BY <1>1, EmitIs DEF Typed
  <2>2. chan' \in Seq(Made')
    BY <1>m, <2>1 DEF Emitting
  <2>3. UNCHANGED <<conn, ready, wsq>>
    BY <1>1 DEF Emit
  <2> QED
    BY <1>m, <2>2, <2>3 DEF Typed
<1>2. ASSUME PushState PROVE SocketTyped'
  <2>1. Len(kind') \in Made' /\ UNCHANGED <<ready, wsq>> /\ conn' = "open"
    <3>1. kind \in Seq(Kinds) /\ kind' = Append(kind, "full_state")
      BY <1>2 DEF Typed, LogTyped, PushState
    <3> QED
      BY <1>2, <3>1 DEF PushState, Made
  <2>2. chan' = chan \/ chan' = Append(chan, Len(kind'))
    BY <1>2 DEF PushState, Publish
  <2>3. chan' \in Seq(Made')
    BY <1>m, <2>1, <2>2
  <2> QED
    BY <1>m, <2>1, <2>3 DEF Typed
<1>3. ASSUME Receive PROVE SocketTyped'
  <2>1. PICK i \in DOMAIN chan :
          /\ chan' = RemoveAt(chan, i)
          /\ ready' = (ready \/ kind[chan[i]] \in Updates)
          /\ wsq' = wsq \/ (kind[chan[i]] \in Terminal /\ wsq' = Append(wsq, chan[i]))
    BY <1>3 DEF Receive
  <2>2. i \in 1..Len(chan) /\ chan[i] \in Made
    BY DEF Typed
  <2>3. chan' \in Seq(Made')
    BY <1>m, <2>1, <2>2, RemoveAtIs
  <2>4. ready' \in BOOLEAN
    BY <2>1 DEF Typed
  <2>5. conn' = conn
    BY <1>3 DEF Receive
  <2>6. wsq' \in Seq(TerminalEvents')
    <3>1. CASE wsq' = wsq
      BY <1>m, <3>1
    <3>2. CASE kind[chan[i]] \in Terminal /\ wsq' = Append(wsq, chan[i])
      <4>1. chan[i] \in TerminalEvents'
        BY <2>2, <3>2, MadeGrows DEF TerminalEvents, Typed
      <4> QED
        BY <1>m, <3>2, <4>1
    <3> QED
      BY <2>1, <3>1, <3>2
  <2> QED
    BY <2>3, <2>4, <2>5, <2>6 DEF Typed
<1>4. ASSUME Notified PROVE SocketTyped'
  <2>1. wsq # << >> /\ wsq' = Tail(wsq) /\ UNCHANGED <<conn, chan, ready>>
    BY <1>4 DEF Notified
  <2> QED
    BY <1>m, <2>1 DEF Typed
<1>5. ASSUME Subscribe PROVE SocketTyped'
  BY <1>5, <1>m DEF Subscribe, Typed
<1>6. ASSUME Disconnect PROVE SocketTyped'
  BY <1>6, <1>m DEF Disconnect, Typed
<1>7. ASSUME Reconnect PROVE SocketTyped'
  BY <1>7, <1>m DEF Reconnect, Typed
<1>8. ASSUME NotReady PROVE SocketTyped'
  BY <1>8, <1>m DEF NotReady, Typed
<1>9. ASSUME Run PROVE SocketTyped'
  BY <1>9, <1>m DEF Run, Typed
<1>10. ASSUME Store \/ StartRun \/ Iterate \/ EndRun \/ Make \/ Pause \/
             FullSync \/ Ready \/ Fetch \/ Merge \/ Send \/ Sent \/ PostRun
             \/ TimedOut \/ Expire \/ Poll \/ PollFails \/ Refresh
      PROVE  SocketTyped'
  BY <1>10, <1>m DEF Typed, Store, StartRun, Iterate, EndRun, Make, Pause,
     FullSync, Ready, Fetch, Merge, Send, Sent, PostRun, TimedOut, Expire,
     Poll, PollFails, Refresh, socket
<1> QED
  BY <1>1, <1>2, <1>3, <1>4, <1>5, <1>6, <1>7, <1>8, <1>9, <1>10 DEF Next,
     Server, Caller, Network, Others

(* The client's thread is at a place of its code.                         *)
LEMMA ThreadKept ==
  ASSUME Typed, Next
  PROVE  ThreadTyped'
<1> USE Constants DEF ThreadTyped
<1>1. ASSUME Fetch PROVE ThreadTyped'
  BY <1>1 DEF Typed, Fetch, client, locals, Leave, Resting, Enough, Counted,
     AfterRefresh
<1>2. ASSUME Merge PROVE ThreadTyped'
  BY <1>2 DEF Typed, Merge, client, locals, Leave, Resting, Enough, Counted,
     AfterRefresh
<1>3. ASSUME Sent PROVE ThreadTyped'
  BY <1>3 DEF Typed, Sent, client, locals, Leave, Resting, Enough, Counted,
     AfterRefresh
<1>4. ASSUME PostRun PROVE ThreadTyped'
  BY <1>4 DEF Typed, PostRun, client, locals, Leave, Resting, Enough,
     Counted, AfterRefresh
<1>5. ASSUME Poll PROVE ThreadTyped'
  BY <1>5 DEF Typed, Poll, client, locals, Leave, Resting, Enough, Counted,
     AfterRefresh
<1>6. ASSUME PollFails PROVE ThreadTyped'
  BY <1>6 DEF Typed, PollFails, client, locals, Leave, Resting, Enough,
     Counted, AfterRefresh
<1>7. ASSUME Notified PROVE ThreadTyped'
  BY <1>7 DEF Typed, Notified, client, locals, Leave, Resting, Enough,
     Counted, AfterRefresh
<1>8. ASSUME Refresh PROVE ThreadTyped'
  BY <1>8 DEF Typed, Refresh, client, locals, Leave, Resting, Enough,
     Counted, AfterRefresh
<1>9. ASSUME Expire PROVE ThreadTyped'
  BY <1>9 DEF Typed, Expire, client, locals, Leave, Resting, Enough,
     Counted, AfterRefresh
<1>10. ASSUME Run PROVE ThreadTyped'
  BY <1>10 DEF Typed, Run, client, locals, Leave, Resting, Enough, Counted,
     AfterRefresh
<1>11. ASSUME Ready PROVE ThreadTyped'
  BY <1>11 DEF Typed, Ready, client, locals, Leave, Resting, Enough,
     Counted, AfterRefresh
<1>12. ASSUME TimedOut PROVE ThreadTyped'
  BY <1>12 DEF Typed, TimedOut, client, locals, Leave, Resting, Enough,
     Counted, AfterRefresh
<1>13. ASSUME Send PROVE ThreadTyped'
  BY <1>13 DEF Typed, Send, client, locals, Leave, Resting, Enough, Counted,
     AfterRefresh
<1>14. ASSUME NotReady PROVE ThreadTyped'
  BY <1>14 DEF Typed, NotReady, client, locals, Leave, Resting, Enough,
     Counted, AfterRefresh
<1>15. ASSUME FullSync PROVE ThreadTyped'
  BY <1>15 DEF Typed, FullSync, client, locals, Leave, Resting, Enough,
     Counted, AfterRefresh
<1>16. ASSUME Emit \/ Store \/ StartRun \/ Iterate \/ EndRun \/ Make \/
             Pause \/ Subscribe \/ PushState \/ Receive \/ Disconnect \/
             Reconnect
      PROVE  ThreadTyped'
  BY <1>16 DEF Typed, Emit, Store, StartRun, Iterate, EndRun, Make, Pause,
     Subscribe, PushState, Receive, Disconnect, Reconnect, client, locals,
     Leave, Resting, Enough, Counted, AfterRefresh
<1> QED
  BY <1>1, <1>2, <1>3, <1>4, <1>5, <1>6, <1>7, <1>8, <1>9, <1>10, <1>11,
     <1>12, <1>13, <1>14, <1>15, <1>16 DEF Next, Server, Caller, Network,
     Others

(* The flags stay flags and the bounded counters within their bounds.     *)
LEMMA FlagsKept ==
  ASSUME Typed, Next
  PROVE  FlagsTyped'
<1> USE Constants DEF FlagsTyped
<1>1. ASSUME Fetch PROVE FlagsTyped'
  <2>1. \/ torn' = FALSE /\ ops' = ops /\ gaps' = gaps
        \/ torn' = TRUE /\ ops < MaxOps /\ ops' = ops + 1 /\ gaps' = (gaps \/ pc = "reconcile")
    BY <1>1 DEF Fetch, Count
  <2>2. UNCHANGED <<overtaken, orderly>>
    BY <1>1 DEF Fetch
  <2>3. torn' \in BOOLEAN /\ gaps' \in BOOLEAN
    BY <2>1 DEF Typed
  <2>4. ops' \in 0..MaxOps
    BY <2>1 DEF Typed
  <2> QED
    BY <2>2, <2>3, <2>4 DEF Typed
<1>2. ASSUME PollFails PROVE FlagsTyped'
  <2>1. UNCHANGED <<gaps, overtaken, orderly>> /\ ops < MaxOps /\ ops' = ops + 1
    BY <1>2 DEF PollFails, Count, history
  <2>2. torn' = FALSE \/ torn' = torn
    BY <1>2 DEF PollFails, Leave
  <2>3. torn' \in BOOLEAN
    BY <2>2 DEF Typed
  <2>4. ops' \in 0..MaxOps
    BY <2>1 DEF Typed
  <2> QED
    BY <2>1, <2>3, <2>4 DEF Typed
<1>3. ASSUME FullSync PROVE FlagsTyped'
  <2>1. UNCHANGED <<torn, gaps, overtaken, ops>> /\ orderly' = InOrder(cache')
    BY <1>3 DEF FullSync, locals
  <2>2. orderly' \in BOOLEAN
    BY <2>1 DEF InOrder
  <2> QED
    BY <2>1, <2>2 DEF Typed
<1>4. ASSUME Receive PROVE FlagsTyped'
  <2>1. PICK i \in DOMAIN chan :
          /\ gaps' \in {gaps, TRUE} /\ overtaken' \in {overtaken, TRUE}
          /\ ops' = ops \/ (ops < MaxOps /\ ops' = ops + 1)
    BY <1>4 DEF Receive, Count
  <2>2. UNCHANGED <<torn, orderly>>
    BY <1>4 DEF Receive, client, locals
  <2>3. gaps' \in BOOLEAN /\ overtaken' \in BOOLEAN
    BY <2>1 DEF Typed
  <2>4. ops' \in 0..MaxOps
    BY <2>1 DEF Typed
  <2> QED
    BY <2>2, <2>3, <2>4 DEF Typed
<1>5. ASSUME Merge PROVE FlagsTyped'
  BY <1>5 DEF Typed, Merge, client, locals, history, Leave, Count
<1>6. ASSUME Sent PROVE FlagsTyped'
  BY <1>6 DEF Typed, Sent, client, locals, history, Leave, Count
<1>7. ASSUME PostRun PROVE FlagsTyped'
  BY <1>7 DEF Typed, PostRun, client, locals, history, Leave, Count
<1>8. ASSUME Poll PROVE FlagsTyped'
  BY <1>8 DEF Typed, Poll, client, locals, history, Leave, Count
<1>9. ASSUME Notified PROVE FlagsTyped'
  BY <1>9 DEF Typed, Notified, client, locals, history, Leave, Count
<1>10. ASSUME Refresh PROVE FlagsTyped'
  BY <1>10 DEF Typed, Refresh, client, locals, history, Leave, Count
<1>11. ASSUME Expire PROVE FlagsTyped'
  BY <1>11 DEF Typed, Expire, client, locals, history, Leave, Count
<1>12. ASSUME Reconnect PROVE FlagsTyped'
  BY <1>12 DEF Typed, Reconnect, client, locals, history, Leave, Count
<1>13. ASSUME Run PROVE FlagsTyped'
  BY <1>13 DEF Typed, Run, client, locals, history, Leave, Count
<1>14. ASSUME Send PROVE FlagsTyped'
  BY <1>14 DEF Typed, Send, client, locals, history, Leave, Count
<1>15. ASSUME Make PROVE FlagsTyped'
  BY <1>15 DEF Typed, Make, client, locals, history, Leave, Count
<1>16. ASSUME Pause PROVE FlagsTyped'
  BY <1>16 DEF Typed, Pause, client, locals, history, Leave, Count
<1>17. ASSUME PushState PROVE FlagsTyped'
  BY <1>17 DEF Typed, PushState, client, locals, history, Leave, Count
<1>18. ASSUME Emit \/ Store \/ StartRun \/ Iterate \/ EndRun \/ Subscribe \/
             Disconnect \/ Ready \/ NotReady \/ TimedOut
      PROVE  FlagsTyped'
  BY <1>18 DEF Typed, Emit, Store, StartRun, Iterate, EndRun, Subscribe,
     Disconnect, Ready, NotReady, TimedOut, client, locals, history, Leave,
     Count
<1> QED
  BY <1>1, <1>2, <1>3, <1>4, <1>5, <1>6, <1>7, <1>8, <1>9, <1>10, <1>11,
     <1>12, <1>13, <1>14, <1>15, <1>16, <1>17, <1>18 DEF Next, Server,
     Caller, Network, Others

(* What the client read is not more than the server has stored.           *)
LEMMA AnswerKept ==
  ASSUME Typed, Next
  PROVE  AnswerTyped'
<1> USE Constants DEF AnswerTyped
<1>1. ASSUME Fetch PROVE AnswerTyped'
  BY <1>1 DEF Typed, Fetch, ServerTyped, server, client, locals, Leave
<1>2. ASSUME Emit PROVE AnswerTyped'
  BY <1>2 DEF Typed, Emit, ServerTyped, server, client, locals, Leave
<1>3. ASSUME Merge PROVE AnswerTyped'
  BY <1>3 DEF Typed, Merge, ServerTyped, server, client, locals, Leave
<1>4. ASSUME Sent PROVE AnswerTyped'
  BY <1>4 DEF Typed, Sent, ServerTyped, server, client, locals, Leave
<1>5. ASSUME PostRun PROVE AnswerTyped'
  BY <1>5 DEF Typed, PostRun, ServerTyped, server, client, locals, Leave
<1>6. ASSUME Poll PROVE AnswerTyped'
  BY <1>6 DEF Typed, Poll, ServerTyped, server, client, locals, Leave
<1>7. ASSUME PollFails PROVE AnswerTyped'
  BY <1>7 DEF Typed, PollFails, ServerTyped, server, client, locals, Leave
<1>8. ASSUME Notified PROVE AnswerTyped'
  BY <1>8 DEF Typed, Notified, ServerTyped, server, client, locals, Leave
<1>9. ASSUME Refresh PROVE AnswerTyped'
  BY <1>9 DEF Typed, Refresh, ServerTyped, server, client, locals, Leave
<1>10. ASSUME Expire PROVE AnswerTyped'
  BY <1>10 DEF Typed, Expire, ServerTyped, server, client, locals, Leave
<1>11. ASSUME Store PROVE AnswerTyped'
  BY <1>11 DEF Typed, Store, ServerTyped, server, client, locals, Leave
<1>12. ASSUME StartRun \/ Iterate \/ EndRun \/ Make \/ Pause \/ Subscribe \/
             PushState \/ Receive \/ Disconnect \/ Reconnect \/ FullSync \/
             Ready \/ NotReady \/ Send \/ Run \/ TimedOut
      PROVE  AnswerTyped'
  BY <1>12 DEF Typed, StartRun, Iterate, EndRun, Make, Pause, Subscribe,
     PushState, Receive, Disconnect, Reconnect, FullSync, Ready, NotReady,
     Send, Run, TimedOut, ServerTyped, server, client, locals, Leave
<1> QED
  BY <1>1, <1>2, <1>3, <1>4, <1>5, <1>6, <1>7, <1>8, <1>9, <1>10, <1>11,
     <1>12 DEF Next, Server, Caller, Network, Others

(* The mark is a place of the log with what is still to be emitted.       *)
LEMMA MarkKept ==
  ASSUME Typed, Next
  PROVE  MarkTyped'
<1> USE DEF MarkTyped
<1>t. /\ todo \in Seq(Statuses \union {"event"}) /\ Len(todo) \in Nat
      /\ Len(log) \in Nat /\ mark \in 0..(Len(log) + Len(todo))
  BY DEF Typed, ServerTyped, LogTyped
<1>e. ASSUME log' = log, mark' = mark, Len(todo') \in Nat, todo = << >> PROVE MarkTyped'
  BY <1>t, <1>e
<1>z. ASSUME mark' = 0, UNCHANGED <<log, todo>> PROVE MarkTyped'
  BY <1>t, <1>z
<1>1. ASSUME Emit PROVE MarkTyped'
  <2>1. PICK e : Emitting(e)
    BY <1>1, EmitIs DEF Typed
  <2>2. Len(log') = Len(log) + 1
    BY <2>1 DEF Emitting, Typed, LogTyped
  <2>3. mark' = mark /\ (todo' = todo \/ (todo # << >> /\ todo' = Tail(todo)))
    BY <1>1 DEF Emit, client, locals
  <2>4. Len(todo') \in Nat /\ Len(todo') >= Len(todo) - 1
    BY <1>t, <2>3
  <2> QED
    BY <1>t, <2>2, <2>3, <2>4
<1>2. ASSUME StartRun PROVE MarkTyped'
  <2>1. todo' \in Seq(Statuses \union {"event"})
    BY <1>2, ServerKept DEF Typed, ServerTyped
  <2> QED
    BY <1>2, <1>e, <2>1 DEF StartRun, Idle, client, locals
<1>3. ASSUME Iterate PROVE MarkTyped'
  <2>1. todo' \in Seq(Statuses \union {"event"})
    BY <1>3, ServerKept DEF Typed, ServerTyped
  <2> QED
    BY <1>3, <1>e, <2>1 DEF Iterate, Idle, client, locals
<1>4. ASSUME Pause PROVE MarkTyped'
  <2>1. todo' \in Seq(Statuses \union {"event"})
    BY <1>4, ServerKept DEF Typed, ServerTyped
  <2> QED
    BY <1>4, <1>e, <2>1 DEF Pause, Idle, client, locals
<1>5. ASSUME Send PROVE MarkTyped'
  <2>1. todo' \in Seq(Statuses \union {"event"})
    BY <1>5, ServerKept DEF Typed, ServerTyped
  <2>2. mark' = Len(log) + Len(todo') /\ log' = log
    BY <1>5 DEF Send
  <2> QED
    BY <1>t, <2>1, <2>2
<1>6. ASSUME Poll PROVE MarkTyped'
  <2>1. UNCHANGED <<log, todo>> /\ (mark' = 0 \/ mark' = mark \/ mark' = Len(log))
    BY <1>6 DEF Poll, Leave, server
  <2> QED
    BY <1>t, <2>1
<1>7. ASSUME PollFails PROVE MarkTyped'
  BY <1>7 DEF Typed, PollFails, server, client, locals, Leave
<1>8. ASSUME PostRun PROVE MarkTyped'
  BY <1>8 DEF Typed, PostRun, server, client, locals, Leave
<1>9. ASSUME Notified PROVE MarkTyped'
  BY <1>9 DEF Typed, Notified, server, client, locals, Leave
<1>10. ASSUME Refresh PROVE MarkTyped'
  BY <1>10 DEF Typed, Refresh, server, client, locals, Leave
<1>11. ASSUME Expire PROVE MarkTyped'
  BY <1>11 DEF Typed, Expire, server, client, locals, Leave
<1>12. ASSUME Merge PROVE MarkTyped'
  BY <1>12 DEF Typed, Merge, server, client, locals, Leave
<1>13. ASSUME Sent PROVE MarkTyped'
  BY <1>13 DEF Typed, Sent, server, client, locals, Leave
<1>14. ASSUME Store \/ EndRun \/ Make \/ Subscribe \/ PushState \/ Receive
             \/ Disconnect \/ Reconnect \/ FullSync \/ Ready \/ NotReady \/
             Fetch \/ Run \/ TimedOut
      PROVE  MarkTyped'
  BY <1>14 DEF Typed, Store, EndRun, Make, Subscribe, PushState, Receive,
     Disconnect, Reconnect, FullSync, Ready, NotReady, Fetch, Run, TimedOut,
     server, client, locals, Leave
<1> QED
  BY <1>1, <1>2, <1>3, <1>4, <1>5, <1>6, <1>7, <1>8, <1>9, <1>10, <1>11,
     <1>12, <1>13, <1>14 DEF Next, Server, Caller, Network, Others

(* The copy has events that were made, each once, and in order if the first *)
(* sync was.                                                              *)
LEMMA CacheKept ==
  ASSUME Typed, Next
  PROVE  CacheTyped'
<1> USE DEF CacheTyped
<1>m. /\ cache \in Seq(Made') /\ Made' \in SUBSET Nat /\ Made \in SUBSET Nat
      /\ \A e \in Made : e \in Made'
  BY MadeGrows DEF Typed, Made
<1>s. ASSUME UNCHANGED <<cache, orderly>> PROVE CacheTyped'
  BY <1>m, <1>s DEF Typed, InOrder, Distinct
<1>1. ASSUME Receive PROVE CacheTyped'
  <2>1. orderly' = orderly
    BY <1>1 DEF Receive
  <2>2. PICK i \in DOMAIN chan : cache' = cache \/ cache' \in Add(cache, chan[i])
    BY <1>1 DEF Receive
  <2> DEFINE e == chan[i]
  <2>3. e \in Made
    BY DEF Typed, SocketTyped
  <2>4. CASE cache' = cache
    BY <1>s, <2>1, <2>4
  <2>5. CASE cache' \in Add(cache, e)
    <3> HIDE DEF e
    <3>1. e \in Made' /\ cache \in Seq(Made') /\ Distinct(cache)
      BY <1>m, <2>3 DEF Typed
    <3>2. cache' \in Seq(Made')
      BY <1>m, <2>5, <3>1, AddKeeps
    <3>3. Distinct(cache')
      BY <1>m, <2>5, <3>1, AddKeeps
    <3>4. InOrder(cache) => InOrder(cache')
      BY <1>m, <2>5, <3>1, AddKeeps
    <3> QED
      BY <2>1, <3>2, <3>3, <3>4 DEF Typed, InOrder, Distinct
  <2> QED
    BY <2>2, <2>4, <2>5
<1>2. ASSUME FullSync PROVE CacheTyped'
  <2>1. cache' = SubSeq(log, 1, stored) /\ orderly' = InOrder(cache')
    BY <1>2 DEF FullSync
  <2>2. /\ log \in Seq(Made) /\ Distinct(log) /\ stored \in 0..Len(log)
        /\ Len(log) \in Nat /\ DOMAIN log = 1..Len(log)
    BY DEF Typed, LogTyped, LogInv, ServerTyped
  <2>3. /\ cache' \in Seq(Made) /\ DOMAIN cache' = 1..stored
        /\ \A i \in 1..stored : cache'[i] = log[i]
    BY <2>1, <2>2
  <2>4. cache' \in Seq(Made')
    BY <2>3, MadeGrows DEF Typed
  <2>5. Distinct(cache')
    BY <2>2, <2>3 DEF Distinct
  <2>6. orderly' => InOrder(cache')
    BY <2>1
  <2> QED
    BY <2>4, <2>5, <2>6 DEF InOrder, Distinct
<1>3. ASSUME Merge PROVE CacheTyped'
  <2>1. cache' \in AddAll(cache, log, fetched) /\ orderly' = orderly
    BY <1>3 DEF Merge, history
  <2>0. /\ log \in Seq(Made) /\ Len(log) \in Nat
        /\ stored \in 0..Len(log) /\ fetched \in 0..stored
    BY DEF Typed, LogTyped, ServerTyped, AnswerTyped
  <2>2. /\ fetched \in Nat /\ \A k \in 1..fetched : log[k] \in Made'
        /\ cache \in Seq(Made') /\ Distinct(cache)
    <3>1. \A k \in 1..fetched : k \in 1..Len(log)
      BY <2>0
    <3>2. \A k \in 1..fetched : log[k] \in Made
      BY <2>0, <3>1
    <3>3. fetched \in Nat /\ Distinct(cache)
      BY <2>0 DEF Typed
    <3> QED
      BY <1>m, <3>2, <3>3
  <2>3. cache' \in Seq(Made')
    BY <1>m, <2>1, <2>2, AddAllKeeps
  <2>4. Distinct(cache')
    BY <1>m, <2>1, <2>2, AddAllKeeps
  <2>5. InOrder(cache) => InOrder(cache')
    BY <1>m, <2>1, <2>2, AddAllKeeps
  <2> QED
    BY <2>1, <2>3, <2>4, <2>5 DEF Typed, InOrder, Distinct
<1>4. ASSUME Emit PROVE CacheTyped'
  BY <1>4, <1>s DEF Emit, history
<1>5. ASSUME Store PROVE CacheTyped'
  BY <1>5, <1>s DEF Store, history
<1>6. ASSUME StartRun \/ Iterate \/ EndRun \/ Make \/ Pause \/ Subscribe \/
             PushState \/ Disconnect \/ Reconnect \/ Ready \/ NotReady \/
             Fetch \/ Send \/ Sent \/ Run \/ PostRun \/ Notified \/ TimedOut
             \/ Expire \/ Poll \/ PollFails \/ Refresh
      PROVE  CacheTyped'
  BY <1>6, <1>s DEF StartRun, Iterate, EndRun, Make, Pause, Subscribe,
     PushState, Disconnect, Reconnect, Ready, NotReady, Fetch, Send, Sent,
     Run, PostRun, Notified, TimedOut, Expire, Poll, PollFails, Refresh,
     history
<1> QED
  BY <1>1, <1>2, <1>3, <1>4, <1>5, <1>6 DEF Next, Server, Caller, Network,
     Others

(* Every step keeps the types, the events and the copy.                    *)
LEMMA TypedKept == Typed /\ [Next]_vars => Typed'
<1>1. ASSUME Typed, Next PROVE Typed'
  <2>1. LogTyped'
    BY <1>1, LogKept DEF Typed
  <2> QED
    BY <1>1, <2>1, ServerKept, SocketKept, ThreadKept, FlagsKept, AnswerKept,
       MarkKept, CacheKept
    DEF Typed
<1>2. ASSUME Typed, UNCHANGED vars PROVE Typed'
  BY <1>2 DEF vars, server, socket, client, locals, history, Typed, LogTyped, LogInv,
     ServerTyped, SocketTyped, ThreadTyped, FlagsTyped, AnswerTyped, MarkTyped,
     CacheTyped, TerminalEvents, Made, InOrder, Distinct
<1> QED
  <2> SUFFICES ASSUME Typed, [Next]_vars PROVE Typed'
    OBVIOUS
  <2>1. CASE Next
    BY <1>1, <2>1
  <2>2. CASE UNCHANGED vars
    BY <1>2, <2>2
  <2> QED
    BY <2>1, <2>2

(* The types hold at the start.                                            *)
LEMMA InitTyped == Init => Typed
<1> SUFFICES ASSUME Init PROVE Typed
  OBVIOUS
<1>0. /\ kind \in {<<"event">>, <<"event", "RUNNING">>}
      /\ log = [i \in 1..Len(kind) |-> i] /\ stored = Len(log)
  BY DEF Init
<1>l. Len(kind) \in {1, 2} /\ kind \in Seq(Kinds)
  <2>1. "event" \in Kinds /\ "RUNNING" \in Kinds
    BY KindsAre
  <2>2. <<"event">> \in Seq(Kinds) /\ Len(<<"event">>) = 1
    BY <2>1
  <2>3. <<"event", "RUNNING">> \in Seq(Kinds) /\ Len(<<"event", "RUNNING">>) = 2
    BY <2>1
  <2> QED
    BY <1>0, <2>2, <2>3
<1>m. log \in Seq(Made) /\ Len(log) = Len(kind) /\ Distinct(log)
  BY <1>0, <1>l DEF Made, Distinct
<1>1. LogTyped
  <2>1. early = 0
    BY DEF Init
  <2> QED
    BY <1>l, <1>m, <2>1 DEF LogTyped, LogInv
<1>2. ServerTyped
  BY <1>0, <1>l, <1>m, Constants, Emissions, KindsAre DEF Init, ServerTyped
<1>3. SocketTyped
  <2>1. conn = "none" /\ chan = << >> /\ ready = FALSE /\ wsq = << >>
    BY DEF Init
  <2>2. \A S : << >> \in Seq(S)
    OBVIOUS
  <2> QED
    BY <2>1, <2>2 DEF SocketTyped
<1>4. ThreadTyped /\ AnswerTyped
  BY <1>2, Constants DEF Init, ThreadTyped, AnswerTyped, ServerTyped
<1>5. FlagsTyped
  <2>1. /\ torn \in BOOLEAN /\ gaps \in BOOLEAN /\ overtaken \in BOOLEAN
        /\ orderly \in BOOLEAN
    BY DEF Init
  <2>2. ops \in 0..MaxOps
    BY Constants DEF Init
  <2> QED
    BY <2>1, <2>2 DEF FlagsTyped
<1>6. MarkTyped
  <2>1. mark = 0 /\ todo = << >>
    BY DEF Init
  <2> QED
    BY <1>l, <1>m, <2>1 DEF MarkTyped
<1>7. CacheTyped
  <2>1. cache = << >>
    BY DEF Init
  <2> QED
    BY <2>1 DEF CacheTyped, InOrder, Distinct
<1> QED
  BY <1>1, <1>2, <1>3, <1>4, <1>5, <1>6, <1>7 DEF Typed
------------------------------------------------------------------------------
(* What is missing                                                         *)

(* An emitted event reaches who listens, and what the server had stored is *)
(* where it was.                                                           *)
LEMMA EmitMissing ==
  ASSUME Typed, Emit, Attaching
  PROVE  Missing' = Missing /\ chan' # << >>
<1>1. PICK e : Emitting(e)
  BY EmitIs DEF Typed
<1>2. /\ log' = Append(log, e) /\ chan' = Append(chan, e) /\ e \notin ToSet(log)
      /\ e \in Made' /\ log \in Seq(Made') /\ chan \in Seq(Made') /\ Cached' = Cached
  <2>1. Next
    BY DEF Next, Server
  <2>2. log \in Seq(Made') /\ chan \in Seq(Made')
    BY <2>1, MadeGrows DEF Typed, LogTyped, SocketTyped
  <2>3. Cached' = Cached
    BY DEF Emit, Cached
  <2> QED
    BY <1>1, <2>2, <2>3 DEF Emitting
<1>3. ToSet(log') = ToSet(log) \union {e}
  BY <1>2, Members
<1>4. ToSet(chan') = ToSet(chan) \union {e} /\ chan' # << >>
  BY <1>2, Members
<1> QED
  BY <1>2, <1>3, <1>4 DEF Missing

(* The answer of a request stays what it is while the log grows.           *)
LEMMA AnswerStays ==
  ASSUME Typed, Emit
  PROVE  \A n \in 0..Len(log) : Answer(n)' = Answer(n)
<1>1. PICK e : Emitting(e)
  BY EmitIs DEF Typed
<1>2. \A i \in 1..Len(log) : log'[i] = log[i]
  <2>1. log' = Append(log, e) /\ log \in Seq(Made)
    BY <1>1 DEF Emitting, Typed, LogTyped
  <2> QED
    BY <2>1
<1>3. ASSUME NEW n \in 0..Len(log)
      PROVE  {log'[i] : i \in 1..n} = {log[i] : i \in 1..n}
  <2>1. \A i \in 1..n : log'[i] = log[i]
    BY <1>2 DEF Typed, LogTyped
  <2> QED
    BY <2>1
<1> QED
  BY <1>3 DEF Answer

(* All that was emitted is in the answer if it is stored.                  *)
LEMMA AnswerWhole ==
  ASSUME Typed
  PROVE  /\ ToSet(log) = Answer(Len(log))
         /\ \A m, n \in Nat : m <= n => Answer(m) \subseteq Answer(n)
<1>1. DOMAIN log = 1..Len(log)
  BY DEF Typed, LogTyped
<1>2. ASSUME NEW m \in Nat, NEW n \in Nat, m <= n PROVE Answer(m) \subseteq Answer(n)
  <2>1. 1..m \subseteq 1..n
    BY <1>2
  <2> QED
    BY <2>1 DEF Answer
<1> QED
  BY <1>1, <1>2 DEF Answer, ToSet

(* An event that the socket brings is missing no longer.                   *)
LEMMA ReceiveMissing ==
  ASSUME Typed, NEW i \in DOMAIN chan, chan' = RemoveAt(chan, i), log' = log,
         cache' \in Add(cache, chan[i])
  PROVE  /\ Missing' \subseteq Missing
         /\ Cached' = Cached \union {chan[i]}
<1> DEFINE e == chan[i]
<1>1. chan \in Seq(Made) /\ i \in 1..Len(chan) /\ e \in Made /\ Made \in SUBSET Nat
  BY DEF Typed, SocketTyped, Made
<1>2. ToSet(chan) = ToSet(chan') \union {e}
  BY <1>1, RemoveAtIs
<1>3. cache \in Seq(Made) /\ Distinct(cache) /\ cache' \in Add(cache, e)
  BY DEF Typed, CacheTyped
<1> HIDE DEF e
<1>4. ToSet(cache') = ToSet(cache) \union {e}
  BY <1>1, <1>3, AddKeeps
<1>5. Missing' \subseteq Missing /\ Cached' = Cached \union {e}
  BY <1>2, <1>4 DEF Missing, Cached
<1> QED
  BY <1>5 DEF e

(* reconcile() adds all that was fetched.                                  *)
LEMMA MergeMissing ==
  ASSUME Typed, Merge
  PROVE  Cached' = Cached \union Answer(fetched) /\ Missing' = Missing \ Answer(fetched)
<1>1. cache' \in AddAll(cache, log, fetched) /\ log' = log /\ chan' = chan
  BY DEF Merge, server, socket
<1>0. /\ log \in Seq(Made) /\ Len(log) \in Nat
      /\ stored \in 0..Len(log) /\ fetched \in 0..stored
  BY DEF Typed, LogTyped, ServerTyped, AnswerTyped
<1>2. /\ fetched \in Nat /\ \A k \in 1..fetched : log[k] \in Made
      /\ Made \in SUBSET Nat
  <2>1. \A k \in 1..fetched : k \in 1..Len(log)
    BY <1>0
  <2> QED
    BY <1>0, <2>1 DEF Made
<1>3. cache \in Seq(Made) /\ Distinct(cache)
  BY DEF Typed, CacheTyped
<1>4. ToSet(cache') = ToSet(cache) \union {log[k] : k \in 1..fetched}
  BY <1>1, <1>2, <1>3, AddAllKeeps
<1> QED
  BY <1>1, <1>4 DEF Cached, Missing, Answer
------------------------------------------------------------------------------
(* What is on its way                                                      *)

InLogOrder(c, l) == \A i, j \in DOMAIN c : \A a, b \in DOMAIN l :
                      i < j /\ c[i] = l[a] /\ c[j] = l[b] => a < b

(* Every step keeps what is on its way in the order of the log.            *)
LEMMA ChannelKept ==
  ASSUME Typed, ChannelInv, Next
  PROVE  ChannelInv'
<1>t. /\ kind \in Seq(Kinds) /\ log \in Seq(Made) /\ chan \in Seq(Made)
      /\ Len(kind) \in Nat /\ Len(log) \in Nat /\ Len(chan) \in Nat
      /\ DOMAIN log = 1..Len(log) /\ DOMAIN chan = 1..Len(chan)
      /\ early \in 0..Len(kind) /\ Distinct(log)
      /\ early # 0 => early \notin ToSet(log) /\ early \notin ToSet(chan)
  BY DEF Typed, LogTyped, LogInv, SocketTyped, ChannelInv
<1>c. InLogOrder(chan, log)
  BY DEF ChannelInv, InLogOrder
<1>n. \A x \in ToSet(chan) : x \in Made
  BY <1>t DEF ToSet
<1>g. ASSUME ~Attaching' => chan' = << >>,
             early' # 0 => early' \notin ToSet(chan'),
             InLogOrder(chan', log')
      PROVE  ChannelInv'
  BY <1>g DEF ChannelInv, InLogOrder
<1>e. ASSUME chan' = << >> PROVE ChannelInv'
  BY <1>e DEF ChannelInv, ToSet
<1>s. ASSUME UNCHANGED <<conn, chan, log, early>> PROVE ChannelInv'
  BY <1>s DEF ChannelInv, Attaching
<1>1. ASSUME Emit PROVE ChannelInv'
  <2>1. PICK e : Emitting(e)
    BY <1>1, EmitIs DEF Typed
  <2>2. /\ log' = Append(log, e) /\ e \notin ToSet(log) /\ conn' = conn
        /\ e \in Made => e = early /\ e # 0 /\ early' = 0
        /\ early' \in {0, early}
    BY <1>1, <2>1 DEF Emitting, Emit
  <2>3. e \notin ToSet(chan)
    BY <1>n, <1>t, <2>2
  <2>4. /\ DOMAIN log' = 1..Len(log) + 1 /\ log'[Len(log) + 1] = e
        /\ \A a \in 1..Len(log) : log'[a] = log[a] /\ log[a] # e
    <3>1. \A a \in 1..Len(log) : log[a] # e
      BY <1>t, <2>2 DEF ToSet
    <3>2. e \in Made' /\ log \in Seq(Made')
      BY <2>1, MadeGrows DEF Typed, Emitting, LogTyped
    <3> QED
      BY <1>t, <2>2, <3>1, <3>2
  <2>5. \A i \in 1..Len(chan) : chan[i] # e
    BY <1>t, <2>3 DEF ToSet
  <2>6. CASE ~Attaching
    <3>1. chan' = << >>
      BY <2>1, <2>6 DEF Emitting, ChannelInv
    <3> QED
      BY <1>e, <3>1
  <2>7. CASE Attaching
    <3>1. chan' = Append(chan, e) /\ Attaching'
      BY <2>1, <2>2, <2>7 DEF Emitting, Attaching
    <3>2. /\ DOMAIN chan' = 1..Len(chan) + 1 /\ chan'[Len(chan) + 1] = e
          /\ \A i \in 1..Len(chan) : chan'[i] = chan[i]
      <4>1. e \in Made' /\ chan \in Seq(Made')
        BY <2>1, MadeGrows DEF Typed, Emitting, SocketTyped
      <4> QED
        BY <1>t, <3>1, <4>1
    <3>3. InLogOrder(chan', log')
      <4> SUFFICES ASSUME NEW i \in 1..Len(chan) + 1, NEW j \in 1..Len(chan) + 1,
                          NEW a \in 1..Len(log) + 1, NEW b \in 1..Len(log) + 1,
                          i < j, chan'[i] = log'[a], chan'[j] = log'[b]
                   PROVE  a < b
        BY <2>4, <3>2 DEF InLogOrder
      <4>1. i \in 1..Len(chan)
        BY <1>t
      <4>2. chan'[i] = chan[i] /\ chan[i] # e
        BY <2>5, <3>2, <4>1
      <4>3. a \in 1..Len(log) /\ log'[a] = log[a]
        <5>1. a # Len(log) + 1
          BY <2>4, <4>2
        <5> QED
          BY <1>t, <2>4, <5>1
      <4>4. CASE j = Len(chan) + 1
        <5>1. log'[b] = e
          BY <3>2, <4>4
        <5>2. b \notin 1..Len(log)
          BY <2>4, <5>1
        <5>3. a \in 1..Len(log) /\ b \in 1..Len(log) + 1 /\ Len(log) \in Nat
          BY <1>t, <4>3
        <5> QED
          BY <5>2, <5>3
      <4>5. CASE j # Len(chan) + 1
        <5>1. j \in 1..Len(chan) /\ chan'[j] = chan[j] /\ chan[j] # e
          BY <1>t, <2>5, <3>2, <4>5
        <5>2. b \in 1..Len(log) /\ log'[b] = log[b]
          <6>1. b # Len(log) + 1
            BY <2>4, <5>1
          <6> QED
            BY <1>t, <2>4, <6>1
        <5> QED
          <6>1. chan[i] = log[a] /\ chan[j] = log[b]
            BY <4>2, <4>3, <5>1, <5>2
          <6>2. i \in DOMAIN chan /\ j \in DOMAIN chan /\ a \in DOMAIN log /\ b \in DOMAIN log
            BY <1>t, <4>1, <4>3, <5>1, <5>2
          <6> QED
            BY <1>c, <6>1, <6>2 DEF InLogOrder
      <4> QED
        BY <4>4, <4>5
    <3>4. early' # 0 => early' \notin ToSet(chan')
      <4>1. early' # 0 => early' = early /\ early' # e
        <5>1. early # 0 => early \in Made
          BY <1>t DEF Made
        <5> QED
          BY <2>2, <5>1
      <4>2. ToSet(chan') = ToSet(chan) \union {e}
        <5>1. e \in Made' /\ chan \in Seq(Made')
          BY <2>1, MadeGrows DEF Typed, Emitting, SocketTyped
        <5> QED
          BY <3>1, <5>1, Members
      <4> QED
        BY <1>t, <4>1, <4>2
    <3> QED
      BY <1>g, <3>1, <3>3, <3>4
  <2> QED
    BY <2>6, <2>7
<1>2. ASSUME PushState PROVE ChannelInv'
  <2> DEFINE e == Len(kind')
  <2>1. /\ kind' = Append(kind, "full_state") /\ Attaching /\ Attaching'
        /\ log' = log /\ early' = early
        /\ chan' = chan \/ chan' = Append(chan, e)
    BY <1>2 DEF PushState, Publish, Attaching
  <2>2. e = Len(kind) + 1
    BY <1>t, <2>1
  <2> HIDE DEF e
  <2>3. e \notin Made
    BY <1>t, <2>2 DEF Made
  <2>4. \A a \in 1..Len(log) : log[a] # e
    BY <1>t, <2>3
  <2>5. CASE chan' = chan
    BY <1>c, <1>g, <1>t, <2>1, <2>5
  <2>6. CASE chan' = Append(chan, e)
    <3>1. /\ DOMAIN chan' = 1..Len(chan) + 1 /\ chan'[Len(chan) + 1] = e
          /\ \A i \in 1..Len(chan) : chan'[i] = chan[i]
          /\ ToSet(chan') = ToSet(chan) \union {e}
      <4>1. chan \in Seq(Made \union {e})
        BY <1>t, SeqWidens
      <4>2. e \in Made \union {e}
        OBVIOUS
      <4>3. ToSet(chan') = ToSet(chan) \union {e}
        BY <2>6, <4>1, <4>2, Members
      <4> QED
        BY <1>t, <2>6, <4>1, <4>2, <4>3
    <3>2. InLogOrder(chan', log')
      <4> SUFFICES ASSUME NEW i \in 1..Len(chan) + 1, NEW j \in 1..Len(chan) + 1,
                          NEW a \in 1..Len(log), NEW b \in 1..Len(log),
                          i < j, chan'[i] = log[a], chan'[j] = log[b]
                   PROVE  a < b
        BY <1>t, <2>1, <3>1 DEF InLogOrder
      <4>1. i # Len(chan) + 1 /\ j # Len(chan) + 1
        BY <2>4, <3>1
      <4>2. i \in 1..Len(chan) /\ j \in 1..Len(chan)
        <5>1. Len(chan) \in Nat
          BY <1>t
        <5> QED
          BY <4>1, <5>1
      <4>3. chan[i] = log[a] /\ chan[j] = log[b]
        BY <3>1, <4>2
      <4> QED
        BY <1>c, <1>t, <4>2, <4>3 DEF InLogOrder
    <3>3. early' # 0 => early' \notin ToSet(chan')
      <4>1. early # 0 => early # e
        BY <1>t, <2>2
      <4> QED
        BY <1>t, <2>1, <3>1, <4>1
    <3> QED
      BY <1>g, <2>1, <3>2, <3>3
  <2> QED
    BY <2>1, <2>5, <2>6
<1>3. ASSUME Receive PROVE ChannelInv'
  <2>1. PICK i \in DOMAIN chan : chan' = RemoveAt(chan, i)
    BY <1>3 DEF Receive
  <2>2. UNCHANGED <<conn, log, early>> /\ chan # << >>
    BY <1>3, <1>t DEF Receive, server
  <2>3. i \in 1..Len(chan)
    BY <1>t
  <2>4. Len(chan') = Len(chan) - 1 /\ chan' \in Seq(Made)
    BY <1>t, <2>1, <2>3, RemoveAtIs
  <2>5. Without(chan', chan, i)
    BY <1>t, <2>1, <2>3, RemoveAtIs
  <2>6. ToSet(chan) = ToSet(chan') \union {chan[i]}
    BY <1>t, <2>1, <2>3, RemoveAtIs
  <2>7. InLogOrder(chan', log')
    <3> SUFFICES ASSUME NEW j \in 1..Len(chan) - 1, NEW k \in 1..Len(chan) - 1,
                        NEW a \in 1..Len(log), NEW b \in 1..Len(log),
                        j < k, chan'[j] = log[a], chan'[k] = log[b]
                 PROVE  a < b
      <4>1. DOMAIN chan' = 1..Len(chan) - 1 /\ DOMAIN log' = 1..Len(log) /\ log' = log
        BY <1>t, <2>2, <2>4
      <4> QED
        BY <4>1 DEF InLogOrder
    <3> DEFINE at(x) == IF x < i THEN x ELSE x + 1
    <3>1. at(j) \in 1..Len(chan) /\ at(k) \in 1..Len(chan) /\ at(j) < at(k)
      BY <1>t, <2>3
    <3>2. chan'[j] = chan[at(j)] /\ chan'[k] = chan[at(k)]
      BY <2>5 DEF Without
    <3> HIDE DEF at
    <3> QED
      BY <1>c, <1>t, <3>1, <3>2 DEF InLogOrder
  <2>8. Attaching' /\ (early' # 0 => early' \notin ToSet(chan'))
    BY <1>t, <2>2, <2>6 DEF ChannelInv, Attaching
  <2> QED
    BY <1>g, <2>7, <2>8
<1>4. ASSUME Make PROVE ChannelInv'
  <2>1. early' = Len(kind') /\ UNCHANGED <<conn, chan, log>>
    BY <1>4 DEF Make, socket
  <2>2. PICK k : kind' = Append(kind, k)
    BY <1>4 DEF Make
  <2>3. early' = Len(kind) + 1
    BY <1>t, <2>1, <2>2
  <2>4. early' \notin ToSet(chan)
    BY <1>n, <1>t, <2>3 DEF Made
  <2> QED
    BY <1>c, <1>g, <2>1, <2>4 DEF ChannelInv, Attaching
<1>5. ASSUME Disconnect \/ Reconnect \/ NotReady PROVE ChannelInv'
  BY <1>5, <1>e DEF Disconnect, Reconnect, NotReady
<1>6. ASSUME Subscribe PROVE ChannelInv'
  BY <1>6 DEF Subscribe, ChannelInv, Attaching, server
<1>7. ASSUME \/ Store \/ StartRun \/ Iterate \/ EndRun \/ Pause \/ FullSync \/ Ready
             \/ Fetch \/ Merge \/ Send \/ Sent \/ Run \/ PostRun \/ Notified
             \/ TimedOut \/ Expire \/ Poll \/ PollFails \/ Refresh
      PROVE  ChannelInv'
  BY <1>7, <1>s DEF Store, StartRun, Iterate, EndRun, Pause, FullSync, Ready, Fetch,
     Merge, Send, Sent, Run, PostRun, Notified, TimedOut, Expire, Poll, PollFails,
     Refresh, socket, server
<1> QED
  BY <1>1, <1>2, <1>3, <1>4, <1>5, <1>6, <1>7 DEF Next, Server, Caller, Network, Others
------------------------------------------------------------------------------
(* The fallback of run()                                                   *)

(* Every step keeps the mark of a poll within the reach of the fallback.   *)
LEMMA FallbackKept ==
  ASSUME Typed, FallbackInv, Next
  PROVE  FallbackInv'
<1>t. /\ stored \in 0..Len(log) /\ Len(log) - stored \in {0, 1} /\ Len(log) \in Nat
      /\ mark \in Nat /\ fetched \in 0..stored
  BY DEF Typed, LogTyped, ServerTyped, MarkTyped, AnswerTyped
<1>1. ASSUME Store PROVE FallbackInv'
  BY <1>1, <1>t DEF Store, client, locals, FallbackInv
<1>2. ASSUME Poll PROVE FallbackInv'
  <2>1. /\ pc = "polling" /\ stored' = stored
        /\ pc' \in {"raised", "waiting"} \/ (pc' = "refresh" /\ mark' = Len(log))
    BY <1>2 DEF Poll, Leave, server
  <2> QED
    BY <1>t, <2>1 DEF FallbackInv
<1>3. ASSUME Refresh PROVE FallbackInv'
  <2>1. /\ pc = "refresh" /\ stored' = stored
        /\ pc' = "raised" \/ (pc' = "fallback" /\ mark' = mark)
    BY <1>3 DEF Refresh, Leave, AfterRefresh, server, locals
  <2> QED
    BY <1>t, <2>1 DEF FallbackInv
<1>4. ASSUME Fetch PROVE FallbackInv'
  <2>1. /\ pc \in {"reconcile", "fallback"}
        /\ pc' = IF pc = "reconcile" THEN "merge" ELSE "last_merge"
        /\ UNCHANGED <<stored, mark>>
        /\ torn' \/ fetched' = stored
    BY <1>4 DEF Fetch, server
  <2> QED
    BY <1>t, <2>1 DEF FallbackInv
<1>5. ASSUME \/ FullSync \/ Ready \/ NotReady \/ Merge \/ Send \/ Sent \/ Run \/ PostRun
             \/ Notified \/ TimedOut \/ Expire \/ PollFails
      PROVE  FallbackInv'
  <2>1. pc' \notin {"refresh", "fallback", "last_merge"}
    BY <1>5 DEF FullSync, Ready, NotReady, Merge, Send, Sent, Run, PostRun, Notified,
       TimedOut, Expire, PollFails, Leave
  <2> QED
    BY <2>1 DEF FallbackInv
<1>6. ASSUME \/ Emit \/ StartRun \/ Iterate \/ EndRun \/ Make \/ Pause \/ Subscribe
             \/ PushState \/ Receive \/ Disconnect \/ Reconnect
      PROVE  FallbackInv'
  <2>1. UNCHANGED <<stored, pc, mark, torn, fetched>>
    BY <1>6 DEF Emit, StartRun, Iterate, EndRun, Make, Pause, Subscribe, PushState,
       Receive, Disconnect, Reconnect, server, client, locals
  <2> QED
    BY <2>1 DEF FallbackInv
<1> QED
  BY <1>1, <1>2, <1>3, <1>4, <1>5, <1>6 DEF Next, Server, Caller, Network, Others
------------------------------------------------------------------------------
(* The handshake                                                           *)

(* Every step keeps what the handshake has promised.                       *)
LEMMA HandshakeKept ==
  ASSUME Typed, ChannelInv, HandshakeInv, Next
  PROVE  HandshakeInv'
<1> DEFINE Quiet(p) == p \notin {"sync", "connecting", "reconcile", "merge", "failed"}
<1>t. /\ stored \in 0..Len(log) /\ Len(log) \in Nat /\ fetched \in 0..stored
      /\ fetched \in 0..Len(log)
      /\ ready \in BOOLEAN /\ gaps \in BOOLEAN
  <2>1. stored \in 0..Len(log) /\ Len(log) \in Nat /\ fetched \in 0..stored
    BY DEF Typed, LogTyped, ServerTyped, AnswerTyped
  <2>2. fetched \in 0..Len(log)
    BY <2>1
  <2>3. ready \in BOOLEAN /\ gaps \in BOOLEAN
    BY DEF Typed, SocketTyped, FlagsTyped
  <2> QED
    BY <2>1, <2>2, <2>3
<1>w. Missing \subseteq Answer(Len(log))
  BY AnswerWhole DEF Missing
<1>1. ASSUME Emit PROVE HandshakeInv'
  <2>1. UNCHANGED <<pc, conn, ready, gaps, stored, fetched>> /\ stored = Len(log)
    BY <1>1 DEF Emit, client, locals, history
  <2>2. Attaching' = Attaching
    BY <2>1 DEF Attaching
  <2>3. Attaching => Missing' = Missing
    BY <1>1, EmitMissing
  <2>4. Answer(stored)' = Answer(stored) /\ Answer(fetched)' = Answer(fetched)
    <3>1. \A n \in 0..Len(log) : {log'[i] : i \in 1..n} = {log[i] : i \in 1..n}
      BY <1>1, AnswerStays DEF Answer
    <3> QED
      BY <1>t, <2>1, <3>1 DEF Answer
  <2>5. Missing \subseteq Answer(stored)
    BY <1>w, <2>1
  <2> QED
    BY <2>1, <2>2, <2>3, <2>4, <2>5 DEF HandshakeInv
<1>2. ASSUME Store PROVE HandshakeInv'
  <2>1. /\ UNCHANGED <<pc, conn, ready, gaps, log, chan, cache, fetched>>
        /\ stored' = stored + 1
    BY <1>2 DEF Store, socket, client, locals, history
  <2>2. Attaching' = Attaching /\ Missing' = Missing
    BY <2>1 DEF Attaching, Missing, Cached
  <2>3. Answer(stored) \subseteq Answer(stored') /\ Answer(stored)' = Answer(stored')
    <3>1. stored \in Nat /\ stored' \in Nat /\ stored <= stored'
      BY <1>t, <2>1
    <3> DEFINE m == stored
               n == stored'
    <3>2. m \in Nat /\ n \in Nat /\ m <= n
      BY <3>1
    <3> HIDE DEF m, n
    <3>3. Answer(m) \subseteq Answer(n)
      BY <3>2, AnswerWhole
    <3>4. Answer(stored)' = Answer(stored')
      BY <2>1 DEF Answer
    <3> QED
      BY <3>3, <3>4 DEF m, n
  <2>4. Answer(fetched)' = Answer(fetched)
    BY <2>1 DEF Answer
  <2> QED
    BY <2>1, <2>2, <2>3, <2>4 DEF HandshakeInv
<1>s. ASSUME UNCHANGED <<conn, ready, gaps, log, chan, cache, stored>>
      PROVE  /\ Attaching' = Attaching /\ Missing' = Missing
             /\ Answer(stored)' = Answer(stored)
             /\ fetched' = fetched => Answer(fetched)' = Answer(fetched)
             /\ fetched' = stored => Answer(fetched)' = Answer(stored)
  BY <1>s DEF Attaching, Missing, Cached, Answer
<1>3. ASSUME StartRun \/ Iterate \/ EndRun \/ Make \/ Pause PROVE HandshakeInv'
  <2>1. UNCHANGED <<pc, conn, ready, gaps, log, chan, cache, fetched, stored>>
    BY <1>3 DEF StartRun, Iterate, EndRun, Make, Pause, socket, client, locals, history
  <2> QED
    BY <1>s, <2>1 DEF HandshakeInv
<1>4. ASSUME Subscribe PROVE HandshakeInv'
  <2>1. /\ conn = "none" /\ conn' = "subscribed" /\ pc # "sync"
        /\ UNCHANGED <<pc, ready, gaps, log, chan, cache, fetched, stored>>
    BY <1>4 DEF Subscribe, server, client, locals, history
  <2>2. CASE gaps
    BY <2>1, <2>2 DEF HandshakeInv
  <2>3. CASE ~gaps
    <3>1. ~ready /\ chan = << >>
      BY <2>1, <2>3 DEF HandshakeInv, ChannelInv, Attaching
    <3>2. pc \in {"connecting", "failed"}
      BY <2>1, <3>1 DEF HandshakeInv, Typed, ThreadTyped
    <3> QED
      BY <2>1, <3>1, <3>2 DEF HandshakeInv
  <2> QED
    BY <2>2, <2>3
<1>5. ASSUME PushState PROVE HandshakeInv'
  <2> DEFINE e == Len(kind')
  <2>1. /\ conn = "subscribed" /\ conn' = "open" /\ stored = Len(log)
        /\ kind' = Append(kind, "full_state")
        /\ chan' = chan \/ chan' = Append(chan, e)
        /\ UNCHANGED <<pc, ready, gaps, log, cache, fetched, stored>>
    BY <1>5 DEF PushState, Publish, SnapshotTaken, Idle, server, client, locals, history
  <2>2. e = Len(kind) + 1 /\ Len(kind) \in Nat
    BY <2>1 DEF Typed, LogTyped
  <2> HIDE DEF e
  <2>3. e \notin ToSet(log)
    <3>1. \A x \in ToSet(log) : x \in 1..Len(kind)
      BY DEF Typed, LogTyped, Made, ToSet
    <3> QED
      BY <2>2, <3>1
  <2>4. ToSet(chan') \in {ToSet(chan), ToSet(chan) \union {e}}
    <3>1. CASE chan' = chan
      BY <3>1
    <3>2. CASE chan' = Append(chan, e)
      <4>1. chan \in Seq(Made)
        BY DEF Typed, SocketTyped
      <4>2. chan \in Seq(Made \union {e}) /\ e \in Made \union {e}
        BY <4>1, SeqWidens
      <4>3. ToSet(chan') = ToSet(chan) \union {e}
        BY <3>2, <4>2, Members
      <4> QED
        BY <4>3
    <3> QED
      BY <2>1, <3>1, <3>2
  <2>5. Missing' = Missing
    BY <2>1, <2>3, <2>4 DEF Missing, Cached
  <2>6. Missing \subseteq Answer(stored)
    BY <1>w, <2>1
  <2>7. Attaching /\ Answer(stored)' = Answer(stored) /\ Answer(fetched)' = Answer(fetched)
    BY <2>1 DEF Attaching, Answer
  <2> QED
    BY <2>1, <2>5, <2>6, <2>7 DEF HandshakeInv
<1>6. ASSUME Receive PROVE HandshakeInv'
  <2>1. /\ UNCHANGED <<pc, conn, log, stored, fetched>>
        /\ ready => ready'
        /\ gaps => gaps'
    BY <1>6, <1>t DEF Receive, server, client, locals
  <2>2. PICK i \in DOMAIN chan :
          chan' = RemoveAt(chan, i) /\ (gaps' \/ cache' \in Add(cache, chan[i]))
    BY <1>6 DEF Receive
  <2>3. chan # << >>
    BY <2>2
  <2>4. ~gaps' => Missing' \subseteq Missing
    BY <2>1, <2>2, ReceiveMissing
  <2>5. Attaching /\ Attaching'
    BY <2>1, <2>3 DEF Attaching, ChannelInv
  <2>6. conn # "none"
    BY <2>5 DEF Attaching
  <2>7. Answer(stored)' = Answer(stored) /\ Answer(fetched)' = Answer(fetched)
    BY <2>1 DEF Answer
  <2> QED
    BY <2>1, <2>3, <2>4, <2>5, <2>6, <2>7 DEF HandshakeInv
<1>7. ASSUME Disconnect PROVE HandshakeInv'
  <2>1. conn \in {"subscribed", "open"} /\ conn' = "closed" /\ UNCHANGED <<pc, ready, gaps>>
    BY <1>7 DEF Disconnect, client, history
  <2> QED
    BY <2>1 DEF HandshakeInv, Attaching
<1>8. ASSUME Reconnect PROVE HandshakeInv'
  <2>1. conn \in {"subscribed", "open"} /\ gaps' = TRUE /\ UNCHANGED <<pc, ready>>
        /\ conn' = "none"
    BY <1>8 DEF Reconnect, client
  <2> QED
    BY <2>1 DEF HandshakeInv, Attaching
<1>9. ASSUME FullSync PROVE HandshakeInv'
  <2>1. pc = "sync" /\ pc' = "connecting" /\ UNCHANGED <<conn, ready, gaps>>
    BY <1>9 DEF FullSync, socket
  <2> QED
    BY <2>1 DEF HandshakeInv, Attaching
<1>10. ASSUME Ready PROVE HandshakeInv'
  <2>1. /\ pc = "connecting" /\ pc' = "reconcile" /\ ready
        /\ UNCHANGED <<conn, ready, gaps, log, chan, cache, fetched, stored>>
    BY <1>10 DEF Ready, server, socket, locals, history
  <2> QED
    BY <1>s, <2>1 DEF HandshakeInv
<1>11. ASSUME NotReady PROVE HandshakeInv'
  <2>1. pc' = "failed" /\ conn' = "closed"
    BY <1>11 DEF NotReady
  <2> QED
    BY <2>1 DEF HandshakeInv, Attaching
<1>12. ASSUME Fetch PROVE HandshakeInv'
  <2>1. /\ pc \in {"reconcile", "fallback"}
        /\ pc' = IF pc = "reconcile" THEN "merge" ELSE "last_merge"
        /\ UNCHANGED <<conn, ready, log, chan, cache, stored>>
    BY <1>12 DEF Fetch, server, socket
  <2>2. \/ fetched' = stored /\ gaps' = gaps
        \/ pc = "reconcile" /\ gaps' = TRUE
        \/ pc = "fallback" /\ (gaps => gaps')
    BY <1>12 DEF Fetch
  <2>3. Attaching' = Attaching /\ Missing' = Missing /\ Answer(stored)' = Answer(stored)
    BY <2>1 DEF Attaching, Missing, Cached, Answer
  <2>4. ~gaps' => ~gaps
    BY <2>1, <2>2
  <2>5. CASE pc = "fallback"
    BY <2>1, <2>3, <2>4, <2>5 DEF HandshakeInv
  <2>6. CASE pc = "reconcile" /\ gaps'
    BY <2>1, <2>6 DEF HandshakeInv
  <2>7. CASE pc = "reconcile" /\ ~gaps'
    <3>1. fetched' = stored /\ ready /\ ~gaps
      BY <2>2, <2>4, <2>7 DEF HandshakeInv
    <3>2. Answer(fetched)' = Answer(stored)
      BY <2>1, <3>1 DEF Answer
    <3> QED
      BY <2>1, <2>3, <2>7, <3>1, <3>2 DEF HandshakeInv
  <2> QED
    BY <2>1, <2>5, <2>6, <2>7
<1>13. ASSUME Merge PROVE HandshakeInv'
  <2>1. /\ pc \in {"merge", "last_merge"} /\ pc' = "idle"
        /\ UNCHANGED <<conn, ready, gaps, log, chan, stored>>
    BY <1>13 DEF Merge, Leave, server, socket, history
  <2>2. Missing' = Missing \ Answer(fetched)
    BY <1>13, MergeMissing
  <2>3. Attaching' = Attaching /\ Answer(stored)' = Answer(stored)
    BY <2>1 DEF Attaching, Answer
  <2> QED
    BY <2>1, <2>2, <2>3 DEF HandshakeInv
<1>14. ASSUME \/ Send \/ Sent \/ Run \/ PostRun \/ Notified \/ TimedOut \/ Expire
              \/ Poll \/ PollFails \/ Refresh
       PROVE  HandshakeInv'
  <2>1. UNCHANGED <<conn, ready, gaps, log, chan, cache, stored>>
    BY <1>14 DEF Send, Sent, Run, PostRun, Notified, TimedOut, Expire, Poll, PollFails,
       Refresh, server, socket, history
  <2>2. Quiet(pc) /\ Quiet(pc')
    BY <1>14 DEF Send, Sent, Run, PostRun, Notified, TimedOut, Expire, Poll, PollFails,
       Refresh, Leave, Resting, AfterRefresh
  <2> QED
    BY <1>s, <2>1, <2>2 DEF HandshakeInv
<1> QED
  BY <1>1, <1>2, <1>3, <1>4, <1>5, <1>6, <1>7, <1>8, <1>9, <1>10, <1>11, <1>12, <1>13,
     <1>14
  DEF Next, Server, Caller, Network, Others
------------------------------------------------------------------------------
(* What the socket told a run() that waits                                 *)

(* An emission adds nothing before the terminal events that are queued.    *)
LEMMA UpToStays ==
  ASSUME Typed, Emit, NEW x \in ToSet(wsq)
  PROVE  UpTo(x)' = UpTo(x)
<1>1. PICK e : Emitting(e)
  BY EmitIs DEF Typed
<1>2. x \in Made /\ kind[x] \in Terminal
  BY DEF Typed, SocketTyped, ToSet, TerminalEvents
<1>3. x # e
  <2>1. e \in Made => kind[e] \notin Terminal
    BY <1>1 DEF Emitting, Typed, LogTyped, LogInv
  <2> QED
    BY <1>2, <2>1
<1>4. /\ DOMAIN log = 1..Len(log) /\ DOMAIN log' = 1..Len(log) + 1 /\ Len(log) \in Nat
      /\ log'[Len(log) + 1] = e /\ \A i \in 1..Len(log) : log'[i] = log[i]
  <2>1. log \in Seq(Made') /\ e \in Made' /\ log' = Append(log, e)
    <3>1. Next
      BY DEF Next, Server
    <3> QED
      BY <1>1, <3>1, MadeGrows DEF Typed, LogTyped, Emitting
  <2> QED
    BY <2>1
<1> DEFINE A == {i \in DOMAIN log : \E j \in DOMAIN log : i <= j /\ log[j] = x}
           B == {i \in DOMAIN log' : \E j \in DOMAIN log' : i <= j /\ log'[j] = x}
<1>5. \A i : i \in B <=> i \in A
  <2>1. ASSUME NEW i \in A PROVE i \in B
    BY <1>4, <2>1
  <2>2. ASSUME NEW i \in B PROVE i \in A
    <3>1. PICK j \in 1..Len(log) + 1 : i <= j /\ log'[j] = x
      BY <1>4, <2>2
    <3>2. j # Len(log) + 1
      BY <1>3, <1>4, <3>1
    <3>3. j \in 1..Len(log) /\ log[j] = x /\ i \in 1..Len(log)
      BY <1>4, <2>2, <3>1, <3>2
    <3> QED
      BY <1>4, <3>1, <3>3
  <2> QED
    BY <2>1, <2>2
<1>6. A = B /\ A \subseteq 1..Len(log)
  BY <1>4, <1>5
<1> HIDE DEF A, B
<1>7. {log'[i] : i \in B} = {log[i] : i \in A}
  BY <1>4, <1>6
<1> QED
  BY <1>7 DEF A, B, UpTo

(* Every step keeps what the queue of terminal states says of the copy.    *)
LEMMA QueueKept ==
  ASSUME Typed, ChannelInv, HandshakeInv, QueueInv, Next
  PROVE  QueueInv'
<1>s. ASSUME UNCHANGED <<wsq, cache, log>>, gaps => gaps', overtaken => overtaken',
             Waits' => Waits
      PROVE  QueueInv'
  BY <1>s DEF QueueInv, UpTo, Cached
<1>1. ASSUME Receive PROVE QueueInv'
  <2> SUFFICES ASSUME Waits', ~gaps', ~overtaken'
               PROVE  (\A k \in ToSet(wsq) : UpTo(k) \subseteq Cached)'
    BY DEF QueueInv
  <2>t. /\ log \in Seq(Made) /\ chan \in Seq(Made) /\ wsq \in Seq(TerminalEvents)
        /\ DOMAIN chan = 1..Len(chan) /\ Len(chan) \in Nat
        /\ DOMAIN log = 1..Len(log) /\ Len(log) \in Nat
        /\ gaps \in BOOLEAN /\ overtaken \in BOOLEAN
    BY DEF Typed, LogTyped, SocketTyped, FlagsTyped
  <2>1. PICK i \in DOMAIN chan :
          /\ chan' = RemoveAt(chan, i)
          /\ i = 1 \/ overtaken'
          /\ gaps' \/ cache' \in Add(cache, chan[i])
          /\ wsq' = wsq \/ (kind[chan[i]] \in Terminal /\ wsq' = Append(wsq, chan[i]))
          /\ gaps' \in {gaps, TRUE} /\ overtaken' \in {overtaken, TRUE}
    BY <1>1 DEF Receive
  <2>e. PICK e : e = chan[1]
    OBVIOUS
  <2>2. i = 1 /\ 1 \in DOMAIN chan /\ cache' \in Add(cache, e) /\ ~gaps /\ ~overtaken
    BY <2>1, <2>t, <2>e
  <2>3. UNCHANGED <<pc, conn, log>>
    BY <1>1 DEF Receive, server, client
  <2>4. Cached' = Cached \union {e}
    BY <2>1, <2>2, <2>3, <2>e, ReceiveMissing
  <2>5. Waits
    BY <2>3 DEF Waits
  <2>6. \A k \in ToSet(wsq) : UpTo(k)' \subseteq Cached'
    BY <2>2, <2>3, <2>4, <2>5 DEF QueueInv, UpTo
  <2>7. CASE wsq' = wsq
    BY <2>6, <2>7
  <2>8. CASE kind[e] \in Terminal /\ wsq' = Append(wsq, e)
    <3>1. Missing = {}
      <4>1. Attaching
        BY <2>2, <2>t DEF ChannelInv
      <4> QED
        BY <2>2, <2>5, <4>1 DEF HandshakeInv, Waits
    <3>2. ASSUME NEW x \in UpTo(e) PROVE x \in Cached'
      <4>1. PICK a \in DOMAIN log, b \in DOMAIN log : a <= b /\ log[b] = e /\ x = log[a]
        BY DEF UpTo
      <4>2. x \in Cached \/ x \in ToSet(chan)
        <5>1. x \in ToSet(log)
          BY <4>1 DEF ToSet
        <5> QED
          BY <3>1, <5>1 DEF Missing
      <4>3. CASE x \in ToSet(chan)
        <5>1. PICK j \in DOMAIN chan : chan[j] = x
          BY <4>3 DEF ToSet
        <5>2. CASE j = 1
          BY <2>4, <2>e, <5>1, <5>2
        <5>3. CASE j # 1
          <6>1. 1 < j /\ chan[1] = log[b]
            BY <2>e, <2>t, <4>1, <5>3
          <6>2. b < a
            BY <2>2, <4>1, <5>1, <6>1 DEF ChannelInv
          <6> QED
            BY <2>t, <4>1, <6>2
        <5> QED
          BY <5>2, <5>3
      <4> QED
        BY <2>4, <4>2, <4>3
    <3>3. ToSet(wsq') = ToSet(wsq) \union {e}
      <4>1. e \in TerminalEvents
        BY <2>2, <2>8, <2>e, <2>t DEF TerminalEvents
      <4> QED
        BY <2>8, <2>t, <4>1, Members
    <3>4. UpTo(e)' \subseteq Cached'
      BY <2>3, <3>2 DEF UpTo
    <3> QED
      BY <2>6, <3>3, <3>4
  <2> QED
    BY <2>1, <2>2, <2>7, <2>8, <2>e
<1>2. ASSUME Run PROVE QueueInv'
  <2>1. wsq' = << >>
    BY <1>2 DEF Run
  <2>2. ToSet(<< >>) = {}
    BY DEF ToSet
  <2> QED
    BY <2>1, <2>2 DEF QueueInv
<1>3. ASSUME FullSync \/ Ready \/ NotReady \/ Merge \/ Send \/ Sent \/ Notified \/ Expire
      PROVE  QueueInv'
  <2>1. ~Waits'
    BY <1>3 DEF FullSync, Ready, NotReady, Merge, Send, Sent, Notified, Expire, Leave, Waits
  <2> QED
    BY <2>1 DEF QueueInv
<1>4. ASSUME Reconnect PROVE QueueInv'
  BY <1>4 DEF Reconnect, QueueInv
<1>5. ASSUME Fetch PROVE QueueInv'
  <2>1. /\ pc' \in {"merge", "last_merge"} /\ UNCHANGED <<wsq, cache, log, overtaken>>
        /\ pc' = "last_merge" => pc = "fallback"
    BY <1>5 DEF Fetch, socket, server
  <2>2. gaps => gaps'
    BY <1>5 DEF Fetch
  <2>3. Waits' => Waits
    BY <2>1 DEF Waits
  <2> QED
    BY <1>s, <2>1, <2>2, <2>3
<1>6. ASSUME PostRun \/ TimedOut \/ Poll \/ PollFails \/ Refresh PROVE QueueInv'
  <2>1. UNCHANGED <<wsq, cache, log, gaps, overtaken>> /\ Waits
    BY <1>6 DEF PostRun, TimedOut, Poll, PollFails, Refresh, socket, server, history, Waits
  <2> QED
    BY <1>s, <2>1
<1>7. ASSUME \/ Store \/ StartRun \/ Iterate \/ EndRun \/ Make \/ Pause \/ Subscribe
             \/ PushState \/ Disconnect
      PROVE  QueueInv'
  <2>1. UNCHANGED <<pc, wsq, cache, log, gaps, overtaken>>
    BY <1>7 DEF Store, StartRun, Iterate, EndRun, Make, Pause, Subscribe, PushState,
       Disconnect, server, socket, client, history
  <2>2. Waits' => Waits
    BY <2>1 DEF Waits
  <2> QED
    BY <1>s, <2>1, <2>2
<1>8. ASSUME Emit PROVE QueueInv'
  <2>1. UNCHANGED <<pc, wsq, cache, gaps, overtaken>>
    BY <1>8 DEF Emit, client, history
  <2>2. \A x \in ToSet(wsq) : UpTo(x)' = UpTo(x)
    BY <1>8, UpToStays
  <2> QED
    BY <2>1, <2>2 DEF QueueInv, Waits, Cached
<1> QED
  BY <1>1, <1>2, <1>3, <1>4, <1>5, <1>6, <1>7, <1>8
  DEF Next, Server, Caller, Network, Others
------------------------------------------------------------------------------
(* The results                                                             *)

(* IInv is an invariant.                                                   *)
LEMMA Invariance == Spec => []IInv
<1>1. Init => IInv
  <2> SUFFICES ASSUME Init PROVE IInv
    OBVIOUS
  <2>1. CacheSorted /\ BoundsInv /\ LogInv
    BY InitTyped, TypedIs
  <2>2. /\ conn = "none" /\ chan = << >> /\ ~ready /\ pc = "sync" /\ early = 0
    BY DEF Init
  <2>3. ChannelInv /\ HandshakeInv
    BY <2>2 DEF ChannelInv, HandshakeInv, Attaching
  <2>4. QueueInv
    BY <2>2 DEF QueueInv, Waits
  <2>5. FallbackInv
    BY <2>2 DEF FallbackInv
  <2> QED
    BY <2>1, <2>3, <2>4, <2>5 DEF IInv
<1>2. IInv /\ [Next]_vars => IInv'
  <2> SUFFICES ASSUME IInv, [Next]_vars PROVE IInv'
    OBVIOUS
  <2>1. Typed /\ ChannelInv /\ HandshakeInv /\ QueueInv /\ FallbackInv
    BY TypedIs DEF IInv
  <2>2. Typed'
    BY <2>1, TypedKept
  <2>3. (CacheSorted /\ BoundsInv /\ LogInv)'
    <3>1. Typed' <=> (CacheSorted /\ BoundsInv /\ LogInv)'
      BY TypedIs, PTL
    <3> QED
      BY <2>2, <3>1
  <2>4. CASE Next
    BY <2>1, <2>3, <2>4, ChannelKept, HandshakeKept, QueueKept, FallbackKept DEF IInv
  <2>5. CASE UNCHANGED vars
    <3> USE <2>5 DEF vars, server, socket, client, locals, history
    <3>1. /\ Attaching' = Attaching /\ Missing' = Missing /\ Cached' = Cached
          /\ Waits' = Waits
      BY DEF Attaching, Missing, Cached, Waits
    <3>2. ChannelInv'
      BY <2>1, <3>1 DEF ChannelInv
    <3>3. HandshakeInv'
      <4>1. Answer(stored)' = Answer(stored) /\ Answer(fetched)' = Answer(fetched)
        BY DEF Answer
      <4> QED
        BY <2>1, <3>1, <4>1 DEF HandshakeInv
    <3>4. QueueInv'
      BY <2>1, <3>1 DEF QueueInv, UpTo
    <3>5. FallbackInv'
      BY <2>1 DEF FallbackInv
    <3> QED
      BY <2>3, <3>2, <3>3, <3>4, <3>5 DEF IInv
  <2> QED
    BY <2>4, <2>5
<1> QED
  BY <1>1, <1>2, PTL DEF Spec

(* The client's copy has no event twice, and is sorted by the timestamps,  *)
(* whichever event overtakes which on the socket and in whichever order    *)
(* the answers of the server have them, if the log that the full sync      *)
(* copied was in that order (RemoteEventsList._do_full_sync,               *)
(* _add_event_unsafe, add_event and reconcile).                            *)
THEOREM CopyInOrder == Spec => []CacheSorted
<1>1. IInv => CacheSorted
  BY DEF IInv
<1> QED
  BY <1>1, Invariance, PTL

(* While the first connection lasts, once the constructor's reconcile() is *)
(* done, every event of the conversation is in the copy or on its way, or  *)
(* was lost in a callback that raised (RemoteConversation.__init__,        *)
(* EventService.subscribe_to_events).                                      *)
THEOREM HandshakeIsComplete == Spec => []NothingMissed
<1>1. IInv => NothingMissed
  <2> SUFFICES ASSUME IInv, Attached, ~gaps
               PROVE  ToSet(log) \subseteq Cached \union ToSet(chan)
    BY DEF NothingMissed
  <2>1. Missing = {}
    BY DEF IInv, HandshakeInv, Attached, Attaching
  <2> QED
    BY <2>1 DEF Missing
<1> QED
  BY <1>1, Invariance, PTL

(* A run() that returns because the socket told it of FINISHED has every   *)
(* event up to that one, if none overtook another; one that returns by     *)
(* polling has every event before the last one that the decisive poll met  *)
(* (RemoteConversation._wait_for_run_completion).                          *)
THEOREM RunIsComplete == Spec => CompleteOnReturn
<1> DEFINE Complete ==
      /\ BySocket /\ ~gaps /\ ~overtaken => UpTo(Head(wsq)) \subseteq Cached
      /\ ByPolls /\ ~torn => {log[i] : i \in 1..(mark - 1)} \subseteq ToSet(cache')
<1>1. IInv /\ [Next]_vars => [Complete]_vars
  <2> SUFFICES ASSUME IInv, Next PROVE Complete
    OBVIOUS
  <2>t. Typed
    BY TypedIs DEF IInv
  <2>1. ASSUME BySocket, ~gaps, ~overtaken PROVE UpTo(Head(wsq)) \subseteq Cached
    <3>1. wsq # << >> /\ wsq \in Seq(TerminalEvents) /\ Waits
      BY <2>t, <2>1 DEF BySocket, Typed, SocketTyped, Waits
    <3>2. Head(wsq) \in ToSet(wsq)
      BY <3>1, Members
    <3> QED
      BY <2>1, <3>1, <3>2 DEF IInv, QueueInv
  <2>2. ASSUME ByPolls, ~torn
        PROVE  {log[i] : i \in 1..(mark - 1)} \subseteq ToSet(cache')
    <3>1. pc = "last_merge"
      <4>1. pc = "refresh" => Refresh
        BY <2>2 DEF Next, Server, Caller, Network, Others, Emit, Store, StartRun, Iterate,
           EndRun, Make, Pause, FullSync, Ready, NotReady, Fetch, Merge, Sent, PostRun,
           Notified, TimedOut, Expire, Poll, Subscribe, PushState, Receive, Disconnect,
           Reconnect, PollFails, Send, Run, client, Resting, ByPolls
      <4>2. pc = "refresh" /\ Refresh => pc' # "idle"
        BY DEF Refresh, AfterRefresh, Leave
      <4> QED
        BY <2>2, <4>1, <4>2 DEF ByPolls
    <3>2. Merge
      BY <2>2, <3>1 DEF Next, Server, Caller, Network, Others, Emit, Store, StartRun,
         Iterate, EndRun, Make, Pause, FullSync, Ready, NotReady, Fetch, Refresh, Sent,
         PostRun, Notified, TimedOut, Expire, Poll, Subscribe, PushState, Receive,
         Disconnect, Reconnect, PollFails, Send, Run, client, Resting, ByPolls
    <3>3. Cached' = Cached \union Answer(fetched)
      BY <2>t, <3>2, MergeMissing
    <3>4. fetched >= mark - 1 /\ fetched \in Nat /\ mark \in Nat
      BY <2>t, <2>2, <3>1 DEF IInv, FallbackInv, Typed, LogTyped, ServerTyped, AnswerTyped,
         MarkTyped
    <3>5. 1..(mark - 1) \subseteq 1..fetched
      BY <3>4
    <3> QED
      BY <3>3, <3>5 DEF Cached, Answer
  <2> QED
    BY <2>1, <2>2
<1> QED
  BY <1>1, Invariance, PTL DEF Spec, CompleteOnReturn
==============================================================================
