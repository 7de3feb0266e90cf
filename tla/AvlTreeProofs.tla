----------------------------- MODULE AvlTreeProofs ----------------------------
(* The tree stays sorted, balanced and complete, for any names in any order of  *)
(* insertion.  The invariant is local: to every node belong the set of nodes    *)
(* under it and a height, and these fit those of its two children.              *)
EXTENDS AvlTree, FiniteSetTheorems, SequenceTheorems, WellFoundedInduction, TLAPS

-------------------------------------------------------------------------------
(* Sides and names *)

\* y belongs on side s of x.
Beside(y, x, s) == y.key # x.key /\ SideOf(y, x) = s

LEMMA Sides ==
    ASSUME NEW s \in Side
    PROVE  /\ Mirror(s) \in Side /\ Mirror(s) # s /\ Mirror(Mirror(s)) = s
           /\ \A t \in Side : t = s \/ t = Mirror(s)
BY DEF Side, Mirror

LEMMA KeysAreNumbers == Null \notin Entry /\ \A x \in Entry : x.key \in Int
BY AvlAssumption DEF Entry

\* A node on one side of another has the other on its mirrored side, and what
\* is beyond the farther of the two is beyond the nearer.
LEMMA Besides ==
    ASSUME NEW x \in Entry, NEW y \in Entry, NEW s \in Side
    PROVE  /\ ~Beside(x, x, s)
           /\ ~(Beside(y, x, s) /\ Beside(y, x, Mirror(s)))
           /\ Beside(y, x, Mirror(s)) => Beside(x, y, s)
           /\ \A z \in Entry : Beside(y, x, s) /\ Beside(z, y, s) => Beside(z, x, s)
BY KeysAreNumbers, Sides DEF Beside, SideOf, Mirror, Side

LEMMA EverySideOfEqualNames ==
    ASSUME NEW x, NEW y, NEW z, y.key = z.key, NEW s
    PROVE  Beside(y, x, s) <=> Beside(z, x, s)
BY DEF Beside, SideOf

-------------------------------------------------------------------------------
(* The shape of a tree: n has the nodes, r is the root, ch gives the children,  *)
(* the nodes of the subtree that starts at x are Of(under, x).                  *)

Kid(ch, x, s) == ch[x][s]
Of(f, x) == f[x]

Shape(n, r, ch, under) ==
    /\ r \in n \cup {Null}
    /\ Of(under, Null) = {} /\ Of(under, r) = n
    /\ \A x \in n : Of(under, x) \subseteq n
    /\ \A x \in n : \A s \in Side : Kid(ch, x, s) \in n \cup {Null} /\ Kid(ch, x, s) # r
    /\ \A x \in n : \A y :
          y \in Of(under, x) <=> y = x \/ \E s \in Side : y \in Of(under, Kid(ch, x, s))
    /\ \A x \in n : \A s \in Side : \A y \in Of(under, Kid(ch, x, s)) : Beside(y, x, s)
    /\ \A x \in n : \A s \in Side : Kid(ch, x, s) # Null =>
          \A y \in n : \A t \in Side : Kid(ch, y, t) = Kid(ch, x, s) => y = x /\ t = s

\* What is known of a child.
LEMMA Children ==
    ASSUME NEW n \in SUBSET Entry, NEW r, NEW ch, NEW under, Shape(n, r, ch, under),
           NEW x \in n, NEW s \in Side
    PROVE  /\ Kid(ch, x, s) \in n \cup {Null}
           /\ Kid(ch, x, s) \notin {x, r}
           /\ x \in Of(under, x) /\ x # Null
           /\ x \notin Of(under, Kid(ch, x, s))
           /\ Of(under, Kid(ch, x, s)) \subseteq n
           /\ Of(under, Kid(ch, x, s)) \subseteq Of(under, x)
           /\ \A y \in Of(under, Kid(ch, x, s)) : Beside(y, x, s)
<1> USE DEF Shape
<1>1. /\ Kid(ch, x, s) \in n \cup {Null} /\ Kid(ch, x, s) # r
      /\ x \in Of(under, x) /\ x # Null
      /\ \A y \in Of(under, Kid(ch, x, s)) : Beside(y, x, s)
    BY KeysAreNumbers
<1>2. /\ Of(under, Kid(ch, x, s)) \subseteq n
      /\ Of(under, Kid(ch, x, s)) \subseteq Of(under, x)
    BY <1>1
<1>3. x \notin Of(under, Kid(ch, x, s))
    BY <1>1, Besides
<1>4. Kid(ch, x, s) \in n => Kid(ch, x, s) \in Of(under, Kid(ch, x, s))
    OBVIOUS
<1> QED
    BY <1>1, <1>2, <1>3, <1>4

-------------------------------------------------------------------------------
(* A rotation: x goes down to side s, its other child comes up to the place of  *)
(* x, which is the root or some child.                                          *)

Turned(n, r, ch, r2, ch2, x, s) ==
    LET o == Mirror(s)
        up == Kid(ch, x, o)
    IN  /\ r2 = IF r = x THEN up ELSE r
        /\ Kid(ch2, x, s) = Kid(ch, x, s) /\ Kid(ch2, x, o) = Kid(ch, up, s)
        /\ Kid(ch2, up, s) = x /\ Kid(ch2, up, o) = Kid(ch, up, o)
        /\ \A y \in n \ {x, up} : \A t \in Side :
              Kid(ch2, y, t) = IF Kid(ch, y, t) = x THEN up ELSE Kid(ch, y, t)

\* The nodes under each after it.
UnderTurned(n, ch, under, x, s) ==
    LET up == Kid(ch, x, Mirror(s))
    IN  [y \in n \cup {Null} |->
            IF y = up THEN Of(under, x)
            ELSE IF y = x THEN {x} \cup Of(under, Kid(ch, x, s)) \cup Of(under, Kid(ch, up, s))
            ELSE Of(under, y)]

LEMMA TurnKeepsShape ==
    ASSUME NEW n \in SUBSET Entry, NEW r, NEW ch, NEW under, Shape(n, r, ch, under),
           NEW x \in n, NEW s \in Side, Kid(ch, x, Mirror(s)) # Null,
           NEW r2, NEW ch2, Turned(n, r, ch, r2, ch2, x, s)
    PROVE  Shape(n, r2, ch2, UnderTurned(n, ch, under, x, s))
<1> DEFINE o == Mirror(s)
           up == Kid(ch, x, o)
           new == UnderTurned(n, ch, under, x, s)
<1>1. /\ o \in Side /\ o # s /\ \A t \in Side : t = s \/ t = o
    BY Sides
<1>2. /\ up \in n /\ up \notin {x, r, Null}
      /\ x \in Of(under, x) /\ x # Null
      /\ x \notin Of(under, up)
      /\ up \in Of(under, up)
      /\ \A y \in Of(under, up) : Beside(y, x, o)
    BY <1>1, Children
<1>3. /\ Of(new, up) = Of(under, x)
      /\ Of(new, x) = {x} \cup Of(under, Kid(ch, x, s)) \cup Of(under, Kid(ch, up, s))
      /\ \A y \in (n \cup {Null}) \ {x, up} : Of(new, y) = Of(under, y)
    BY <1>2 DEF UnderTurned, Of
<1>4. /\ r2 = IF r = x THEN up ELSE r
      /\ Kid(ch2, x, s) = Kid(ch, x, s) /\ Kid(ch2, x, o) = Kid(ch, up, s)
      /\ Kid(ch2, up, s) = x /\ Kid(ch2, up, o) = Kid(ch, up, o)
      /\ \A y \in n \ {x, up} : \A t \in Side :
              Kid(ch2, y, t) = IF Kid(ch, y, t) = x THEN up ELSE Kid(ch, y, t)
    BY DEF Turned
<1> HIDE DEF o, up, new
<1>5. \A y \in n : \A t \in Side :
          /\ Kid(ch, y, t) \in n \cup {Null} /\ Kid(ch, y, t) \notin {y, r}
          /\ Of(under, Kid(ch, y, t)) \subseteq n /\ y \notin Of(under, Kid(ch, y, t))
          /\ \A z \in Of(under, Kid(ch, y, t)) : Beside(z, y, t)
    BY Children
<1>u. \A y \in n : \A s1 \in Side : Kid(ch, y, s1) # Null =>
          \A z \in n : \A t \in Side : Kid(ch, z, t) = Kid(ch, y, s1) => z = y /\ t = s1
    BY DEF Shape
<1>p. Kid(ch, x, s) \notin {x, up} /\ Kid(ch, up, s) \notin {x, up} /\ Kid(ch, up, o) \notin {x, up}
    <2>1. Kid(ch, x, s) # up
        BY <1>1, <1>2, <1>u DEF up
    <2>2. Kid(ch, up, s) # up /\ Kid(ch, up, o) # up /\ Kid(ch, x, s) # x
        BY <1>1, <1>2, <1>5
    <2>3. Kid(ch, up, s) # x /\ Kid(ch, up, o) # x
        <3>1. \A t \in Side : Kid(ch, up, t) = x => x \in Of(under, up)
            BY <1>2 DEF Shape
        <3> QED
            BY <3>1, <1>1, <1>2
    <2> QED
        BY <2>1, <2>2, <2>3
<1>6. r2 \in n \cup {Null} /\ Of(new, Null) = {} /\ Of(new, r2) = n
    BY <1>2, <1>3, <1>4 DEF Shape
<1>7. \A y \in n : Of(new, y) \subseteq n
    BY <1>1, <1>2, <1>3, <1>5 DEF Shape
<1>8. \A y \in n : \A t \in Side : Kid(ch2, y, t) \in n \cup {Null} /\ Kid(ch2, y, t) # r2
    <2>1. \A y \in {x, up} : \A t \in Side :
             Kid(ch2, y, t) \in n \cup {Null} /\ Kid(ch2, y, t) # r2
        <3>1. x # r2
            BY <1>2, <1>4
        <3>2. \A t \in {s, o} : Kid(ch2, x, t) \in n \cup {Null} /\ Kid(ch2, x, t) \notin {r, up}
            BY <1>1, <1>2, <1>4, <1>5, <1>p
        <3>3. \A t \in {s, o} : Kid(ch2, up, t) \in n \cup {Null} /\ Kid(ch2, up, t) \notin {r2, up}
            BY <1>1, <1>2, <1>4, <1>5, <1>p, <3>1
        <3> QED
            BY <1>1, <1>4, <3>1, <3>2, <3>3
    <2>2. \A y \in n \ {x, up} : \A t \in Side :
             Kid(ch2, y, t) \in n \cup {Null} /\ Kid(ch2, y, t) # r2
        <3>1. \A y \in n \ {x, up} : \A t \in Side : Kid(ch, y, t) # up
            BY <1>1, <1>2, <1>u DEF up
        <3> QED
            BY <1>2, <1>4, <1>5, <3>1
    <2> QED
        BY <2>1, <2>2
<1>d. \A y \in n : \A z : z \in Of(under, y) <=>
          z = y \/ z \in Of(under, Kid(ch, y, s)) \/ z \in Of(under, Kid(ch, y, o))
    BY <1>1 DEF Shape
<1>e. \A y \in n : \A t \in Side : y \notin {x, up} /\ Kid(ch, y, t) # x =>
          Kid(ch2, y, t) = Kid(ch, y, t) /\ Of(new, Kid(ch2, y, t)) = Of(under, Kid(ch, y, t))
    <2>1. \A y \in n \ {x, up} : \A t \in Side : Kid(ch, y, t) # up
        BY <1>1, <1>2, <1>u DEF up
    <2> QED
        BY <2>1, <1>3, <1>4, <1>5
<1>f. \A y \in n : \A t \in Side : y \notin {x, up} /\ Kid(ch, y, t) = x =>
          Kid(ch2, y, t) = up /\ Of(new, Kid(ch2, y, t)) = Of(under, Kid(ch, y, t))
    BY <1>3, <1>4
<1>g. /\ Of(new, Kid(ch2, x, s)) = Of(under, Kid(ch, x, s))
      /\ Of(new, Kid(ch2, x, o)) = Of(under, Kid(ch, up, s))
      /\ Of(new, Kid(ch2, up, s)) = {x} \cup Of(under, Kid(ch, x, s)) \cup Of(under, Kid(ch, up, s))
      /\ Of(new, Kid(ch2, up, o)) = Of(under, Kid(ch, up, o))
    BY <1>1, <1>2, <1>3, <1>4, <1>5, <1>p
<1>9. \A y \in n : \A z :
          z \in Of(new, y) <=> z = y \/ \E t \in Side : z \in Of(new, Kid(ch2, y, t))
    <2>1. \A z : z \in Of(new, x) <=>
             z = x \/ z \in Of(new, Kid(ch2, x, s)) \/ z \in Of(new, Kid(ch2, x, o))
        BY <1>3, <1>g
    <2>2. \A z : z \in Of(new, up) <=>
             z = up \/ z \in Of(new, Kid(ch2, up, s)) \/ z \in Of(new, Kid(ch2, up, o))
        <3>1. Kid(ch, x, o) = up
            BY DEF up
        <3> QED
            BY <1>2, <1>3, <1>g, <1>d, <3>1
    <2>3. \A y \in n \ {x, up} : \A z : z \in Of(new, y) <=>
             z = y \/ z \in Of(new, Kid(ch2, y, s)) \/ z \in Of(new, Kid(ch2, y, o))
        BY <1>1, <1>3, <1>d, <1>e, <1>f
    <2> QED
        BY <1>1, <1>2, <2>1, <2>2, <2>3
<1>10. \A y \in n : \A t \in Side : \A z \in Of(new, Kid(ch2, y, t)) : Beside(z, y, t)
    <2>1. \A y \in n \ {x, up} : \A t \in Side : \A z \in Of(new, Kid(ch2, y, t)) : Beside(z, y, t)
        BY <1>5, <1>e, <1>f
    <2>2. \A z \in Of(new, Kid(ch2, x, s)) : Beside(z, x, s)
        BY <1>5, <1>g
    <2>3. \A z \in Of(new, Kid(ch2, x, o)) : Beside(z, x, o)
        BY <1>1, <1>2, <1>d, <1>g
    <2>4. \A z \in Of(new, Kid(ch2, up, o)) : Beside(z, up, o)
        BY <1>1, <1>2, <1>5, <1>g
    <2>5. \A z \in Of(new, Kid(ch2, up, s)) : Beside(z, up, s)
        <3>1. x \in Entry /\ up \in Entry /\ Beside(up, x, o)
            BY <1>2
        <3>2. Beside(x, up, s)
            BY <3>1, Besides DEF o
        <3>3. \A z \in Of(under, Kid(ch, x, s)) : z \in Entry /\ Beside(z, x, s)
            BY <1>5
        <3>4. \A z \in Of(under, Kid(ch, x, s)) : Beside(z, up, s)
            BY <3>1, <3>2, <3>3, Besides
        <3>5. \A z \in Of(under, Kid(ch, up, s)) : Beside(z, up, s)
            BY <1>2, <1>5
        <3> QED
            BY <1>g, <3>2, <3>4, <3>5
    <2> QED
        BY <1>1, <2>1, <2>2, <2>3, <2>4, <2>5
<1>11. \A y \in n : \A s1 \in Side : Kid(ch2, y, s1) # Null =>
          \A z \in n : \A t \in Side : Kid(ch2, z, t) = Kid(ch2, y, s1) => z = y /\ t = s1
    <2> SUFFICES ASSUME NEW y \in n, NEW s1 \in Side, NEW z \in n, NEW t \in Side,
                        Kid(ch2, y, s1) # Null, Kid(ch2, z, t) = Kid(ch2, y, s1)
                 PROVE  z = y /\ t = s1
        OBVIOUS
    <2>1. \A a \in n : \A b \in Side : Kid(ch2, a, b) = x => a = up /\ b = s
        BY <1>1, <1>2, <1>4, <1>5, <1>p
    <2>2. \A a \in n : \A b \in Side : Kid(ch2, a, b) = up => a \notin {x, up} /\ Kid(ch, a, b) = x
        <3>1. \A a \in n \ {x, up} : \A b \in Side : Kid(ch, a, b) # up
            BY <1>1, <1>2, <1>u DEF up
        <3> QED
            BY <1>1, <1>2, <1>4, <1>p, <3>1
    <2>3. \A a \in n : \A b \in Side : Kid(ch2, a, b) \notin {x, up} =>
             \/ a = x /\ b = o /\ Kid(ch2, a, b) = Kid(ch, up, s)
             \/ ~(a = x /\ b = o) /\ ~(a = up /\ b = s) /\ Kid(ch2, a, b) = Kid(ch, a, b)
        BY <1>1, <1>2, <1>4
    <2>4. CASE Kid(ch2, y, s1) = x
        BY <2>1, <2>4
    <2>5. CASE Kid(ch2, y, s1) = up
        BY <2>2, <2>5, <1>u, <1>2
    <2>6. CASE Kid(ch2, y, s1) \notin {x, up}
        BY <2>3, <2>6, <1>u, <1>2
    <2> QED
        BY <2>4, <2>5, <2>6
<1> QED
    BY <1>6, <1>7, <1>8, <1>9, <1>10, <1>11 DEF Shape, new
-------------------------------------------------------------------------------
(* Heights: each child is one lower than its parent, or two on the side that    *)
(* its skew does not name.  Where a subtree has just grown, which is side s0 of *)
(* x0, it is one higher than that.                                              *)

Drop(lean, s) == IF lean = Mirror(s) THEN 2 ELSE 1

Heights(n, ch, sk, h, x0, s0) ==
    /\ Of(h, Null) = 0
    /\ \A x \in n : Of(h, x) \in Nat /\ Of(h, x) # 0
    /\ \A x \in n : Of(sk, x) \in Side \cup {"none"}
    /\ \A x \in n : \A s \in Side :
          Of(h, Kid(ch, x, s)) = Of(h, x) - Drop(Of(sk, x), s) + IF x = x0 /\ s = s0 THEN 1 ELSE 0

LEMMA Drops ==
    ASSUME NEW s \in Side
    PROVE  /\ Drop("none", s) = 1 /\ Drop(s, s) = 1 /\ Drop(Mirror(s), s) = 2
           /\ Drop(s, Mirror(s)) = 2 /\ Drop(Mirror(s), Mirror(s)) = 1
           /\ Drop("none", Mirror(s)) = 1
           /\ s # "none"
BY DEF Drop, Mirror, Side

\* The height that rotate_right or rotate_left leaves.
LEMMA TurnEvensHeights ==
    ASSUME NEW n \in SUBSET Entry, NEW r, NEW ch, NEW under, Shape(n, r, ch, under),
           NEW x \in n, NEW o \in Side, NEW sk, NEW h, Heights(n, ch, sk, h, x, o),
           NEW up, up = Kid(ch, x, o), Of(sk, x) = o, Of(sk, up) = o,
           NEW r2, NEW ch2, Turned(n, r, ch, r2, ch2, x, Mirror(o)),
           NEW sk2, Of(sk2, x) = "none", Of(sk2, up) = "none",
           \A y \in n \ {x, up} : Of(sk2, y) = Of(sk, y)
    PROVE  \E h2 : Heights(n, ch2, sk2, h2, Null, o)
<1> DEFINE h2 == [y \in n \cup {Null} |-> IF y = x THEN Of(h, x) - 1 ELSE Of(h, y)]
           s == Mirror(o)
<1>1. s \in Side /\ s # o /\ Mirror(s) = o /\ \A t \in Side : t = s \/ t = o
    BY Sides
<1>2. x # Null /\ up \in n \cup {Null} /\ up # x
    BY Children
<1>3. /\ Of(h2, x) = Of(h, x) - 1
      /\ \A y \in (n \cup {Null}) \ {x} : Of(h2, y) = Of(h, y)
    BY <1>2 DEF Of
<1>4. Kid(ch, x, Mirror(s)) = up
    BY <1>1
<1>5. /\ Kid(ch2, x, s) = Kid(ch, x, s) /\ Kid(ch2, x, o) = Kid(ch, up, s)
      /\ Kid(ch2, up, s) = x /\ Kid(ch2, up, o) = Kid(ch, up, o)
      /\ \A y \in n \ {x, up} : \A t \in Side :
              Kid(ch2, y, t) = IF Kid(ch, y, t) = x THEN up ELSE Kid(ch, y, t)
    BY <1>1, <1>4 DEF Turned
<1> HIDE DEF h2, s
<1>6. /\ Drop("none", o) = 1 /\ Drop(o, o) = 1 /\ Drop(o, s) = 2 /\ Drop("none", s) = 1
    BY Drops DEF s
<1>7. /\ Of(h, x) \in Nat /\ Of(h, x) # 0
      /\ Of(h, up) = Of(h, x) - 1 + 1
      /\ Of(h, Kid(ch, x, s)) = Of(h, x) - 2
    BY <1>1, <1>6 DEF Heights
<1>8. up \in n
    BY <1>2, <1>7 DEF Heights
<1>9. /\ Of(h, Kid(ch, up, o)) = Of(h, up) - 1
      /\ Of(h, Kid(ch, up, s)) = Of(h, up) - 2
    BY <1>1, <1>2, <1>6, <1>8 DEF Heights
<1>10. /\ Of(h, up) = Of(h, x) /\ Of(h, x) - 2 >= 0
    <2>1. Kid(ch, x, s) \in n \cup {Null}
        BY <1>1, Children
    <2>2. Of(h, Kid(ch, x, s)) \in Nat
        BY <2>1 DEF Heights
    <2> QED
        BY <2>2, <1>7
<1>11. Of(h2, Null) = 0 /\ \A y \in n : Of(h2, y) \in Nat /\ Of(h2, y) # 0
    BY <1>2, <1>3, <1>10, <1>7 DEF Heights
<1>12. \A y \in n : Of(sk2, y) \in Side \cup {"none"}
    BY <1>8 DEF Heights
<1>p. Kid(ch, x, s) # x /\ Kid(ch, up, s) # x /\ Kid(ch, up, o) # x
    <2>1. Kid(ch, x, s) # x
        BY <1>1, Children
    <2>2. \A t \in Side : Kid(ch, up, t) # x
        <3>1. \A t \in Side : Kid(ch, up, t) = x => x \in Of(under, up)
            BY <1>8 DEF Shape
        <3> QED
            BY <3>1, Children
    <2> QED
        BY <1>1, <2>1, <2>2
<1>13. \A t \in Side : /\ Of(h2, Kid(ch2, x, t)) = Of(h2, x) - Drop(Of(sk2, x), t)
                       /\ Of(h2, Kid(ch2, up, t)) = Of(h2, up) - Drop(Of(sk2, up), t)
    <2>1. /\ Kid(ch, x, s) \in n \cup {Null}
          /\ Kid(ch, up, s) \in n \cup {Null} /\ Kid(ch, up, o) \in n \cup {Null}
        <3>1. \A y \in n : \A t \in Side : Kid(ch, y, t) \in n \cup {Null}
            BY Children
        <3> QED
            BY <3>1, <1>1, <1>8
    <2>2. /\ Of(h2, Kid(ch2, x, s)) = Of(h, x) - 2 /\ Of(h2, Kid(ch2, x, o)) = Of(h, x) - 2
          /\ Of(h2, Kid(ch2, up, s)) = Of(h, x) - 1 /\ Of(h2, Kid(ch2, up, o)) = Of(h, x) - 1
          /\ Of(h2, up) = Of(h, x)
        BY <2>1, <1>2, <1>3, <1>5, <1>7, <1>8, <1>9, <1>10, <1>p
    <2> QED
        BY <2>2, <1>1, <1>3, <1>6, <1>7
<1>14. \A y \in n \ {x, up} : \A t \in Side :
          Of(h2, Kid(ch2, y, t)) = Of(h2, y) - Drop(Of(sk2, y), t)
    <2> SUFFICES ASSUME NEW y \in n \ {x, up}, NEW t \in Side
                 PROVE  Of(h2, Kid(ch2, y, t)) = Of(h2, y) - Drop(Of(sk2, y), t)
        OBVIOUS
    <2>1. Of(h, Kid(ch, y, t)) = Of(h, y) - Drop(Of(sk, y), t) + 0
        BY DEF Heights
    <2>2. Kid(ch, y, t) \in n \cup {Null}
        BY Children
    <2>3. Of(h2, Kid(ch2, y, t)) = Of(h, Kid(ch, y, t))
        BY <2>2, <1>2, <1>3, <1>5, <1>8, <1>10
    <2>4. Of(h, y) \in Nat /\ Drop(Of(sk, y), t) \in Nat
        BY DEF Heights, Drop
    <2> QED
        BY <2>1, <2>3, <2>4, <1>3
<1>15. \A y \in n : \A t \in Side :
          Of(h2, Kid(ch2, y, t)) = Of(h2, y) - Drop(Of(sk2, y), t)
                                     + IF y = Null /\ t = o THEN 1 ELSE 0
    <2>1. \A y \in n : y # Null
        BY KeysAreNumbers
    <2>2. \A y \in n : \A t \in Side :
             /\ Of(h2, Kid(ch2, y, t)) = Of(h2, y) - Drop(Of(sk2, y), t)
             /\ Of(h2, y) \in Nat /\ Drop(Of(sk2, y), t) \in Nat
        BY <1>11, <1>13, <1>14 DEF Drop
    <2> QED
        BY <2>1, <2>2
<1> QED
    BY <1>11, <1>12, <1>15 DEF Heights
\* Two rotations: the grandchild in the middle comes up, x and its child on
\* side o become its children.
LEMMA TurnedTwice ==
    ASSUME NEW n \in SUBSET Entry, NEW r, NEW ch, NEW under, Shape(n, r, ch, under),
           NEW x \in n, NEW o \in Side, NEW s, s = Mirror(o),
           NEW high, high = Kid(ch, x, o), high # Null,
           NEW inner, inner = Kid(ch, high, s), inner # Null,
           NEW ch1, Turned(n, r, ch, r, ch1, high, o),
           NEW r2, NEW ch2, Turned(n, r, ch1, r2, ch2, x, s)
    PROVE  /\ x \notin {high, inner} /\ high # inner /\ high \in n /\ inner \in n
           /\ Kid(ch1, x, o) = inner
           /\ Kid(ch2, x, s) = Kid(ch, x, s) /\ Kid(ch2, x, o) = Kid(ch, inner, s)
           /\ Kid(ch2, high, s) = Kid(ch, inner, o) /\ Kid(ch2, high, o) = Kid(ch, high, o)
           /\ Kid(ch2, inner, s) = x /\ Kid(ch2, inner, o) = high
           /\ \A y \in n \ {x, high, inner} : \A t \in Side :
                 Kid(ch2, y, t) = IF Kid(ch, y, t) = x THEN inner ELSE Kid(ch, y, t)
<1>1. s \in Side /\ s # o /\ Mirror(s) = o /\ \A t \in Side : t = s \/ t = o
    BY Sides
<1>2. \A y \in n : \A t \in Side :
         /\ Kid(ch, y, t) \in n \cup {Null} /\ Kid(ch, y, t) # y
         /\ y \in Of(under, y) /\ y \notin Of(under, Kid(ch, y, t))
         /\ Of(under, Kid(ch, y, t)) \subseteq Of(under, y)
    BY Children
<1>3. /\ high \in n /\ inner \in n
      /\ x \notin Of(under, high) /\ x \notin Of(under, inner)
      /\ x \notin {high, inner} /\ high # inner
    BY <1>1, <1>2
<1>4. \A t \in Side : Kid(ch, high, t) # x /\ Kid(ch, inner, t) # x
    BY <1>2, <1>3
<1>5. \A y \in n : \A t \in Side : Kid(ch, y, t) = high => y = x /\ t = o
    BY DEF Shape
<1>6. /\ Kid(ch1, high, o) = Kid(ch, high, o) /\ Kid(ch1, high, s) = Kid(ch, inner, o)
      /\ Kid(ch1, inner, o) = high /\ Kid(ch1, inner, s) = Kid(ch, inner, s)
      /\ \A y \in n \ {high, inner} : \A t \in Side :
              Kid(ch1, y, t) = IF Kid(ch, y, t) = high THEN inner ELSE Kid(ch, y, t)
    BY DEF Turned
<1>7. Kid(ch1, x, o) = inner /\ Kid(ch1, x, s) = Kid(ch, x, s)
    BY <1>1, <1>3, <1>5, <1>6
<1>8. /\ Kid(ch2, x, s) = Kid(ch1, x, s) /\ Kid(ch2, x, o) = Kid(ch1, inner, s)
      /\ Kid(ch2, inner, s) = x /\ Kid(ch2, inner, o) = Kid(ch1, inner, o)
      /\ \A y \in n \ {x, inner} : \A t \in Side :
              Kid(ch2, y, t) = IF Kid(ch1, y, t) = x THEN inner ELSE Kid(ch1, y, t)
    BY <1>1, <1>7 DEF Turned
<1>9. Kid(ch2, high, s) = Kid(ch, inner, o) /\ Kid(ch2, high, o) = Kid(ch, high, o)
    BY <1>1, <1>3, <1>4, <1>6, <1>8
<1>10. \A y \in n \ {x, high, inner} : \A t \in Side :
          Kid(ch2, y, t) = IF Kid(ch, y, t) = x THEN inner ELSE Kid(ch, y, t)
    <2>1. \A y \in n \ {x, high, inner} : \A t \in Side : Kid(ch1, y, t) = Kid(ch, y, t)
        BY <1>5, <1>6
    <2> QED
        BY <2>1, <1>8
<1> QED
    BY <1>3, <1>6, <1>7, <1>8, <1>9, <1>10

\* The heights that the two rotations leave, with the skews that left_grown and
\* right_grown choose by that of the grandchild.
LEMMA DoubleTurnEvensHeights ==
    ASSUME NEW n \in SUBSET Entry, NEW r, NEW ch, NEW under, Shape(n, r, ch, under),
           NEW x \in n, NEW o \in Side, NEW sk, NEW h, Heights(n, ch, sk, h, x, o),
           NEW s, s = Mirror(o),
           NEW high, high = Kid(ch, x, o), high # Null,
           NEW inner, inner = Kid(ch, high, s), inner # Null,
           Of(sk, x) = o, Of(sk, high) = s,
           NEW ch1, Turned(n, r, ch, r, ch1, high, o),
           NEW r2, NEW ch2, Turned(n, r, ch1, r2, ch2, x, s),
           NEW sk2, Of(sk2, inner) = "none",
           Of(sk2, x) = IF Of(sk, inner) = o THEN s ELSE "none",
           Of(sk2, high) = IF Of(sk, inner) = s THEN o ELSE "none",
           \A y \in n \ {x, high, inner} : Of(sk2, y) = Of(sk, y)
    PROVE  \E h2 : Heights(n, ch2, sk2, h2, Null, o)
<1> DEFINE h2 == [y \in n \cup {Null} |-> IF y \in {x, high} THEN Of(h, x) - 1
                                          ELSE IF y = inner THEN Of(h, x) ELSE Of(h, y)]
<1>1. s \in Side /\ s # o /\ Mirror(s) = o /\ \A t \in Side : t = s \/ t = o
    BY Sides
<1>n. \A y \in n : y # Null
    BY KeysAreNumbers
<1>2. \A y \in n : \A t \in Side :
         /\ Kid(ch, y, t) \in n \cup {Null} /\ Kid(ch, y, t) # y
         /\ y \in Of(under, y) /\ y \notin Of(under, Kid(ch, y, t))
         /\ Of(under, Kid(ch, y, t)) \subseteq Of(under, y)
    BY Children
<1>3. /\ x \notin {high, inner} /\ high # inner /\ high \in n /\ inner \in n
      /\ Kid(ch2, x, s) = Kid(ch, x, s) /\ Kid(ch2, x, o) = Kid(ch, inner, s)
      /\ Kid(ch2, high, s) = Kid(ch, inner, o) /\ Kid(ch2, high, o) = Kid(ch, high, o)
      /\ Kid(ch2, inner, s) = x /\ Kid(ch2, inner, o) = high
      /\ \A y \in n \ {x, high, inner} : \A t \in Side :
              Kid(ch2, y, t) = IF Kid(ch, y, t) = x THEN inner ELSE Kid(ch, y, t)
    BY TurnedTwice
<1>4. /\ Of(h2, x) = Of(h, x) - 1 /\ Of(h2, high) = Of(h, x) - 1 /\ Of(h2, inner) = Of(h, x)
      /\ \A y \in (n \cup {Null}) \ {x, high, inner} : Of(h2, y) = Of(h, y)
    BY <1>3 DEF Of
<1> HIDE DEF h2
<1>5. /\ Drop("none", o) = 1 /\ Drop(o, o) = 1 /\ Drop(o, s) = 2 /\ Drop("none", s) = 1
      /\ Drop(s, o) = 2 /\ Drop(s, s) = 1 /\ s # "none" /\ o # "none"
    BY <1>1, Drops
<1>6. /\ Of(h, Null) = 0
      /\ \A y \in n : Of(h, y) \in Nat /\ Of(h, y) # 0
      /\ \A y \in n : Of(sk, y) \in Side \cup {"none"}
      /\ \A y \in n : \A t \in Side : ~(y = x /\ t = o) =>
            Of(h, Kid(ch, y, t)) = Of(h, y) - Drop(Of(sk, y), t)
      /\ Of(h, high) = Of(h, x)
    <2>1. \A y \in n : \A t \in Side : Of(h, Kid(ch, y, t)) =
             Of(h, y) - Drop(Of(sk, y), t) + IF y = x /\ t = o THEN 1 ELSE 0
        BY DEF Heights
    <2>2. \A y \in n : Of(h, y) \in Nat /\ Of(h, y) # 0
        BY DEF Heights
    <2>3. \A y \in n : \A t \in Side : Drop(Of(sk, y), t) \in Nat
        BY DEF Drop
    <2>4. \A y \in n : \A t \in Side : ~(y = x /\ t = o) =>
            Of(h, Kid(ch, y, t)) = Of(h, y) - Drop(Of(sk, y), t)
        BY <2>1, <2>2, <2>3
    <2>5. Of(h, high) = Of(h, x) - 1 + 1
        BY <2>1, <1>5
    <2> QED
        BY <2>2, <2>4, <2>5 DEF Heights
<1>7. /\ Of(h, Kid(ch, x, s)) = Of(h, x) - 2
      /\ Of(h, Kid(ch, high, o)) = Of(h, x) - 2
      /\ Of(h, inner) = Of(h, x) - 1
    BY <1>1, <1>3, <1>5, <1>6
<1>8. /\ Of(sk, inner) = o => /\ Of(h, Kid(ch, inner, o)) = Of(h, x) - 2
                              /\ Of(h, Kid(ch, inner, s)) = Of(h, x) - 3
      /\ Of(sk, inner) = s => /\ Of(h, Kid(ch, inner, o)) = Of(h, x) - 3
                              /\ Of(h, Kid(ch, inner, s)) = Of(h, x) - 2
      /\ Of(sk, inner) = "none" => /\ Of(h, Kid(ch, inner, o)) = Of(h, x) - 2
                                   /\ Of(h, Kid(ch, inner, s)) = Of(h, x) - 2
    BY <1>1, <1>3, <1>5, <1>6, <1>7
<1>9. \A k \in {Kid(ch, x, s), Kid(ch, inner, s), Kid(ch, inner, o), Kid(ch, high, o)} :
          k \in n \cup {Null} /\ k \notin {x, high, inner}
    <2>1. \A t \in Side : Kid(ch, high, t) # x /\ Kid(ch, inner, t) # x
        <3>1. x \notin Of(under, high) /\ x \notin Of(under, inner)
            BY <1>1, <1>2, <1>3
        <3>2. \A y \in n : \A t \in Side : Kid(ch, y, t) \in n => Kid(ch, y, t) \in Of(under, y)
            BY <1>2
        <3> QED
            BY <1>3, <3>1, <3>2
    <2>2. \A y \in n : \A t \in Side : /\ Kid(ch, y, t) = high => y = x /\ t = o
                                       /\ Kid(ch, y, t) = inner => y = high /\ t = s
        BY <1>1, <1>3 DEF Shape
    <2> QED
        BY <1>1, <1>2, <1>3, <2>1, <2>2
<1>10. /\ Of(h2, Kid(ch2, x, s)) = Of(h, Kid(ch, x, s))
       /\ Of(h2, Kid(ch2, x, o)) = Of(h, Kid(ch, inner, s))
       /\ Of(h2, Kid(ch2, high, s)) = Of(h, Kid(ch, inner, o))
       /\ Of(h2, Kid(ch2, high, o)) = Of(h, Kid(ch, high, o))
       /\ Of(h2, Kid(ch2, inner, s)) = Of(h, x) - 1 /\ Of(h2, Kid(ch2, inner, o)) = Of(h, x) - 1
    BY <1>3, <1>4, <1>9
<1>11. Of(h2, Null) = 0 /\ \A y \in n : Of(h2, y) \in Nat /\ Of(h2, y) # 0
    BY <1>n, <1>3, <1>4, <1>6, <1>7
<1>12. \A y \in n : Of(sk2, y) \in Side \cup {"none"}
    BY <1>1, <1>6
<1>13. \A y \in {x, high, inner} : \A t \in Side :
          Of(h2, Kid(ch2, y, t)) = Of(h2, y) - Drop(Of(sk2, y), t)
    <2>1. CASE Of(sk, inner) = o
        BY <2>1, <1>1, <1>3, <1>4, <1>5, <1>6, <1>7, <1>8, <1>10
    <2>2. CASE Of(sk, inner) = s
        BY <2>2, <1>1, <1>3, <1>4, <1>5, <1>6, <1>7, <1>8, <1>10
    <2>3. CASE Of(sk, inner) = "none"
        BY <2>3, <1>1, <1>3, <1>4, <1>5, <1>6, <1>7, <1>8, <1>10
    <2> QED
        BY <2>1, <2>2, <2>3, <1>1, <1>3, <1>6
<1>14. \A y \in n \ {x, high, inner} : \A t \in Side :
          Of(h2, Kid(ch2, y, t)) = Of(h2, y) - Drop(Of(sk2, y), t)
    <2>1. \A y \in n \ {x, high, inner} : \A t \in Side : Kid(ch, y, t) \notin {high, inner}
        BY <1>1, <1>3 DEF Shape
    <2>2. \A y \in n \ {x, high, inner} : \A t \in Side :
             Of(h2, Kid(ch2, y, t)) = Of(h, Kid(ch, y, t))
        BY <2>1, <1>2, <1>n, <1>3, <1>4
    <2> QED
        BY <2>2, <1>4, <1>6
<1>15. \A y \in n : \A t \in Side :
          Of(h2, Kid(ch2, y, t)) = Of(h2, y) - Drop(Of(sk2, y), t)
                                     + IF y = Null /\ t = o THEN 1 ELSE 0
    <2>1. \A y \in n : \A t \in Side :
             /\ Of(h2, Kid(ch2, y, t)) = Of(h2, y) - Drop(Of(sk2, y), t)
             /\ Of(h2, y) \in Nat /\ Drop(Of(sk2, y), t) \in Nat
        BY <1>11, <1>13, <1>14 DEF Drop
    <2> QED
        BY <2>1, <1>n
<1> QED
    BY <1>11, <1>12, <1>15 DEF Heights
-------------------------------------------------------------------------------
(* The relinking of the code is such a rotation.                                *)

Kids(n) == [n -> [Side -> n \cup {Null}]]

LEMMA RotatedKids ==
    ASSUME NEW n, NEW ch \in Kids(n), NEW x \in n, NEW s \in Side,
           NEW up \in n, up = Kid(ch, x, Mirror(s)), up # x,
           NEW new, new = Rotated(ch, x, s)
    PROVE  /\ new \in Kids(n)
           /\ Kid(new, x, s) = Kid(ch, x, s) /\ Kid(new, x, Mirror(s)) = Kid(ch, up, s)
           /\ Kid(new, up, s) = x /\ Kid(new, up, Mirror(s)) = Kid(ch, up, Mirror(s))
           /\ \A y \in n \ {x, up} : \A t \in Side : Kid(new, y, t) = Kid(ch, y, t)
<1> DEFINE o == Mirror(s)
<1>1. o \in Side /\ o # s /\ \A t \in Side : t = s \/ t = o
    BY Sides
<1>2. new = [ch EXCEPT ![x][o] = ch[up][s], ![up][s] = x]
    BY DEF Rotated, Kid
<1> HIDE DEF o
<1>3. \A y \in n : ch[y] \in [Side -> n \cup {Null}]
    BY DEF Kids
<1>4. new = [y \in n |-> IF y = up THEN [ch[up] EXCEPT ![s] = x]
                         ELSE IF y = x THEN [ch[x] EXCEPT ![o] = ch[up][s]] ELSE ch[y]]
    BY <1>2 DEF Kids
<1>5. /\ new[x] = [ch[x] EXCEPT ![o] = ch[up][s]]
      /\ new[up] = [ch[up] EXCEPT ![s] = x]
      /\ \A y \in n \ {x, up} : new[y] = ch[y]
    BY <1>4
<1>6. /\ [ch[up] EXCEPT ![s] = x] \in [Side -> n \cup {Null}]
      /\ [ch[x] EXCEPT ![o] = ch[up][s]] \in [Side -> n \cup {Null}]
    BY <1>3
<1>7. new \in Kids(n)
    BY <1>3, <1>4, <1>6 DEF Kids
<1>8. /\ new[x][s] = ch[x][s] /\ new[x][o] = ch[up][s]
      /\ new[up][s] = x /\ new[up][o] = ch[up][o]
    BY <1>1, <1>3, <1>5
<1> QED
    BY <1>5, <1>7, <1>8 DEF Kid, o

\* The place of x is some child.
LEMMA TurnsBelow ==
    ASSUME NEW n \in SUBSET Entry, NEW r, NEW ch \in Kids(n), NEW under, Shape(n, r, ch, under),
           NEW x \in n, NEW s \in Side, NEW up, up = Kid(ch, x, Mirror(s)), up # Null,
           NEW g \in n, NEW t \in Side, Kid(ch, g, t) = x,
           NEW ch2, ch2 = [Rotated(ch, x, s) EXCEPT ![g][t] = up]
    PROVE  ch2 \in Kids(n) /\ Turned(n, r, ch, r, ch2, x, s)
<1> DEFINE new == Rotated(ch, x, s)
<1>1. Mirror(s) \in Side /\ Mirror(s) # s
    BY Sides
<1>2. \A y \in n : \A b \in Side : /\ Kid(ch, y, b) \in n \cup {Null} /\ Kid(ch, y, b) \notin {y, r}
                                   /\ y \notin Of(under, Kid(ch, y, b)) /\ y # Null
    BY Children
<1>3. up \in n /\ up # x /\ x # r /\ g # x
    BY <1>1, <1>2
<1>4. \A b \in Side : Kid(ch, up, b) # x
    <2>1. \A b \in Side : Kid(ch, up, b) = x => x \in Of(under, up)
        BY <1>3 DEF Shape
    <2> QED
        BY <2>1, <1>1, <1>2
<1>5. \A y \in n : \A b \in Side : Kid(ch, y, b) = x => y = g /\ b = t
    BY <1>2 DEF Shape
<1>6. /\ new \in Kids(n)
      /\ Kid(new, x, s) = Kid(ch, x, s) /\ Kid(new, x, Mirror(s)) = Kid(ch, up, s)
      /\ Kid(new, up, s) = x /\ Kid(new, up, Mirror(s)) = Kid(ch, up, Mirror(s))
      /\ \A y \in n \ {x, up} : \A b \in Side : Kid(new, y, b) = Kid(ch, y, b)
    BY <1>3, RotatedKids
<1> HIDE DEF new
<1>7. ch2 = [y \in n |-> IF y = g THEN [new[g] EXCEPT ![t] = up] ELSE new[y]]
    BY <1>6 DEF Kids, new
<1>8. new[g] \in [Side -> n \cup {Null}]
    BY <1>6 DEF Kids
<1>9. ch2 \in Kids(n)
    <2>1. [new[g] EXCEPT ![t] = up] \in [Side -> n \cup {Null}]
        BY <1>3, <1>8
    <2>2. \A y \in n : new[y] \in [Side -> n \cup {Null}]
        BY <1>6 DEF Kids
    <2> QED
        BY <2>1, <2>2, <1>7 DEF Kids
<1>10. /\ \A y \in n \ {g} : \A b \in Side : Kid(ch2, y, b) = Kid(new, y, b)
       /\ \A b \in Side : Kid(ch2, g, b) = IF b = t THEN up ELSE Kid(new, g, b)
    BY <1>7, <1>8 DEF Kid
<1>11. g \notin {x, up}
    BY <1>3, <1>4
<1>12. \A y \in n \ {x, up} : \A b \in Side :
           Kid(ch2, y, b) = IF Kid(ch, y, b) = x THEN up ELSE Kid(ch, y, b)
    <2> SUFFICES ASSUME NEW y \in n \ {x, up}, NEW b \in Side
                 PROVE  Kid(ch2, y, b) = IF Kid(ch, y, b) = x THEN up ELSE Kid(ch, y, b)
        OBVIOUS
    <2>1. Kid(new, y, b) = Kid(ch, y, b)
        BY <1>6
    <2>2. CASE y = g
        <3>1. Kid(ch2, y, b) = IF b = t THEN up ELSE Kid(new, y, b)
            BY <2>2, <1>10
        <3>2. Kid(ch, y, b) = x <=> b = t
            BY <2>2, <1>5
        <3> QED
            BY <3>1, <3>2, <2>1
    <2>3. CASE y # g
        <3>1. Kid(ch2, y, b) = Kid(new, y, b)
            BY <2>3, <1>10
        <3>2. Kid(ch, y, b) # x
            BY <2>3, <1>5
        <3> QED
            BY <3>1, <3>2, <2>1
    <2> QED
        BY <2>2, <2>3
<1>13. /\ Kid(ch2, x, s) = Kid(ch, x, s) /\ Kid(ch2, x, Mirror(s)) = Kid(ch, up, s)
       /\ Kid(ch2, up, s) = x /\ Kid(ch2, up, Mirror(s)) = Kid(ch, up, Mirror(s))
    <2>1. \A b \in Side : Kid(ch2, x, b) = Kid(new, x, b) /\ Kid(ch2, up, b) = Kid(new, up, b)
        BY <1>3, <1>10, <1>11
    <2> QED
        BY <2>1, <1>1, <1>6
<1> QED
    BY <1>3, <1>9, <1>12, <1>13 DEF Turned

\* The place of x is the root.
LEMMA TurnsAtRoot ==
    ASSUME NEW n \in SUBSET Entry, NEW ch \in Kids(n), NEW under,
           NEW x \in n, Shape(n, x, ch, under),
           NEW s \in Side, NEW up, up = Kid(ch, x, Mirror(s)), up # Null,
           NEW ch2, ch2 = Rotated(ch, x, s)
    PROVE  ch2 \in Kids(n) /\ Turned(n, x, ch, up, ch2, x, s)
<1>1. Mirror(s) \in Side
    BY Sides
<1>2. \A y \in n : \A b \in Side : Kid(ch, y, b) \in n \cup {Null} /\ Kid(ch, y, b) \notin {y, x}
    BY Children
<1>3. up \in n /\ up # x
    BY <1>1, <1>2
<1>4. /\ ch2 \in Kids(n)
      /\ Kid(ch2, x, s) = Kid(ch, x, s) /\ Kid(ch2, x, Mirror(s)) = Kid(ch, up, s)
      /\ Kid(ch2, up, s) = x /\ Kid(ch2, up, Mirror(s)) = Kid(ch, up, Mirror(s))
      /\ \A y \in n \ {x, up} : \A b \in Side : Kid(ch2, y, b) = Kid(ch, y, b)
    BY <1>3, RotatedKids
<1> QED
    BY <1>2, <1>4 DEF Turned

-------------------------------------------------------------------------------
(* The other steps of an insertion *)

\* The nodes that the search for the place of e has come by, g the last of them.
Path(n, r, ch, e, path, g) ==
    /\ path \in SUBSET n
    /\ path = {} => r = Null /\ g = Null
    /\ path # {} => r \in path /\ g \in path /\ Kid(ch, g, SideOf(e, g)) = Null
    /\ \A y \in path : Beside(e, y, SideOf(e, y))
    /\ \A y \in path : y = g \/ Kid(ch, y, SideOf(e, y)) \in path
    /\ \A y \in n : \A s \in Side : Kid(ch, y, s) \in path => y \in path /\ s = SideOf(e, y)

\* ch2 has e as a leaf on side t of g.
NewLeaf(n, ch, e, ch2, g, t) ==
    /\ \A s \in Side : Kid(ch2, e, s) = Null
    /\ \A y \in n : \A s \in Side :
          Kid(ch2, y, s) = IF y = g /\ s = t THEN e ELSE Kid(ch, y, s)

LEMMA LeafKeepsShape ==
    ASSUME NEW n \in SUBSET Entry, NEW r, NEW ch, NEW under, Shape(n, r, ch, under),
           NEW e \in Entry \ n, NEW path, NEW g, Path(n, r, ch, e, path, g),
           NEW r2, r2 = IF path = {} THEN e ELSE r,
           NEW ch2, NewLeaf(n, ch, e, ch2, g, SideOf(e, g))
    PROVE  \E u : Shape(n \cup {e}, r2, ch2, u)
<1> USE DEF Path, NewLeaf
<1> DEFINE u == [y \in n \cup {e, Null} |->
                    IF y = e THEN {e}
                    ELSE IF y \in path THEN Of(under, y) \cup {e} ELSE Of(under, y)]
           m == n \cup {e}
<1>1. e # Null /\ Null \notin n /\ e \notin n
    BY KeysAreNumbers
<1>2. /\ Of(u, e) = {e} /\ Of(u, Null) = Of(under, Null)
      /\ \A y \in n : Of(u, y) = IF y \in path THEN Of(under, y) \cup {e} ELSE Of(under, y)
    BY <1>1 DEF Of
<1> HIDE DEF u
<1>3. /\ \A y \in n : \A s \in Side : Kid(ch, y, s) \in n \cup {Null} /\ Kid(ch, y, s) # r
      /\ \A y \in n : \A z :
          z \in Of(under, y) <=> z = y \/ \E s \in Side : z \in Of(under, Kid(ch, y, s))
      /\ \A y \in n : \A s \in Side : \A z \in Of(under, Kid(ch, y, s)) : Beside(z, y, s)
      /\ \A y \in n : Of(under, y) \subseteq n
      /\ Of(under, Null) = {} /\ Of(under, r) = n /\ r \in n \cup {Null}
    BY DEF Shape
<1>4. path = {} => n = {}
    BY <1>3
<1>5. \A y \in n : \A s \in Side :
          Of(u, Kid(ch2, y, s)) = IF y \in path /\ s = SideOf(e, y) THEN Of(under, Kid(ch, y, s)) \cup {e}
                                  ELSE Of(under, Kid(ch, y, s))
    <2> SUFFICES ASSUME NEW y \in n, NEW s \in Side
                 PROVE  Of(u, Kid(ch2, y, s)) =
                            IF y \in path /\ s = SideOf(e, y) THEN Of(under, Kid(ch, y, s)) \cup {e}
                            ELSE Of(under, Kid(ch, y, s))
        OBVIOUS
    <2>1. CASE y = g /\ s = SideOf(e, g)
        BY <2>1, <1>1, <1>2, <1>3, <1>4
    <2>2. CASE ~(y = g /\ s = SideOf(e, g)) /\ y \in path /\ s = SideOf(e, y)
        BY <2>2, <1>1, <1>2, <1>3
    <2>3. CASE ~(y \in path /\ s = SideOf(e, y))
        <3>1. Kid(ch2, y, s) = Kid(ch, y, s)
            BY <2>3, <1>4
        <3>2. Kid(ch, y, s) \notin path /\ Kid(ch, y, s) \in n \cup {Null}
            BY <2>3, <1>3
        <3>3. Of(u, Kid(ch, y, s)) = Of(under, Kid(ch, y, s))
            BY <3>2, <1>2
        <3> QED
            BY <2>3, <3>1, <3>3
    <2> QED
        BY <2>1, <2>2, <2>3
<1>6. \A s \in Side : Of(u, Kid(ch2, e, s)) = {}
    BY <1>2, <1>3
<1>7. r2 \in m \cup {Null} /\ Of(u, Null) = {} /\ Of(u, r2) = m
    BY <1>1, <1>2, <1>3, <1>4
<1>8. \A y \in m : Of(u, y) \subseteq m
    BY <1>2, <1>3
<1>9. \A y \in m : \A s \in Side : Kid(ch2, y, s) \in m \cup {Null} /\ Kid(ch2, y, s) # r2
    BY <1>1, <1>3, <1>4
<1>10. \A y \in m : \A z :
          z \in Of(u, y) <=> z = y \/ \E s \in Side : z \in Of(u, Kid(ch2, y, s))
    <2>1. \A y \in path : SideOf(e, y) \in Side
        BY DEF SideOf, Side
    <2>2. \A y \in n : \A z :
          z \in Of(u, y) <=> z = y \/ \E s \in Side : z \in Of(u, Kid(ch2, y, s))
        BY <1>2, <1>3, <1>5, <2>1
    <2> QED
        BY <1>2, <1>6, <2>2
<1>11. \A y \in m : \A s \in Side : \A z \in Of(u, Kid(ch2, y, s)) : Beside(z, y, s)
    BY <1>3, <1>5, <1>6
<1>12. \A y \in m : \A s \in Side : Kid(ch2, y, s) # Null =>
          \A z \in m : \A t \in Side : Kid(ch2, z, t) = Kid(ch2, y, s) => z = y /\ t = s
    <2>1. \A y \in n : \A s \in Side : Kid(ch, y, s) # Null =>
             \A z \in n : \A t \in Side : Kid(ch, z, t) = Kid(ch, y, s) => z = y /\ t = s
        BY DEF Shape
    <2> QED
        BY <1>1, <1>3, <2>1
<1>13. Shape(m, r2, ch2, u)
    BY <1>7, <1>8, <1>9, <1>10, <1>11, <1>12 DEF Shape
<1> QED
    BY <1>13

LEMMA LeafKeepsHeights ==
    ASSUME NEW n \in SUBSET Entry, NEW ch, NEW sk, NEW h, Heights(n, ch, sk, h, Null, "left"),
           NEW e \in Entry \ n, NEW g \in n \cup {Null}, NEW t,
           \A y \in n : \A s \in Side : Kid(ch, y, s) \in n \cup {Null},
           g # Null => t \in Side /\ Kid(ch, g, t) = Null,
           NEW ch2, NewLeaf(n, ch, e, ch2, g, t),
           NEW sk2, Of(sk2, e) = "none", \A y \in n : Of(sk2, y) = Of(sk, y)
    PROVE  \E h2 : Heights(n \cup {e}, ch2, sk2, h2, g, t) /\ Of(h2, e) = 1
<1> USE DEF NewLeaf
<1> DEFINE h2 == [y \in n \cup {e, Null} |-> IF y = e THEN 1 ELSE Of(h, y)]
<1>1. e # Null /\ Null \notin n /\ e \notin n
    BY KeysAreNumbers
<1>2. Of(h2, e) = 1 /\ \A y \in n \cup {Null} : Of(h2, y) = Of(h, y)
    BY <1>1 DEF Of
<1> HIDE DEF h2
<1>3. /\ Of(h, Null) = 0
      /\ \A y \in n : Of(h, y) \in Nat /\ Of(h, y) # 0
      /\ \A y \in n : Of(sk, y) \in Side \cup {"none"}
      /\ \A y \in n : \A s \in Side : Of(h, Kid(ch, y, s)) = Of(h, y) - Drop(Of(sk, y), s)
    <2>1. \A y \in n : \A s \in Side : Of(h, Kid(ch, y, s)) =
             Of(h, y) - Drop(Of(sk, y), s) + IF y = Null /\ s = "left" THEN 1 ELSE 0
        BY DEF Heights
    <2>2. \A y \in n : Of(h, y) \in Nat /\ Of(h, y) # 0
        BY DEF Heights
    <2>3. \A y \in n : \A s \in Side : Drop(Of(sk, y), s) \in Nat
        BY DEF Drop
    <2>4. \A y \in n : \A s \in Side : Of(h, Kid(ch, y, s)) = Of(h, y) - Drop(Of(sk, y), s)
        BY <1>1, <2>1, <2>2, <2>3
    <2> QED
        BY <2>2, <2>4 DEF Heights
<1>4. \A y \in n \cup {e} : Of(h2, y) \in Nat /\ Of(h2, y) # 0
    BY <1>2, <1>3
<1>5. \A y \in n : \A s \in Side :
         Of(h2, Kid(ch2, y, s)) = Of(h2, y) - Drop(Of(sk2, y), s) + IF y = g /\ s = t THEN 1 ELSE 0
    <2>1. \A y \in n : \A s \in Side :
             Of(h2, Kid(ch2, y, s)) = Of(h, Kid(ch, y, s)) + IF y = g /\ s = t THEN 1 ELSE 0
        <3>1. \A y \in n : \A s \in Side : ~(y = g /\ s = t) =>
                 Of(h2, Kid(ch2, y, s)) = Of(h, Kid(ch, y, s))
            BY <1>1, <1>2
        <3>2. \A y \in n : \A s \in Side : y = g /\ s = t =>
                 Of(h2, Kid(ch2, y, s)) = 1 /\ Of(h, Kid(ch, y, s)) = 0
            BY <1>1, <1>2, <1>3
        <3>3. \A y \in n : \A s \in Side : Of(h, Kid(ch, y, s)) \in Nat
            BY <1>3
        <3> QED
            BY <3>1, <3>2, <3>3
    <2>2. \A y \in n : \A s \in Side : Drop(Of(sk, y), s) \in Nat
        BY DEF Drop
    <2> QED
        BY <2>1, <2>2, <1>2, <1>3
<1>6. \A s \in Side : Of(h2, Kid(ch2, e, s)) = Of(h2, e) - Drop(Of(sk2, e), s)
                                                 + IF e = g /\ s = t THEN 1 ELSE 0
    <2>1. \A s \in Side : Drop("none", s) = 1
        BY Drops
    <2> QED
        BY <2>1, <1>1, <1>2, <1>3
<1> QED
    BY <1>2, <1>3, <1>4, <1>5, <1>6 DEF Heights

\* left_grown and right_grown of a node whose other side was the higher.
LEMMA EvenHeights ==
    ASSUME NEW n \in SUBSET Entry, NEW ch, NEW x \in n, NEW o \in Side, NEW sk, NEW h,
           Heights(n, ch, sk, h, x, o), Of(sk, x) = Mirror(o),
           NEW sk2, Of(sk2, x) = "none", \A y \in n \ {x} : Of(sk2, y) = Of(sk, y)
    PROVE  Heights(n, ch, sk2, h, Null, "left")
<1>1. \A y \in n : y # Null
    BY KeysAreNumbers
<1>2. \A y \in n : \A s \in Side : Drop(Of(sk, y), s) \in Nat /\ Of(h, y) \in Nat
    BY DEF Drop, Heights
<1>3. \A y \in n : \A s \in Side : Of(h, Kid(ch, y, s)) =
         Of(h, y) - Drop(Of(sk, y), s) + IF y = x /\ s = o THEN 1 ELSE 0
    BY DEF Heights
<1>4. \A s \in Side : Of(h, Kid(ch, x, s)) = Of(h, x) - Drop(Of(sk2, x), s)
    <2>1. \A s \in Side : s = o \/ s = Mirror(o)
        BY Sides
    <2>2. /\ Drop(Mirror(o), o) = 2 /\ Drop(Mirror(o), Mirror(o)) = 1 /\ Drop("none", o) = 1
          /\ Drop("none", Mirror(o)) = 1 /\ Mirror(o) \in Side /\ Mirror(o) # o
        BY Drops, Sides
    <2> QED
        BY <2>1, <2>2, <1>2, <1>3
<1>5. \A y \in n \ {x} : \A s \in Side : Of(h, Kid(ch, y, s)) = Of(h, y) - Drop(Of(sk2, y), s)
    BY <1>2, <1>3
<1>6. \A y \in n : \A s \in Side : Of(h, Kid(ch, y, s)) =
         Of(h, y) - Drop(Of(sk2, y), s) + IF y = Null /\ s = "left" THEN 1 ELSE 0
    <2>1. \A y \in n : \A s \in Side : Drop(Of(sk2, y), s) \in Nat
        BY DEF Drop
    <2> QED
        BY <2>1, <1>1, <1>2, <1>4, <1>5
<1> QED
    BY <1>6 DEF Heights

\* The same of a node that was even: it has grown itself, at the place g, t.
LEMMA LeanHeights ==
    ASSUME NEW n \in SUBSET Entry, NEW r, NEW ch, NEW under, Shape(n, r, ch, under),
           NEW x \in n, NEW o \in Side, NEW sk, NEW h,
           Heights(n, ch, sk, h, x, o), Of(sk, x) = "none",
           NEW g, NEW t, g = Null \/ (g \in n /\ t \in Side), IF g = Null THEN r = x ELSE Kid(ch, g, t) = x,
           NEW sk2, Of(sk2, x) = o, \A y \in n \ {x} : Of(sk2, y) = Of(sk, y)
    PROVE  \E h2 : Heights(n, ch, sk2, h2, g, t)
<1> DEFINE h2 == [y \in n \cup {Null} |-> IF y = x THEN Of(h, x) + 1 ELSE Of(h, y)]
<1>1. \A y \in n : y # Null
    BY KeysAreNumbers
<1>2. Of(h2, x) = Of(h, x) + 1 /\ \A y \in (n \cup {Null}) \ {x} : Of(h2, y) = Of(h, y)
    BY DEF Of
<1> HIDE DEF h2
<1>3. \A y \in n : \A s \in Side :
         /\ Drop(Of(sk, y), s) \in Nat /\ Drop(Of(sk2, y), s) \in Nat
         /\ Of(h, y) \in Nat /\ Of(h, y) # 0
    BY DEF Drop, Heights
<1>4. \A y \in n : \A s \in Side : Of(h, Kid(ch, y, s)) =
         Of(h, y) - Drop(Of(sk, y), s) + IF y = x /\ s = o THEN 1 ELSE 0
    BY DEF Heights
<1>5. \A y \in n : \A s \in Side : Kid(ch, y, s) \in n \cup {Null} /\ Kid(ch, y, s) \notin {y, r}
    BY Children
<1>6. \A y \in n : \A s \in Side : Kid(ch, y, s) = x <=> y = g /\ s = t
    BY <1>1, <1>5 DEF Shape
<1>7. \A s \in Side : /\ Kid(ch, x, s) # x
                      /\ Of(h2, Kid(ch, x, s)) = Of(h2, x) - Drop(Of(sk2, x), s)
    <2>1. \A s \in Side : s = o \/ s = Mirror(o)
        BY Sides
    <2>2. /\ Drop("none", o) = 1 /\ Drop("none", Mirror(o)) = 1 /\ Drop(o, o) = 1
          /\ Drop(o, Mirror(o)) = 2 /\ Mirror(o) \in Side /\ Mirror(o) # o
        BY Drops, Sides
    <2>3. \A s \in Side : Kid(ch, x, s) # x /\ Of(h2, Kid(ch, x, s)) = Of(h, Kid(ch, x, s))
        BY <1>2, <1>5
    <2> QED
        BY <2>1, <2>2, <2>3, <1>2, <1>3, <1>4
<1>8. \A y \in n \ {x} : \A s \in Side : Of(h2, Kid(ch, y, s)) =
         Of(h2, y) - Drop(Of(sk2, y), s) + IF y = g /\ s = t THEN 1 ELSE 0
    <2>1. \A y \in n \ {x} : \A s \in Side : Of(h, Kid(ch, y, s)) = Of(h, y) - Drop(Of(sk, y), s)
        BY <1>3, <1>4
    <2>2. \A y \in n \ {x} : \A s \in Side : Of(h2, Kid(ch, y, s)) =
             IF y = g /\ s = t THEN Of(h, Kid(ch, y, s)) + 1 ELSE Of(h, Kid(ch, y, s))
        BY <1>2, <1>5, <1>6
    <2> QED
        BY <2>1, <2>2, <1>2, <1>3
<1>9. \A y \in n : \A s \in Side : Of(h2, Kid(ch, y, s)) =
         Of(h2, y) - Drop(Of(sk2, y), s) + IF y = g /\ s = t THEN 1 ELSE 0
    <2>1. \A s \in Side : ~(x = g /\ s = t)
        BY <1>6, <1>7
    <2>2. Of(h2, x) \in Nat
        BY <1>2, <1>3
    <2> QED
        BY <2>1, <2>2, <1>3, <1>7, <1>8
<1>10. \A y \in n : Of(sk2, y) \in Side \cup {"none"}
    BY DEF Heights
<1>11. Of(h2, Null) = 0 /\ \A y \in n : Of(h2, y) \in Nat /\ Of(h2, y) # 0
    BY <1>1, <1>2, <1>3 DEF Heights
<1> QED
    BY <1>9, <1>10, <1>11 DEF Heights
-------------------------------------------------------------------------------
(* The inductive invariant *)

\* The calls that wait lie on a path down from the root, on the sides where the
\* entry belongs.
CallsInv ==
    /\ pc = "idle" => calls = << >>
    /\ pc # "idle" => entry \in Entry
    /\ \A i \in 1..Len(calls) :
          /\ Beside(entry, calls[i].node, calls[i].side)
          /\ calls[i].node = IF i = 1 THEN root
                             ELSE Kid(child, calls[i - 1].node, calls[i - 1].side)

\* Every entry that was offered is stored, or is the one on its way.
FirstInv ==
    first = IF pc = "descend" /\ \A y \in Stored : y.key # entry.key
            THEN Stored \cup {entry} ELSE Stored

BeforeInv ==
    /\ pc = "descend" => before = Tree
    /\ pc = "grown" => \A y \in DOMAIN before.child : y.key # entry.key

\* Where the heights do not fit the skews yet.
Climbing == pc = "grown" /\ calls # << >>
PlaceNode == IF Climbing THEN Parent ELSE Null
PlaceSide == IF Climbing THEN Grown ELSE "left"

\* An entry with the same name can only be where the search is going; a subtree
\* that has grown is new or leans.
Sound(under, h) ==
    /\ Shape(Stored, root, child, under)
    /\ Heights(Stored, child, skew, h, PlaceNode, PlaceSide)
    /\ pc = "descend" => \A y \in Stored : y.key = entry.key => y \in Of(under, Slot(calls))
    /\ pc = "grown" => /\ entry \in Stored /\ Slot(calls) # Null
                       /\ Of(skew, Slot(calls)) # "none" \/ Of(h, Slot(calls)) = 1

IInv == TypeOK /\ CallsInv /\ FirstInv /\ BeforeInv /\ \E under, h : Sound(under, h)

-------------------------------------------------------------------------------
(* The calls that wait *)

Call == [node : Stored, side : Side]

LEMMA FrontFacts ==
    ASSUME NEW S, NEW q \in Seq(S), q # << >>
    PROVE  /\ Len(q) \in Nat \ {0} /\ q[Len(q)] \in S
           /\ Front(q) \in Seq(S) /\ Len(Front(q)) = Len(q) - 1
           /\ \A i \in 1..(Len(q) - 1) : Front(q)[i] = q[i] /\ Front(q)[i] \in S
           /\ Front(q) = << >> <=> Len(q) = 1
<1>1. Len(q) \in Nat \ {0}
    BY EmptySeq, LenProperties
<1>4. \A i \in 1..Len(q) : q[i] \in S
    BY ElementOfSeq
<1>2. 1 \in Int /\ Len(q) - 1 \in Int /\ \A i \in 1..(Len(q) - 1) : q[i] \in S
    BY <1>1, <1>4
<1>3. /\ Front(q) \in Seq(S) /\ Len(Front(q)) = Len(q) - 1
      /\ \A i \in 1..(Len(q) - 1) : Front(q)[i] = q[i]
    <2> DEFINE m == Len(q) - 1
               f == SubSeq(q, 1, m)
    <2> HIDE DEF m, f
    <2>1. m \in Int /\ 1 \in Int /\ \A i \in 1..m : q[i] \in S
        BY <1>2 DEF m
    <2>2. \A a, b \in Int : (\A i \in a..b : q[i] \in S) =>
             /\ SubSeq(q, a, b) \in Seq(S)
             /\ Len(SubSeq(q, a, b)) = IF a <= b THEN b - a + 1 ELSE 0
             /\ \A i \in 1..(b - a + 1) : SubSeq(q, a, b)[i] = q[a + i - 1]
        BY SubSeqProperties
    <2>3. /\ f \in Seq(S) /\ Len(f) = IF 1 <= m THEN m - 1 + 1 ELSE 0
          /\ \A i \in 1..(m - 1 + 1) : f[i] = q[1 + i - 1]
        BY <2>1, <2>2 DEF f
    <2>4. m \in Nat /\ Front(q) = f
        BY <1>1 DEF m, f, Front
    <2>5. Len(f) = m /\ \A i \in 1..m : f[i] = q[i]
        BY <2>3, <2>4
    <2> QED
        BY <2>3, <2>4, <2>5 DEF m
<1>5. Front(q) = << >> <=> Len(Front(q)) = 0
    BY <1>3, EmptySeq
<1> QED
    BY <1>1, <1>2, <1>3, <1>4, <1>5

LEMMA CallFacts ==
    ASSUME TypeOK, CallsInv, calls # << >>
    PROVE  /\ Parent \in Stored /\ Grown \in Side
           /\ Slot(calls) = Kid(child, Parent, Grown)
           /\ Beside(entry, Parent, Grown)
           /\ Front(calls) \in Seq(Call)
           /\ Front(calls) = << >> => Parent = root
           /\ Front(calls) # << >> =>
                 /\ Last(Front(calls)).node \in Stored /\ Last(Front(calls)).side \in Side
                 /\ Kid(child, Last(Front(calls)).node, Last(Front(calls)).side) = Parent
           /\ Slot(Front(calls)) = Parent
<1> DEFINE k == Len(calls)
           front == Front(calls)
<1>1. calls \in Seq(Call)
    BY DEF TypeOK, Call
<1>2. k \in Nat \ {0} /\ k \in 1..Len(calls)
    BY <1>1, FrontFacts
<1>3. calls[k] \in Call
    BY <1>1, FrontFacts
<1>4. /\ front \in Seq(Call) /\ Len(front) = k - 1
      /\ \A i \in 1..(k - 1) : front[i] = calls[i] /\ front[i] \in Call
      /\ front = << >> <=> k = 1
    BY <1>1, FrontFacts
<1>5. Parent = calls[k].node /\ Grown = calls[k].side
    BY DEF Parent, Grown, Last
<1>6. /\ Beside(entry, calls[k].node, calls[k].side)
      /\ calls[k].node = IF k = 1 THEN root ELSE Kid(child, calls[k - 1].node, calls[k - 1].side)
    BY <1>2 DEF CallsInv
<1>7. calls[k].node \in Stored /\ calls[k].side \in Side
    BY <1>3 DEF Call
<1>8. Slot(calls) = Kid(child, Parent, Grown)
    BY DEF Slot, Parent, Grown, Kid
<1>10. front # << >> =>
          /\ Last(front).node \in Stored /\ Last(front).side \in Side
          /\ Kid(child, Last(front).node, Last(front).side) = Parent
    <2> SUFFICES ASSUME front # << >>
                 PROVE  /\ Last(front).node \in Stored /\ Last(front).side \in Side
                        /\ Kid(child, Last(front).node, Last(front).side) = Parent
        OBVIOUS
    <2>1. k # 1 /\ k - 1 \in 1..(k - 1)
        BY <1>2, <1>4
    <2>2. Last(front) = calls[k - 1] /\ Last(front) \in Call
        BY <2>1, <1>4 DEF Last
    <2>3. Last(front).node \in Stored /\ Last(front).side \in Side
        BY <2>2 DEF Call
    <2>4. Kid(child, Last(front).node, Last(front).side) = Parent
        BY <2>1, <2>2, <1>5, <1>6
    <2> QED
        BY <2>3, <2>4
<1>11. front = << >> => Parent = root
    BY <1>5, <1>6, <1>4
<1>12. Slot(front) = Parent
    BY <1>10, <1>11 DEF Slot, Kid
<1> QED
    BY <1>4, <1>5, <1>6, <1>7, <1>8, <1>10, <1>11, <1>12

LEMMA FrontKeepsCallsInv ==
    ASSUME TypeOK, CallsInv, calls # << >>, calls' = Front(calls),
           UNCHANGED <<root, child, entry, pc>>
    PROVE  CallsInv'
<1>1. calls \in Seq(Call)
    BY DEF TypeOK, Call
<1>2. Len(calls) \in Nat \ {0}
    BY <1>1, FrontFacts
<1>3. /\ Len(calls') = Len(calls) - 1
      /\ \A i \in 1..Len(calls') : calls'[i] = calls[i]
    BY <1>1, FrontFacts
<1>4. \A i \in 1..Len(calls') : i \in 1..Len(calls) /\ i - 1 \in {0} \cup 1..Len(calls')
    BY <1>2, <1>3
<1>5. ASSUME NEW i \in 1..Len(calls')
      PROVE  /\ Beside(entry', calls'[i].node, calls'[i].side)
             /\ calls'[i].node = IF i = 1 THEN root'
                                 ELSE Kid(child', calls'[i - 1].node, calls'[i - 1].side)
    <2>1. /\ Beside(entry, calls[i].node, calls[i].side)
          /\ calls[i].node = IF i = 1 THEN root
                             ELSE Kid(child, calls[i - 1].node, calls[i - 1].side)
        BY <1>4 DEF CallsInv
    <2>2. i # 1 => calls'[i - 1] = calls[i - 1]
        BY <1>2, <1>3, <1>4
    <2> QED
        BY <2>1, <2>2, <1>3
<1> QED
    BY <1>5 DEF CallsInv

\* The relinked pointer is the place where the node was.
LEMMA LinkTurns ==
    ASSUME TypeOK, CallsInv, calls # << >>,
           NEW ch \in Kids(Stored), NEW under, Shape(Stored, root, ch, under),
           NEW s \in Side, NEW up, up = Kid(ch, Parent, Mirror(s)), up # Null,
           Front(calls) # << >> =>
               Kid(ch, Last(Front(calls)).node, Last(Front(calls)).side) = Parent,
           Link(Front(calls), Rotated(ch, Parent, s), up)
    PROVE  child' \in Kids(Stored) /\ Turned(Stored, root, ch, root', child', Parent, s)
<1>1. /\ Parent \in Stored
      /\ Front(calls) = << >> => Parent = root
      /\ Front(calls) # << >> =>
            Last(Front(calls)).node \in Stored /\ Last(Front(calls)).side \in Side
    BY CallFacts
<1>2. Stored \in SUBSET Entry
    BY DEF TypeOK
<1>3. CASE Front(calls) = << >>
    <2>1. root' = up /\ child' = Rotated(ch, Parent, s) /\ Shape(Stored, Parent, ch, under)
        BY <1>1, <1>3 DEF Link
    <2> HIDE DEF Stored, Parent
    <2> QED
        BY <2>1, <1>1, <1>2, <1>3, TurnsAtRoot
<1>4. CASE Front(calls) # << >>
    <2> DEFINE g == Last(Front(calls)).node
               t == Last(Front(calls)).side
    <2>1. root' = root /\ child' = [Rotated(ch, Parent, s) EXCEPT ![g][t] = up]
        BY <1>4 DEF Link
    <2>2. g \in Stored /\ t \in Side /\ Kid(ch, g, t) = Parent
        BY <1>1, <1>4
    <2> HIDE DEF g, t
    <2> QED
        BY <2>1, <2>2, <1>1, <1>2, TurnsBelow
<1> QED
    BY <1>3, <1>4
-------------------------------------------------------------------------------
(* Every action keeps the invariant.                                            *)

LEMMA NoPlace ==
    ASSUME NEW n \in SUBSET Entry, NEW ch, NEW sk, NEW h, NEW s, NEW t, Heights(n, ch, sk, h, Null, s)
    PROVE  Heights(n, ch, sk, h, Null, t)
<1>1. \A x \in n : x # Null
    BY KeysAreNumbers
<1> QED
    BY <1>1 DEF Heights

LEMMA TypedKids ==
    ASSUME TypeOK
    PROVE  /\ Stored \in SUBSET Entry /\ child \in Kids(Stored)
           /\ calls \in Seq(Call) /\ Null \notin Stored
BY KeysAreNumbers DEF TypeOK, Kids, Call

\* At an idle tree the heights fit everywhere.
LEMMA InsertKeepsIInv ==
    ASSUME IInv, NEW new \in Entry, Insert(new)
    PROVE  IInv'
<1> USE DEF Insert
<1>1. calls = << >> /\ calls' = calls /\ Stored' = Stored
    BY DEF IInv, CallsInv, Stored
<1>2. TypeOK'
    BY <1>1 DEF IInv, TypeOK, Entry
<1>3. CallsInv'
    BY <1>1 DEF CallsInv
<1>4. FirstInv'
    BY <1>1 DEF IInv, FirstInv
<1>5. BeforeInv'
    BY DEF BeforeInv, Tree
<1>6. ASSUME NEW under, NEW h, Sound(under, h)
      PROVE  Sound(under, h)'
    <2>1. PlaceNode = Null /\ PlaceSide = "left" /\ PlaceNode' = Null /\ PlaceSide' = "left"
        BY DEF PlaceNode, PlaceSide, Climbing
    <2>2. Shape(Stored, root, child, under) /\ Heights(Stored, child, skew, h, Null, "left")
        BY <1>6, <2>1 DEF Sound
    <2>3. Slot(calls)' = root /\ Of(under, root) = Stored
        BY <1>1, <2>2 DEF Slot, Shape
    <2> QED
        BY <1>1, <2>1, <2>2, <2>3 DEF Sound
<1> QED
    BY <1>2, <1>3, <1>4, <1>5, <1>6 DEF IInv

LEMMA DescendKeepsIInv ==
    ASSUME IInv, Descend
    PROVE  IInv'
<1> DEFINE x == Slot(calls)
           t == SideOf(entry, x)
           c == [node |-> x, side |-> t]
<1>1. /\ pc = "descend" /\ x # Null /\ entry.key # x.key /\ calls' = Append(calls, c)
      /\ UNCHANGED <<root, child, skew, entry, pc, stored, first, before>>
      /\ Stored' = Stored
    BY DEF Descend, Stored
<1>2. TypeOK /\ CallsInv /\ Stored \in SUBSET Entry /\ calls \in Seq(Call) /\ child \in Kids(Stored)
    BY TypedKids DEF IInv
<1>3. x \in Stored
    <2>1. CASE calls = << >>
        BY <2>1, <1>1, <1>2 DEF Slot, TypeOK
    <2>2. CASE calls # << >>
        <3>1. x = child[Parent][Grown] /\ Parent \in Stored /\ Grown \in Side
            BY <2>2, <1>2, CallFacts DEF Kid
        <3> QED
            BY <3>1, <1>1, <1>2 DEF Kids
    <2> QED
        BY <2>1, <2>2
<1>4. t \in Side /\ Beside(entry, x, t)
    BY <1>1 DEF Beside, SideOf, Side
<1> HIDE DEF x, t
<1>5. c \in Call
    BY <1>3, <1>4 DEF Call
<1>6. /\ calls' \in Seq(Call) /\ calls' # << >> /\ Len(calls') = Len(calls) + 1 /\ Len(calls) \in Nat
      /\ calls'[Len(calls) + 1] = c
      /\ \A i \in 1..Len(calls) : calls'[i] = calls[i]
    BY <1>1, <1>2, <1>5, AppendProperties
<1>7. TypeOK'
    BY <1>1, <1>2, <1>6 DEF TypeOK, Call
<1>8. CallsInv'
    <2> SUFFICES ASSUME NEW i \in 1..Len(calls')
                 PROVE  /\ Beside(entry, calls'[i].node, calls'[i].side)
                        /\ calls'[i].node = IF i = 1 THEN root
                                            ELSE Kid(child, calls'[i - 1].node, calls'[i - 1].side)
        BY <1>1, <1>2 DEF CallsInv
    <2>1. CASE i \in 1..Len(calls)
        <3>1. i = 1 \/ calls'[i - 1] = calls[i - 1]
            BY <2>1, <1>6
        <3>2. /\ Beside(entry, calls[i].node, calls[i].side)
              /\ calls[i].node = IF i = 1 THEN root
                                 ELSE Kid(child, calls[i - 1].node, calls[i - 1].side)
            BY <2>1, <1>2 DEF CallsInv
        <3> QED
            BY <2>1, <3>1, <3>2, <1>6
    <2>2. CASE i = Len(calls) + 1
        <3>1. calls'[i] = c /\ c.node = x /\ c.side = t
            BY <2>2, <1>6
        <3>2. CASE calls = << >>
            <4>1. i = 1 /\ x = root
                BY <3>2, <2>2 DEF x, Slot
            <4> QED
                BY <3>1, <4>1, <1>4
        <3>3. CASE calls # << >>
            <4>1. Len(calls) # 0
                BY <3>3, <1>2, EmptySeq
            <4>2. i # 1 /\ i - 1 = Len(calls) /\ calls'[i - 1] = calls[Len(calls)]
                BY <4>1, <2>2, <1>6
            <4>3. x = Kid(child, calls[Len(calls)].node, calls[Len(calls)].side)
                BY <3>3 DEF x, Slot, Last, Kid
            <4> QED
                BY <3>1, <4>2, <4>3, <1>4
        <3> QED
            BY <3>2, <3>3
    <2> QED
        BY <2>1, <2>2, <1>6
<1>9. FirstInv' /\ BeforeInv'
    BY <1>1 DEF IInv, FirstInv, BeforeInv, Tree
<1>10. ASSUME NEW under, NEW h, Sound(under, h)
       PROVE  Sound(under, h)'
    <2>1. PlaceNode = Null /\ PlaceSide = "left" /\ PlaceNode' = Null /\ PlaceSide' = "left"
        BY <1>1 DEF PlaceNode, PlaceSide, Climbing
    <2>2. Shape(Stored, root, child, under) /\ Heights(Stored, child, skew, h, Null, "left")
        BY <1>10, <2>1 DEF Sound
    <2>3. \A y \in Stored : y.key = entry.key => y \in Of(under, x)
        BY <1>1, <1>10 DEF Sound, x
    <2>4. Slot(calls)' = Kid(child, x, t)
        <3>1. Last(calls)' = c
            BY <1>6 DEF Last
        <3> QED
            BY <3>1, <1>1, <1>6 DEF Slot, Kid
    <2>5. ASSUME NEW y \in Stored, y.key = entry.key
          PROVE  y \in Of(under, Kid(child, x, t))
        <3>1. PICK s \in Side : y \in Of(under, Kid(child, x, s))
            BY <2>2, <2>3, <2>5, <1>1, <1>3 DEF Shape
        <3>2. Beside(y, x, s)
            BY <3>1, <2>2, <1>3 DEF Shape
        <3>3. s = t
            BY <3>2, <2>5, <1>4 DEF Beside, SideOf
        <3> QED
            BY <3>1, <3>3
    <2> QED
        BY <1>1, <2>1, <2>2, <2>4, <2>5 DEF Sound
<1> QED
    BY <1>7, <1>8, <1>9, <1>10 DEF IInv

\* The insertion returns, and nothing but the skews has changed.
LEMMA ReturnKeepsIInv ==
    ASSUME IInv, Return(stored'), stored' \in BOOLEAN, pc # "idle",
           pc = "descend" => \E y \in Stored : y.key = entry.key,
           UNCHANGED <<root, child>>, skew' \in [Stored -> {"none", "left", "right"}],
           \A under, h : Sound(under, h) =>
               Heights(Stored, child, skew', h, Null, "left")
    PROVE  IInv'
<1>1. /\ calls' = << >> /\ entry' = Null /\ pc' = "idle" /\ UNCHANGED first /\ Stored' = Stored
    BY DEF Return, Stored
<1>2. TypeOK'
    BY <1>1 DEF IInv, TypeOK
<1>3. CallsInv'
    BY <1>1 DEF CallsInv
<1>4. FirstInv' /\ BeforeInv'
    BY <1>1 DEF IInv, FirstInv, BeforeInv
<1>5. ASSUME NEW under, NEW h, Sound(under, h)
      PROVE  Sound(under, h)'
    <2>1. PlaceNode' = Null /\ PlaceSide' = "left"
        BY <1>1 DEF PlaceNode, PlaceSide, Climbing
    <2>2. Shape(Stored, root, child, under) /\ Heights(Stored, child, skew', h, Null, "left")
        BY <1>5 DEF Sound
    <2> QED
        BY <1>1, <2>1, <2>2 DEF Sound
<1> QED
    BY <1>2, <1>3, <1>4, <1>5 DEF IInv

LEMMA DuplicateKeepsIInv ==
    ASSUME IInv, Duplicate
    PROVE  IInv'
<1>1. /\ pc = "descend" /\ Slot(calls) # Null /\ entry.key = Slot(calls).key
      /\ Return(FALSE) /\ stored' = FALSE /\ UNCHANGED <<root, child, skew>>
    BY DEF Duplicate, Return
<1>2. Slot(calls) \in Stored
    <2>1. CASE calls = << >>
        BY <2>1, <1>1 DEF Slot, IInv, TypeOK
    <2>2. CASE calls # << >>
        <3>1. Slot(calls) = child[Parent][Grown] /\ Parent \in Stored /\ Grown \in Side
            BY <2>2, CallFacts DEF Kid, IInv
        <3> QED
            BY <3>1, <1>1 DEF IInv, TypeOK
    <2> QED
        BY <2>1, <2>2
<1>3. \A under, h : Sound(under, h) => Heights(Stored, child, skew', h, Null, "left")
    BY <1>1 DEF Sound, PlaceNode, PlaceSide, Climbing
<1>4. skew' \in [Stored -> {"none", "left", "right"}]
    BY <1>1 DEF IInv, TypeOK
<1> QED
    BY <1>1, <1>2, <1>3, <1>4, ReturnKeepsIInv

LEMMA ReturnStoredKeepsIInv ==
    ASSUME IInv, ReturnStored
    PROVE  IInv'
<1>1. /\ pc = "grown" /\ calls = << >> /\ Return(TRUE) /\ stored' = TRUE
      /\ UNCHANGED <<root, child, skew>>
    BY DEF ReturnStored, Return
<1>2. \A under, h : Sound(under, h) => Heights(Stored, child, skew', h, Null, "left")
    BY <1>1 DEF Sound, PlaceNode, PlaceSide, Climbing
<1>3. skew' \in [Stored -> {"none", "left", "right"}]
    BY <1>1 DEF IInv, TypeOK
<1> QED
    BY <1>1, <1>2, <1>3, ReturnKeepsIInv

LEMMA EvenOutKeepsIInv ==
    ASSUME IInv, EvenOut
    PROVE  IInv'
<1>1. /\ pc = "grown" /\ calls # << >> /\ skew[Parent] = Mirror(Grown)
      /\ skew' = [skew EXCEPT ![Parent] = "none"] /\ Return(TRUE) /\ stored' = TRUE
      /\ UNCHANGED <<root, child>>
    BY DEF EvenOut, Return
<1>2. Parent \in Stored /\ Grown \in Side /\ Stored \in SUBSET Entry
    BY <1>1, CallFacts, TypedKids DEF IInv
<1>3. skew \in [Stored -> {"none", "left", "right"}]
    BY DEF IInv, TypeOK
<1>4. skew' \in [Stored -> {"none", "left", "right"}]
    BY <1>1, <1>3
<1>5. Of(skew', Parent) = "none" /\ \A y \in Stored \ {Parent} : Of(skew', y) = Of(skew, y)
    BY <1>1, <1>2, <1>3 DEF Of
<1>6. ASSUME NEW under, NEW h, Sound(under, h)
      PROVE  Heights(Stored, child, skew', h, Null, "left")
    <2>1. Heights(Stored, child, skew, h, Parent, Grown) /\ Of(skew, Parent) = Mirror(Grown)
        BY <1>1, <1>6 DEF Sound, PlaceNode, PlaceSide, Climbing, Of
    <2> QED
        BY <2>1, <1>2, <1>5, EvenHeights
<1> QED
    BY <1>1, <1>4, <1>6, ReturnKeepsIInv
LEMMA LeanKeepsIInv ==
    ASSUME IInv, Lean
    PROVE  IInv'
<1> DEFINE front == Front(calls)
           g == IF front = << >> THEN Null ELSE Last(front).node
           t == IF front = << >> THEN "left" ELSE Last(front).side
<1>1. /\ pc = "grown" /\ calls # << >> /\ skew[Parent] = "none"
      /\ skew' = [skew EXCEPT ![Parent] = Grown] /\ calls' = front
      /\ UNCHANGED <<root, child, entry, pc, stored, first, before>> /\ Stored' = Stored
    BY DEF Lean, Stored
<1>2. /\ Parent \in Stored /\ Grown \in Side /\ Slot(front) = Parent /\ front \in Seq(Call)
      /\ front = << >> => Parent = root
      /\ front # << >> => /\ Last(front).node \in Stored /\ Last(front).side \in Side
                          /\ Kid(child, Last(front).node, Last(front).side) = Parent
    BY <1>1, CallFacts DEF IInv
<1>3. Stored \in SUBSET Entry /\ Null \notin Stored /\ skew \in [Stored -> {"none", "left", "right"}]
    BY TypedKids DEF IInv, TypeOK
<1>4. TypeOK'
    <2>1. skew' \in [Stored -> {"none", "left", "right"}]
        BY <1>1, <1>2, <1>3 DEF Side
    <2> QED
        BY <2>1, <1>1, <1>2 DEF IInv, TypeOK, Call
<1>5. CallsInv'
    BY <1>1, FrontKeepsCallsInv DEF IInv
<1>6. FirstInv' /\ BeforeInv'
    BY <1>1 DEF IInv, FirstInv, BeforeInv
<1>7. Of(skew', Parent) = Grown /\ \A y \in Stored \ {Parent} : Of(skew', y) = Of(skew, y)
    BY <1>1, <1>2, <1>3 DEF Of
<1>8. PlaceNode' = g /\ PlaceSide' = t /\ Slot(calls)' = Parent
    BY <1>1, <1>2 DEF PlaceNode, PlaceSide, Climbing, Parent, Grown, Slot
<1>9. ASSUME NEW under, NEW h, Sound(under, h)
      PROVE  \E h2 : Sound(under, h2)'
    <2>1. /\ Shape(Stored, root, child, under)
          /\ Heights(Stored, child, skew, h, Parent, Grown) /\ Of(skew, Parent) = "none"
        BY <1>1, <1>9 DEF Sound, PlaceNode, PlaceSide, Climbing, Of
    <2>2. /\ g = Null \/ (g \in Stored /\ t \in Side)
          /\ IF g = Null THEN root = Parent ELSE Kid(child, g, t) = Parent
        <3>1. CASE front = << >>
            <4>1. g = Null
                BY <3>1
            <4>2. root = Parent
                BY <3>1, <1>2
            <4> QED
                BY <4>1, <4>2
        <3>2. CASE front # << >>
            <4>1. g = Last(front).node /\ t = Last(front).side
                BY <3>2
            <4> QED
                BY <3>2, <4>1, <1>2, <1>3
        <3> QED
            BY <3>1, <3>2
    <2> HIDE DEF g, t, front
    <2>3. PICK h2 : Heights(Stored, child, skew', h2, g, t)
        <3>1. Parent \in Stored /\ Grown \in Side /\ Stored \in SUBSET Entry
            BY <1>2, <1>3
        <3> QED
            BY <3>1, <2>1, <2>2, <1>7, LeanHeights
    <2>4. Of(skew', Slot(calls)') # "none" /\ Slot(calls)' # Null
        BY <1>2, <1>3, <1>7, <1>8 DEF Side
    <2>5. entry \in Stored
        BY <1>1, <1>9 DEF Sound
    <2> QED
        BY <1>1, <1>8, <2>1, <2>3, <2>4, <2>5 DEF Sound
<1> QED
    BY <1>4, <1>5, <1>6, <1>9 DEF IInv

\* A rotation, or two, and the insertion returns.
LEMMA RotatedKeepsIInv ==
    ASSUME IInv, Return(TRUE), pc = "grown",
           child' \in Kids(Stored), root' \in Stored,
           skew' \in [Stored -> {"none", "left", "right"}],
           \A under, h : Sound(under, h) => \E u, h2, s :
               Shape(Stored, root', child', u) /\ Heights(Stored, child', skew', h2, Null, s)
    PROVE  IInv'
<1>1. /\ calls' = << >> /\ entry' = Null /\ pc' = "idle" /\ stored' = TRUE /\ UNCHANGED first
    BY DEF Return
<1>2. Stored' = Stored /\ Stored \in SUBSET Entry
    BY TypedKids DEF Stored, Kids, IInv
<1>3. TypeOK'
    BY <1>1, <1>2 DEF IInv, TypeOK, Kids
<1>4. CallsInv'
    BY <1>1 DEF CallsInv
<1>5. FirstInv' /\ BeforeInv'
    BY <1>1, <1>2 DEF IInv, FirstInv, BeforeInv
<1>6. ASSUME NEW under, NEW h, Sound(under, h)
      PROVE  \E u, h2 : Sound(u, h2)'
    <2>1. PICK u, h2, s :
             Shape(Stored, root', child', u) /\ Heights(Stored, child', skew', h2, Null, s)
        BY <1>6
    <2>2. Heights(Stored, child', skew', h2, Null, "left")
        BY <2>1, <1>2, NoPlace
    <2>3. PlaceNode' = Null /\ PlaceSide' = "left"
        BY <1>1 DEF PlaceNode, PlaceSide, Climbing
    <2> QED
        BY <1>1, <1>2, <2>1, <2>2, <2>3 DEF Sound
<1> QED
    BY <1>3, <1>4, <1>5, <1>6 DEF IInv

LEMMA RotateOnceKeepsIInv ==
    ASSUME IInv, RotateOnce
    PROVE  IInv'
<1> DEFINE x == Parent
           o == Grown
           up == Kid(child, x, o)
           s == Mirror(o)
<1>1. /\ pc = "grown" /\ calls # << >> /\ Of(skew, x) = o /\ Of(skew, up) = o
      /\ skew' = [skew EXCEPT ![x] = "none", ![up] = "none"]
      /\ Link(Front(calls), Rotated(child, x, s), up) /\ Return(TRUE)
    BY DEF RotateOnce, Of, Kid
<1>2. /\ TypeOK /\ CallsInv /\ x \in Stored /\ o \in Side
      /\ Front(calls) # << >> => Kid(child, Last(Front(calls)).node, Last(Front(calls)).side) = x
      /\ Stored \in SUBSET Entry /\ Null \notin Stored /\ child \in Kids(Stored)
      /\ skew \in [Stored -> {"none", "left", "right"}]
    BY <1>1, CallFacts, TypedKids DEF IInv, TypeOK
<1> HIDE DEF x, o, up, s
<1>3. s \in Side /\ Mirror(s) = o
    BY <1>2, Sides DEF s
<1>4. ASSUME NEW under, NEW h, Sound(under, h)
      PROVE  /\ up \in Stored /\ child' \in Kids(Stored) /\ root' \in Stored
             /\ \E u, h2, t : /\ Shape(Stored, root', child', u)
                              /\ Heights(Stored, child', skew', h2, Null, t)
    <2>1. Shape(Stored, root, child, under) /\ Heights(Stored, child, skew, h, x, o)
        BY <1>1, <1>4 DEF Sound, PlaceNode, PlaceSide, Climbing, x, o
    <2>2. Kid(child, x, o) \in Stored \cup {Null} /\ Kid(child, x, o) # x
        BY <2>1, <1>2, Children
    <2>3. up # Null
        <3>1. Of(h, up) = Of(h, x) - Drop(o, o) + 1
            BY <2>1, <1>1, <1>2 DEF Heights, up
        <3>2. Of(h, x) \in Nat /\ Of(h, x) # 0 /\ Of(h, Null) = 0 /\ Drop(o, o) = 1
            BY <2>1, <1>2, Drops DEF Heights
        <3> QED
            BY <3>1, <3>2
    <2>4. up \in Stored /\ up # x /\ up = Kid(child, x, Mirror(s))
        BY <2>2, <2>3, <1>3 DEF up
    <2>5. child' \in Kids(Stored) /\ Turned(Stored, root, child, root', child', x, s)
        BY <2>1, <2>3, <2>4, <1>1, <1>2, <1>3, LinkTurns DEF x
    <2>6. Shape(Stored, root', child', UnderTurned(Stored, child, under, x, s))
        BY <2>1, <2>3, <2>4, <2>5, <1>2, <1>3, TurnKeepsShape
    <2>7. root' \in Stored
        <3>1. root' = IF root = x THEN up ELSE root
            BY <2>4, <2>5 DEF Turned
        <3>2. root \in Stored
            BY <2>1, <1>2 DEF Shape
        <3> QED
            BY <3>1, <3>2, <2>4
    <2>8. /\ Of(skew', x) = "none" /\ Of(skew', up) = "none"
          /\ \A y \in Stored \ {x, up} : Of(skew', y) = Of(skew, y)
        BY <2>4, <1>1, <1>2 DEF Of
    <2>9. \E h2 : Heights(Stored, child', skew', h2, Null, o)
        <3>1. up = Kid(child, x, o) /\ Turned(Stored, root, child, root', child', x, Mirror(o))
            BY <2>5 DEF up, s
        <3>2. Stored \in SUBSET Entry /\ x \in Stored /\ o \in Side
              /\ Of(skew, x) = o /\ Of(skew, up) = o
            BY <1>1, <1>2
        <3> QED
            BY <3>1, <3>2, <2>1, <2>8, TurnEvensHeights
    <2> QED
        BY <2>4, <2>5, <2>6, <2>7, <2>9
<1>5. /\ up \in Stored /\ child' \in Kids(Stored) /\ root' \in Stored
    BY <1>4 DEF IInv
<1>6. skew' \in [Stored -> {"none", "left", "right"}]
    BY <1>1, <1>2, <1>5
<1> QED
    BY <1>1, <1>4, <1>5, <1>6, RotatedKeepsIInv

LEMMA RotateTwiceKeepsIInv ==
    ASSUME IInv, RotateTwice
    PROVE  IInv'
<1> DEFINE x == Parent
           o == Grown
           s == Mirror(o)
           high == Kid(child, x, o)
           inner == Kid(child, high, s)
           skews == SkewsAfterDouble(Of(skew, inner), o)
           ch1 == [Rotated(child, high, o) EXCEPT ![x][o] = inner]
<1>1. /\ pc = "grown" /\ calls # << >> /\ Of(skew, x) = o /\ Of(skew, high) # o
      /\ skew' = [skew EXCEPT ![x] = skews.parent, ![high] = skews.child, ![inner] = "none"]
      /\ Link(Front(calls), Rotated(ch1, x, s), inner) /\ Return(TRUE)
    BY DEF RotateTwice, Of, Kid
<1>2. /\ TypeOK /\ CallsInv /\ x \in Stored /\ o \in Side
      /\ Front(calls) # << >> => /\ Last(Front(calls)).node \in Stored
                                 /\ Last(Front(calls)).side \in Side
                                 /\ Kid(child, Last(Front(calls)).node, Last(Front(calls)).side) = x
      /\ Stored \in SUBSET Entry /\ Null \notin Stored /\ child \in Kids(Stored)
      /\ skew \in [Stored -> {"none", "left", "right"}] /\ Slot(calls) = high
    BY <1>1, CallFacts, TypedKids DEF IInv, TypeOK
<1>3. /\ skews.parent = IF Of(skew, inner) = o THEN s ELSE "none"
      /\ skews.child = IF Of(skew, inner) = s THEN o ELSE "none"
    BY DEF SkewsAfterDouble
<1> HIDE DEF x, o, s, high, inner, skews, ch1
<1>4. s \in Side /\ Mirror(s) = o /\ s # o
    BY <1>2, Sides DEF s
<1>5. ASSUME NEW under, NEW h, Sound(under, h)
      PROVE  /\ high \in Stored /\ inner \in Stored /\ child' \in Kids(Stored) /\ root' \in Stored
             /\ \E u, h2, t : /\ Shape(Stored, root', child', u)
                              /\ Heights(Stored, child', skew', h2, Null, t)
    <2>1. /\ Shape(Stored, root, child, under) /\ Heights(Stored, child, skew, h, x, o)
          /\ Of(skew, high) # "none" \/ Of(h, high) = 1
        BY <1>1, <1>2, <1>5 DEF Sound, PlaceNode, PlaceSide, Climbing, x, o
    <2>2. \A y \in Stored : \A t \in Side :
             Kid(child, y, t) \in Stored \cup {Null} /\ Kid(child, y, t) \notin {y, root}
        BY <2>1, <1>2, Children
    <2>3. /\ \A y \in Stored : Of(h, y) \in Nat /\ Of(h, y) # 0
          /\ Of(h, Null) = 0
        BY <2>1 DEF Heights
    <2>4. Of(h, high) = Of(h, x) /\ high \in Stored /\ Of(h, Kid(child, x, s)) = Of(h, x) - 2
        <3>1. Of(h, high) = Of(h, x) - Drop(o, o) + 1
            BY <2>1, <1>1, <1>2 DEF Heights, high
        <3>2. Of(h, Kid(child, x, s)) = Of(h, x) - Drop(o, s) + 0
            BY <2>1, <1>1, <1>2, <1>4 DEF Heights
        <3>3. Drop(o, o) = 1 /\ Drop(o, s) = 2
            BY <1>2, Drops DEF s
        <3> QED
            BY <3>1, <3>2, <3>3, <2>2, <2>3, <1>2 DEF high
    <2>5. Of(h, high) # 1
        <3>1. Of(h, Kid(child, x, s)) \in Nat
            BY <2>2, <2>3, <1>2, <1>4
        <3> QED
            BY <3>1, <2>3, <2>4
    <2>6. Of(skew, high) = s
        <3>1. Of(skew, high) \in Side
            BY <2>1, <2>4, <2>5 DEF Heights
        <3> QED
            BY <3>1, <1>1, <1>2, Sides DEF s
    <2>7. inner \in Stored
        <3>1. Of(h, inner) = Of(h, high) - Drop(s, s) + 0
            BY <2>1, <2>2, <2>4, <2>6, <1>2, <1>4 DEF Heights, inner, high
        <3>2. Drop(s, s) = 1
            BY <1>4, Drops
        <3> QED
            BY <3>1, <3>2, <2>2, <2>3, <2>4, <2>5, <1>4 DEF inner
    <2>8. ch1 \in Kids(Stored) /\ Turned(Stored, root, child, root, ch1, high, o)
        <3>1. Kid(child, x, o) = high /\ inner = Kid(child, high, Mirror(o)) /\ inner # Null
            BY <2>7, <1>2 DEF high, inner, s
        <3> QED
            BY <3>1, <2>1, <2>4, <1>2, TurnsBelow DEF ch1
    <2>9. \E u : Shape(Stored, root, ch1, u)
        <3>1. Kid(child, high, Mirror(o)) # Null
            BY <2>7, <1>2 DEF inner, s
        <3> QED
            BY <3>1, <2>1, <2>4, <2>8, <1>2, TurnKeepsShape
    <2>10. PICK u1 : Shape(Stored, root, ch1, u1)
        BY <2>9
    <2>11. Kid(ch1, x, o) = inner /\ x \notin {high, inner} /\ high # inner
        <3>1. inner = Kid(child, high, s) /\ high = Kid(child, x, o) /\ high # Null /\ inner # Null
            BY <2>4, <2>7, <1>2 DEF high, inner
        <3>2. /\ Kid(ch1, high, s) = Kid(child, inner, o) /\ Kid(ch1, inner, o) = high
              /\ \A y \in Stored \ {high, inner} : \A t \in Side :
                    Kid(ch1, y, t) = IF Kid(child, y, t) = high THEN inner ELSE Kid(child, y, t)
            BY <2>8 DEF Turned, inner, s
        <3>3. x \notin Of(under, high) /\ Of(under, inner) \subseteq Of(under, high)
              /\ inner \in Of(under, inner) /\ high # inner /\ high # x
            <4>1. \A y \in Stored : \A t \in Side :
                     /\ y \in Of(under, y) /\ y \notin Of(under, Kid(child, y, t))
                     /\ Of(under, Kid(child, y, t)) \subseteq Of(under, y)
                BY <2>1, <1>2, Children
            <4> QED
                BY <4>1, <3>1, <2>2, <2>4, <2>7, <1>2, <1>4
        <3> QED
            BY <3>1, <3>2, <3>3, <1>2
    <2>12. Front(calls) # << >> => Kid(ch1, Last(Front(calls)).node, Last(Front(calls)).side) = x
        <3> SUFFICES ASSUME Front(calls) # << >>
                     PROVE  Kid(ch1, Last(Front(calls)).node, Last(Front(calls)).side) = x
            OBVIOUS
        <3> DEFINE g == Last(Front(calls)).node
                   t == Last(Front(calls)).side
        <3>1. g \in Stored /\ t \in Side /\ Kid(child, g, t) = x
            BY <1>2
        <3> HIDE DEF g, t
        <3>2. \A y \in Stored : \A b \in Side : Kid(child, y, b) # Null => y \in Of(under, y) /\
                 Kid(child, y, b) \in Of(under, Kid(child, y, b))
              /\ Of(under, Kid(child, y, b)) \subseteq Of(under, y)
              /\ y \notin Of(under, Kid(child, y, b))
            BY <2>1, <2>2, <1>2, Children
        <3>3. g \notin {high, inner}
            <4>1. x \notin Of(under, high)
                BY <3>2, <2>4, <1>2 DEF high
            <4>2. Of(under, inner) \subseteq Of(under, high)
                BY <3>2, <2>4, <2>7, <1>2, <1>4 DEF inner
            <4>3. x \in Of(under, g)
                BY <3>1, <3>2, <1>2
            <4> QED
                BY <4>1, <4>2, <4>3
        <3>4. Kid(ch1, g, t) = IF Kid(child, g, t) = high THEN inner ELSE Kid(child, g, t)
            BY <3>1, <3>3, <2>8 DEF Turned, inner, s
        <3> QED
            BY <3>1, <3>4, <2>11 DEF g, t
    <2>13. child' \in Kids(Stored) /\ Turned(Stored, root, ch1, root', child', x, s)
        <3>1. inner = Kid(ch1, x, Mirror(s)) /\ inner # Null
            BY <2>7, <2>11, <1>2, <1>4
        <3> QED
            BY <3>1, <2>8, <2>10, <2>12, <1>1, <1>2, <1>4, LinkTurns DEF x
    <2>14. \E u : Shape(Stored, root', child', u)
        <3>1. Kid(ch1, x, Mirror(s)) # Null
            BY <2>7, <2>11, <1>2, <1>4
        <3> QED
            BY <3>1, <2>10, <2>13, <1>2, <1>4, TurnKeepsShape
    <2>15. root' \in Stored
        <3>1. root' = IF root = x THEN inner ELSE root
            BY <2>11, <2>13, <1>4 DEF Turned
        <3>2. root \in Stored
            BY <2>1, <1>2 DEF Shape
        <3> QED
            BY <3>1, <3>2, <2>7
    <2>16. /\ Of(skew', inner) = "none"
           /\ Of(skew', x) = IF Of(skew, inner) = o THEN s ELSE "none"
           /\ Of(skew', high) = IF Of(skew, inner) = s THEN o ELSE "none"
           /\ \A y \in Stored \ {x, high, inner} : Of(skew', y) = Of(skew, y)
        <3>1. /\ Of(skew', inner) = "none" /\ Of(skew', x) = skews.parent
              /\ Of(skew', high) = skews.child
              /\ \A y \in Stored \ {x, high, inner} : Of(skew', y) = Of(skew, y)
            BY <2>4, <2>7, <2>11, <1>1, <1>2 DEF Of
        <3> QED
            BY <3>1, <1>3
    <2>17. \E h2 : Heights(Stored, child', skew', h2, Null, o)
        <3>1. high = Kid(child, x, o) /\ inner = Kid(child, high, s) /\ s = Mirror(o)
              /\ high # Null /\ inner # Null
            BY <2>4, <2>7, <1>2 DEF high, inner, s
        <3>2. Stored \in SUBSET Entry /\ x \in Stored /\ o \in Side /\ Of(skew, x) = o
            BY <1>1, <1>2
        <3> QED
            BY <3>1, <3>2, <2>1, <2>6, <2>8, <2>13, <2>16, DoubleTurnEvensHeights
    <2> QED
        BY <2>4, <2>7, <2>13, <2>14, <2>15, <2>17
<1>6. high \in Stored /\ inner \in Stored /\ child' \in Kids(Stored) /\ root' \in Stored
    BY <1>5 DEF IInv
<1>7. skew' \in [Stored -> {"none", "left", "right"}]
    <2>1. skews.parent \in {"none", "left", "right"} /\ skews.child \in {"none", "left", "right"}
        BY <1>2, <1>3, <1>4 DEF Side
    <2> QED
        BY <2>1, <1>1, <1>2, <1>6
<1> QED
    BY <1>1, <1>5, <1>6, <1>7, RotatedKeepsIInv
\* The waiting calls are the path to the empty place.
LEMMA PathDown ==
    ASSUME TypeOK, CallsInv, Slot(calls) = Null, NEW under, Shape(Stored, root, child, under),
           NEW path, path = {calls[i].node : i \in 1..Len(calls)},
           NEW g, g = IF calls = << >> THEN Null ELSE Parent
    PROVE  /\ Path(Stored, root, child, entry, path, g)
           /\ calls # << >> => g \in path /\ Grown = SideOf(entry, g)
           /\ calls = << >> => path = {}
<1> DEFINE k == Len(calls)
           node(i) == calls[i].node
           side(i) == calls[i].side
<1>1. calls \in Seq(Call) /\ Stored \in SUBSET Entry /\ Null \notin Stored
    BY TypedKids
<1>2. k \in Nat /\ (calls = << >> <=> k = 0)
    BY <1>1, EmptySeq, LenProperties
<1>3. \A i \in 1..k : calls[i] \in Call
    BY <1>1, ElementOfSeq
<1>4. \A i \in 1..k : /\ node(i) \in Stored /\ side(i) \in Side
                      /\ Beside(entry, node(i), side(i))
                      /\ node(i) = IF i = 1 THEN root ELSE Kid(child, node(i - 1), side(i - 1))
    BY <1>3 DEF CallsInv, Call
<1>5. path = {node(i) : i \in 1..k}
    OBVIOUS
<1>6. k # 0 => Parent = node(k) /\ Grown = side(k) /\ Slot(calls) = Kid(child, node(k), side(k))
    BY <1>2 DEF Parent, Grown, Last, Slot, Kid
<1>7. k = 0 => root = Null /\ g = Null
    BY <1>2 DEF Slot
<1>8. k # 0 => g = node(k)
    BY <1>2, <1>6
<1> HIDE DEF k, node, side
<1>9. \A i \in 1..k : side(i) = SideOf(entry, node(i))
    BY <1>4 DEF Beside
<1>10. path \in SUBSET Stored
    BY <1>4, <1>5
<1>11. k = 0 <=> path = {}
    <2>1. k # 0 => 1 \in 1..k
        BY <1>2
    <2>2. k # 0 => node(1) \in path
        BY <2>1, <1>5
    <2>3. k = 0 => 1..k = {}
        OBVIOUS
    <2>4. k = 0 => path = {}
        BY <2>3, <1>5
    <2> QED
        BY <2>2, <2>4
<1>12. path # {} => root \in path /\ g \in path /\ Kid(child, g, SideOf(entry, g)) = Null
    <2> SUFFICES ASSUME k # 0
                 PROVE  root \in path /\ g \in path /\ Kid(child, g, SideOf(entry, g)) = Null
        BY <1>11
    <2>1. 1 \in 1..k /\ k \in 1..k
        BY <1>2
    <2>2. root = node(1) /\ g = node(k)
        BY <2>1, <1>4, <1>8
    <2>3. Kid(child, node(k), side(k)) = Null /\ side(k) = SideOf(entry, node(k))
        BY <2>1, <1>6, <1>9
    <2> QED
        BY <2>1, <2>2, <2>3, <1>5
<1>13. \A y \in path : Beside(entry, y, SideOf(entry, y))
    BY <1>4, <1>5, <1>9
<1>14. ASSUME NEW y \in path
       PROVE  y = g \/ Kid(child, y, SideOf(entry, y)) \in path
    <2>1. PICK i \in 1..k : y = node(i)
        BY <1>5
    <2>2. CASE i = k
        BY <2>1, <2>2, <1>2, <1>8
    <2>3. CASE i # k
        <3>1. i + 1 \in 1..k /\ i + 1 # 1 /\ (i + 1) - 1 = i
            BY <2>3, <1>2
        <3>2. node(i + 1) = Kid(child, node(i), side(i))
            BY <3>1, <1>4
        <3> QED
            BY <2>1, <3>1, <3>2, <1>5, <1>9
    <2> QED
        BY <2>2, <2>3
<1>15. ASSUME NEW y \in Stored, NEW s \in Side, Kid(child, y, s) \in path
       PROVE  y \in path /\ s = SideOf(entry, y)
    <2>1. PICK i \in 1..k : Kid(child, y, s) = node(i)
        BY <1>5, <1>15
    <2>2. Kid(child, y, s) # root /\ Kid(child, y, s) # Null
        BY <2>1, <1>1, <1>4 DEF Shape
    <2>3. i # 1
        BY <2>1, <2>2, <1>4
    <2>4. i - 1 \in 1..k
        BY <2>3, <1>2
    <2>5. Kid(child, y, s) = Kid(child, node(i - 1), side(i - 1))
        BY <2>1, <2>3, <1>4
    <2>6. y = node(i - 1) /\ s = side(i - 1)
        <3>1. node(i - 1) \in Stored /\ side(i - 1) \in Side
            BY <2>4, <1>4
        <3> QED
            BY <3>1, <2>2, <2>5 DEF Shape
    <2> QED
        BY <2>4, <2>6, <1>5, <1>9
<1>16. calls # << >> => g \in path /\ Grown = SideOf(entry, g)
    <2>1. k # 0 => k \in 1..k
        BY <1>2
    <2> QED
        BY <2>1, <1>2, <1>6, <1>8, <1>9, <1>11, <1>12
<1> QED
    BY <1>2, <1>7, <1>10, <1>11, <1>12, <1>13, <1>14, <1>15, <1>16 DEF Path

LEMMA AttachKeepsIInv ==
    ASSUME IInv, Attach
    PROVE  IInv'
<1> DEFINE g == IF calls = << >> THEN Null ELSE Parent
           t == IF calls = << >> THEN "left" ELSE Grown
           path == {calls[i].node : i \in 1..Len(calls)}
           m == Stored \cup {entry}
           leaf == [n \in m |-> IF n = entry THEN [s \in Side |-> Null] ELSE child[n]]
<1>1. /\ pc = "descend" /\ Slot(calls) = Null /\ Link(calls, leaf, entry)
      /\ skew' = [n \in m |-> IF n = entry THEN "none" ELSE skew[n]]
      /\ pc' = "grown" /\ UNCHANGED <<calls, entry, stored, first, before>>
    BY DEF Attach, NewSkew
<1>2. /\ TypeOK /\ CallsInv /\ entry \in Entry
      /\ Stored \in SUBSET Entry /\ Null \notin Stored /\ child \in Kids(Stored)
      /\ skew \in [Stored -> {"none", "left", "right"}]
      /\ root \in Stored \cup {Null}
    BY <1>1, TypedKids DEF IInv, TypeOK, CallsInv
<1>3. calls # << >> => Parent \in Stored /\ Grown \in Side
    BY <1>2, CallFacts
<1>4. \A y \in Stored : y.key # entry.key
    <2>1. PICK under, h : Sound(under, h)
        BY DEF IInv
    <2>2. Of(under, Null) = {}
        BY <2>1 DEF Sound, Shape
    <2> QED
        BY <2>1, <2>2, <1>1 DEF Sound
<1>5. entry \notin Stored
    BY <1>4
<1>6. leaf \in Kids(m)
    BY <1>2 DEF Kids
<1>7. /\ \A y \in m : \A s \in Side :
             Kid(leaf, y, s) = IF y = entry THEN Null ELSE Kid(child, y, s)
      /\ child' = IF calls = << >> THEN leaf ELSE [leaf EXCEPT ![Parent][Grown] = entry]
      /\ root' = IF calls = << >> THEN entry ELSE root
    BY <1>1, <1>2 DEF Kid, Link, Parent, Grown
<1> HIDE DEF leaf, path
<1>8. /\ child' \in Kids(m)
      /\ \A s \in Side : Kid(child', entry, s) = Null
      /\ \A y \in Stored : \A s \in Side :
            Kid(child', y, s) = IF y = g /\ s = t THEN entry ELSE Kid(child, y, s)
    <2>1. CASE calls = << >>
        BY <2>1, <1>2, <1>5, <1>6, <1>7
    <2>2. CASE calls # << >>
        <3>1. /\ child' = [leaf EXCEPT ![Parent][Grown] = entry] /\ g = Parent /\ t = Grown
              /\ Parent \in Stored /\ Grown \in Side
            BY <2>2, <1>3, <1>7
        <3>2. /\ leaf[Parent] \in [Side -> m \cup {Null}]
              /\ child' = [y \in m |-> IF y = Parent THEN [leaf[Parent] EXCEPT ![Grown] = entry]
                                       ELSE leaf[y]]
            BY <3>1, <1>6 DEF Kids
        <3>3. [leaf[Parent] EXCEPT ![Grown] = entry] \in [Side -> m \cup {Null}]
            BY <3>2
        <3>4. child' \in Kids(m)
            BY <3>2, <3>3, <1>6 DEF Kids
        <3>5. /\ \A y \in m \ {Parent} : \A s \in Side : Kid(child', y, s) = Kid(leaf, y, s)
              /\ \A s \in Side : Kid(child', Parent, s) = IF s = Grown THEN entry
                                                          ELSE Kid(leaf, Parent, s)
            BY <3>1, <3>2 DEF Kid
        <3> QED
            BY <3>1, <3>4, <3>5, <1>5, <1>7
    <2> QED
        BY <2>1, <2>2
<1>9. Stored' = m
    BY <1>8 DEF Stored, Kids
<1>10. /\ Of(skew', entry) = "none" /\ \A y \in Stored : Of(skew', y) = Of(skew, y)
       /\ skew' \in [m -> {"none", "left", "right"}]
    BY <1>1, <1>2, <1>5 DEF Of
<1>11. TypeOK'
    <2>1. calls \in Seq([node : m, side : Side])
        <3>1. [node : Stored, side : Side] \subseteq [node : m, side : Side]
            OBVIOUS
        <3>2. calls \in Seq([node : Stored, side : Side])
            BY <1>2 DEF TypeOK
        <3> HIDE DEF m
        <3> QED
            BY <3>1, <3>2, SeqMonotonic, Zenon
    <2>2. IsFiniteSet(m)
        BY <1>2, FS_AddElement DEF TypeOK
    <2>3. root' \in m \cup {Null}
        BY <1>2, <1>7
    <2> QED
        BY <2>1, <2>2, <2>3, <1>1, <1>2, <1>8, <1>9, <1>10 DEF TypeOK, Kids
<1>12. \A y \in Stored : y # entry
    BY <1>5
<1>13. CallsInv'
    <2> SUFFICES ASSUME NEW i \in 1..Len(calls)
                 PROVE  /\ Beside(entry, calls[i].node, calls[i].side)
                        /\ calls[i].node = IF i = 1 THEN root'
                                           ELSE Kid(child', calls[i - 1].node, calls[i - 1].side)
        BY <1>1, <1>2 DEF CallsInv
    <2>1. /\ Beside(entry, calls[i].node, calls[i].side)
          /\ calls[i].node = IF i = 1 THEN root
                             ELSE Kid(child, calls[i - 1].node, calls[i - 1].side)
        BY <1>2 DEF CallsInv
    <2>2. calls \in Seq(Call) /\ Len(calls) \in Nat
        BY TypedKids, <1>2, LenProperties
    <2>3. calls # << >> /\ root' = root
        BY <2>2, <1>7
    <2>4. CASE i = 1
        BY <2>1, <2>3, <2>4
    <2>5. CASE i # 1
        <3> DEFINE a == calls[i - 1].node
                   b == calls[i - 1].side
        <3>1. i - 1 \in 1..Len(calls)
            BY <2>2, <2>5
        <3>2. a \in Stored /\ b \in Side /\ calls[i].node \in Stored
            <4>1. calls[i - 1] \in Call /\ calls[i] \in Call
                BY <2>2, <3>1, ElementOfSeq
            <4> QED
                BY <4>1 DEF Call
        <3>3. calls[i].node = Kid(child, a, b)
            BY <2>1, <2>5
        <3>4. ~(a = g /\ b = t)
            <4>1. g = Parent /\ t = Grown
                BY <2>3
            <4>2. Kid(child, Parent, Grown) = Null
                BY <2>3, <1>1, <1>2, CallFacts
            <4> QED
                BY <3>2, <3>3, <4>1, <4>2, <1>2
        <3>5. Kid(child', a, b) = Kid(child, a, b)
            BY <3>2, <3>4, <1>8
        <3> QED
            BY <2>1, <2>5, <3>3, <3>5
    <2> QED
        BY <2>4, <2>5
<1>14. FirstInv' /\ BeforeInv'
    BY <1>1, <1>4, <1>9 DEF IInv, FirstInv, BeforeInv, Tree, Stored
<1>15. PlaceNode' = g /\ PlaceSide' = t
    BY <1>1 DEF PlaceNode, PlaceSide, Climbing, Parent, Grown
<1>16. Slot(calls)' = entry
    <2>1. CASE calls = << >>
        BY <2>1, <1>1, <1>7 DEF Slot
    <2>2. CASE calls # << >>
        <3>1. Slot(calls)' = Kid(child', Parent, Grown)
            BY <2>2, <1>1 DEF Slot, Kid, Parent, Grown
        <3> QED
            BY <2>2, <3>1, <1>3, <1>8
    <2> QED
        BY <2>1, <2>2
<1>17. ASSUME NEW under, NEW h, Sound(under, h)
       PROVE  \E u, h2 : Sound(u, h2)'
    <2>1. Shape(Stored, root, child, under) /\ Heights(Stored, child, skew, h, Null, "left")
        BY <1>1, <1>17 DEF Sound, PlaceNode, PlaceSide, Climbing
    <2>2. /\ Path(Stored, root, child, entry, path, g)
          /\ calls # << >> => g \in path /\ Grown = SideOf(entry, g)
          /\ calls = << >> => path = {}
        BY <2>1, <1>1, <1>2, PathDown DEF path
    <2>3. /\ g # Null => t = SideOf(entry, g) /\ t \in Side /\ Kid(child, g, t) = Null
          /\ g \in Stored \cup {Null}
        BY <2>2, <1>3 DEF Path
    <2>4. entry \in Entry \ Stored /\ Stored \in SUBSET Entry
        BY <1>2, <1>5
    <2> HIDE DEF g, t, m
    <2>5. NewLeaf(Stored, child, entry, child', g, t)
        BY <1>8 DEF NewLeaf
    <2>6. \E u : Shape(Stored \cup {entry}, root', child', u)
        <3>1. root' = IF path = {} THEN entry ELSE root
            BY <2>2, <1>7 DEF Path
        <3>2. NewLeaf(Stored, child, entry, child', g, SideOf(entry, g))
            BY <2>3, <2>5, <1>2 DEF NewLeaf
        <3>3. Shape(Stored, root, child, under) /\ Path(Stored, root, child, entry, path, g)
            BY <2>1, <2>2
        <3> QED
            BY <2>4, <3>1, <3>2, <3>3, LeafKeepsShape
    <2>7. \E h2 : Heights(Stored \cup {entry}, child', skew', h2, g, t) /\ Of(h2, entry) = 1
        <3>1. \A y \in Stored : \A s \in Side : Kid(child, y, s) \in Stored \cup {Null}
            BY <2>1 DEF Shape
        <3>2. Of(skew', entry) = "none" /\ \A y \in Stored : Of(skew', y) = Of(skew, y)
            BY <1>10
        <3> QED
            BY <2>1, <2>3, <2>4, <2>5, <3>1, <3>2, LeafKeepsHeights
    <2>8. entry \in m /\ entry # Null /\ m = Stored \cup {entry}
        BY <1>2, KeysAreNumbers DEF m
    <2> QED
        BY <2>6, <2>7, <2>8, <1>1, <1>9, <1>15, <1>16 DEF Sound
<1> QED
    BY <1>11, <1>13, <1>14, <1>17 DEF IInv
-------------------------------------------------------------------------------
(* The invariant holds, and with it the types and what insertions return.       *)

LEMMA InitIInv == Init => IInv
<1> SUFFICES ASSUME Init
             PROVE  IInv
    OBVIOUS
<1> USE DEF Init
<1>1. Stored = {} /\ child = [n \in {} |-> Null]
    BY DEF Stored
<1>2. TypeOK
    BY <1>1, FS_EmptySet DEF TypeOK
<1>3. CallsInv /\ FirstInv /\ BeforeInv
    BY <1>1 DEF CallsInv, FirstInv, BeforeInv
<1>4. Sound([x \in {Null} |-> {}], [x \in {Null} |-> 0])
    <2> DEFINE under == [x \in {Null} |-> {}]
               h == [x \in {Null} |-> 0]
    <2>1. Of(under, Null) = {} /\ Of(h, Null) = 0
        BY DEF Of
    <2> HIDE DEF under, h
    <2>2. Shape(Stored, root, child, under)
        BY <1>1, <2>1 DEF Shape
    <2>3. Heights(Stored, child, skew, h, PlaceNode, PlaceSide)
        BY <1>1, <2>1 DEF Heights
    <2> QED
        BY <2>2, <2>3 DEF Sound, under, h
<1> QED
    BY <1>2, <1>3, <1>4 DEF IInv

LEMMA StepKeepsIInv == IInv /\ [Next]_vars => IInv'
<1> SUFFICES ASSUME IInv, [Next]_vars
             PROVE  IInv'
    OBVIOUS
<1>1. ASSUME NEW new \in Entry, Insert(new) PROVE IInv'
    BY <1>1, InsertKeepsIInv
<1>2. CASE Descend
    BY <1>2, DescendKeepsIInv
<1>3. CASE Duplicate
    BY <1>3, DuplicateKeepsIInv
<1>4. CASE Attach
    BY <1>4, AttachKeepsIInv
<1>5. CASE EvenOut
    BY <1>5, EvenOutKeepsIInv
<1>6. CASE Lean
    BY <1>6, LeanKeepsIInv
<1>7. CASE RotateOnce
    BY <1>7, RotateOnceKeepsIInv
<1>8. CASE RotateTwice
    BY <1>8, RotateTwiceKeepsIInv
<1>9. CASE ReturnStored
    BY <1>9, ReturnStoredKeepsIInv
<1>10. CASE UNCHANGED vars
    BY <1>10 DEF vars, IInv, TypeOK, CallsInv, FirstInv, BeforeInv, Sound, PlaceNode, PlaceSide,
                 Climbing, Parent, Grown, Slot, Stored, Tree
<1> QED
    BY <1>1, <1>2, <1>3, <1>4, <1>5, <1>6, <1>7, <1>8, <1>9, <1>10 DEF Next

THEOREM AvlInvariant == Spec => []IInv
<1> QED
    BY InitIInv, StepKeepsIInv, PTL DEF Spec

\* insert: the tree and the calls of insert_node stay well-typed, in
\* particular no rotation goes through a null pointer.
THEOREM AvlTreeIsWellTyped == Spec => []TypeOK
<1>1. IInv => TypeOK
    BY DEF IInv
<1> QED
    BY <1>1, AvlInvariant, PTL

\* insert returns nullptr exactly for a name that the tree has, and leaves the
\* tree as it was then.
THEOREM DuplicatesAreAlwaysRefused == Spec => DuplicatesAreRefused
<1> DEFINE A == pc # "idle" /\ pc' = "idle" =>
                  IF \E x \in DOMAIN before.child : x.key = entry.key
                  THEN ~stored' /\ Tree' = before
                  ELSE stored'
<1>1. ASSUME IInv, [Next]_vars
      PROVE  [A]_vars
    <2> SUFFICES ASSUME Next, pc # "idle", pc' = "idle"
                 PROVE  IF \E x \in DOMAIN before.child : x.key = entry.key
                        THEN ~stored' /\ Tree' = before
                        ELSE stored'
        BY <1>1
    <2>1. BeforeInv
        BY <1>1 DEF IInv
    <2>2. CASE Duplicate
        <3>1. pc = "descend" /\ entry.key = Slot(calls).key /\ stored' = FALSE /\ Tree' = Tree
            BY <2>2 DEF Duplicate, Return, Tree
        <3>2. before = Tree /\ before.child = child
            BY <3>1, <2>1 DEF BeforeInv, Tree
        <3>3. Slot(calls) \in Stored
            <4>1. CASE calls = << >>
                BY <4>1, <2>2, <1>1 DEF Slot, IInv, TypeOK, Duplicate
            <4>2. CASE calls # << >>
                <5>1. Slot(calls) = child[Parent][Grown] /\ Parent \in Stored /\ Grown \in Side
                    BY <4>2, <1>1, CallFacts DEF Kid, IInv
                <5> QED
                    BY <5>1, <2>2, <1>1 DEF IInv, TypeOK, Duplicate
            <4> QED
                BY <4>1, <4>2
        <3> QED
            BY <3>1, <3>2, <3>3 DEF Stored
    <2>3. CASE pc = "grown" /\ stored' = TRUE
        BY <2>1, <2>3 DEF BeforeInv
    <2>4. Duplicate \/ (pc = "grown" /\ stored' = TRUE)
        BY DEF Next, Insert, Descend, Attach, EvenOut, Lean, RotateOnce, RotateTwice,
               ReturnStored, Return
    <2> QED
        BY <2>2, <2>3, <2>4
<1> QED
    BY <1>1, AvlInvariant, PTL DEF Spec, DuplicatesAreRefused

-------------------------------------------------------------------------------
(* The recursive functions that the properties use are those of the invariant.  *)

LEMMA LeastNumber ==
    ASSUME NEW S \in SUBSET Nat, S # {}
    PROVE  \E n \in S : \A m \in S : n <= m
<1>1. IsWellFoundedOn(OpToRel(<, Nat), Nat)
    BY NatLessThanWellFounded
<1>2. PICK n \in S : \A m \in S : ~(<<m, n>> \in OpToRel(<, Nat))
    BY <1>1, WFMin
<1>3. \A m \in S : ~(m < n)
    BY <1>2 DEF OpToRel
<1>4. n \in Nat /\ \A m \in S : m \in Nat
    OBVIOUS
<1>5. \A m \in S : n <= m
    BY <1>3, <1>4
<1> QED
    BY <1>5

LEMMA NatInduct ==
    ASSUME NEW S, 0 \in S, \A n \in Nat : n \in S => n + 1 \in S
    PROVE  Nat \subseteq S
<1> SUFFICES ASSUME Nat \ S # {}
             PROVE  FALSE
    OBVIOUS
<1>1. PICK n \in Nat \ S : \A m \in Nat \ S : n <= m
    BY LeastNumber
<1>2. n # 0 /\ n - 1 \in Nat /\ ~(n <= n - 1)
    BY <1>1
<1> QED
    BY <1>1, <1>2

NodesFrom(f, n) ==
    [x \in Stored \cup {Null} |->
        IF n = 0 \/ x = Null THEN {}
        ELSE {x} \cup f[n - 1][child[x]["left"]] \cup f[n - 1][child[x]["right"]]]

LEMMA NodesToExists ==
    ASSUME Levels \in Nat
    PROVE  \A n \in 0..Levels : NodesTo[n] = NodesFrom(NodesTo, n)
<1> DEFINE P(k) == \E f : f = [n \in 0..k |-> NodesFrom(f, n)]
           S == {k \in Nat : P(k)}
<1>1. \A f, g : NodesFrom(f, 0) = NodesFrom(g, 0)
    BY DEF NodesFrom
<1>2. \A f, g : \A n : f[n - 1] = g[n - 1] => NodesFrom(f, n) = NodesFrom(g, n)
    BY DEF NodesFrom
<1>3. P(0)
    <2> DEFINE f == [n \in 0..0 |-> NodesFrom(n, 0)]
    <2>1. f = [n \in 0..0 |-> NodesFrom(f, n)]
        <3>1. \A n \in 0..0 : NodesFrom(n, 0) = NodesFrom(f, n)
            BY <1>1
        <3> QED
            BY <3>1
    <2> QED
        BY <2>1
<1>4. ASSUME NEW k \in Nat, P(k)
      PROVE  P(k + 1)
    <2>1. PICK f : f = [n \in 0..k |-> NodesFrom(f, n)]
        BY <1>4
    <2> DEFINE g == [n \in 0..(k + 1) |-> IF n = k + 1 THEN NodesFrom(f, k + 1) ELSE f[n]]
    <2>2. \A n \in 0..k : g[n] = f[n]
        OBVIOUS
    <2>3. \A n \in 0..(k + 1) : g[n] = NodesFrom(g, n)
        <3> SUFFICES ASSUME NEW n \in 0..(k + 1)
                     PROVE  g[n] = NodesFrom(g, n)
            OBVIOUS
        <3> HIDE DEF g
        <3>1. n # 0 => f[n - 1] = g[n - 1]
            BY <2>2
        <3>2. NodesFrom(f, n) = NodesFrom(g, n)
            BY <3>1, <1>1, <1>2
        <3>3. g[n] = NodesFrom(f, n)
            BY <2>1 DEF g
        <3> QED
            BY <3>2, <3>3
    <2>4. g = [n \in 0..(k + 1) |-> NodesFrom(g, n)]
        BY <2>3
    <2> HIDE DEF g
    <2> QED
        BY <2>4
<1>5. Nat \subseteq S
    <2>1. 0 \in S
        BY <1>3
    <2>2. \A k \in Nat : k \in S => k + 1 \in S
        BY <1>4
    <2> HIDE DEF S, P
    <2> QED
        BY <2>1, <2>2, NatInduct
<1>6. P(Levels)
    <2>1. Levels \in S
        BY <1>5
    <2> HIDE DEF P
    <2> QED
        BY <2>1 DEF S
<1>7. NodesTo = CHOOSE f : f = [n \in 0..Levels |-> NodesFrom(f, n)]
    BY DEF NodesTo, NodesFrom
<1>8. NodesTo = [n \in 0..Levels |-> NodesFrom(NodesTo, n)]
    BY <1>6, <1>7
<1> QED
    BY <1>8

HeightFrom(f, n) ==
    [x \in Stored \cup {Null} |->
        IF n = 0 \/ x = Null THEN 0
        ELSE LET left == f[n - 1][child[x]["left"]]
                 right == f[n - 1][child[x]["right"]]
             IN  1 + IF left > right THEN left ELSE right]

LEMMA HeightToExists ==
    ASSUME Levels \in Nat
    PROVE  \A n \in 0..Levels : HeightTo[n] = HeightFrom(HeightTo, n)
<1> DEFINE P(k) == \E f : f = [n \in 0..k |-> HeightFrom(f, n)]
           S == {k \in Nat : P(k)}
<1>1. \A f, g : HeightFrom(f, 0) = HeightFrom(g, 0)
    BY DEF HeightFrom
<1>2. \A f, g : \A n : f[n - 1] = g[n - 1] => HeightFrom(f, n) = HeightFrom(g, n)
    BY DEF HeightFrom
<1>3. P(0)
    <2> DEFINE f == [n \in 0..0 |-> HeightFrom(n, 0)]
    <2>1. f = [n \in 0..0 |-> HeightFrom(f, n)]
        <3>1. \A n \in 0..0 : HeightFrom(n, 0) = HeightFrom(f, n)
            BY <1>1
        <3> QED
            BY <3>1
    <2> QED
        BY <2>1
<1>4. ASSUME NEW k \in Nat, P(k)
      PROVE  P(k + 1)
    <2>1. PICK f : f = [n \in 0..k |-> HeightFrom(f, n)]
        BY <1>4
    <2> DEFINE g == [n \in 0..(k + 1) |-> IF n = k + 1 THEN HeightFrom(f, k + 1) ELSE f[n]]
    <2>2. \A n \in 0..k : g[n] = f[n]
        OBVIOUS
    <2>3. \A n \in 0..(k + 1) : g[n] = HeightFrom(g, n)
        <3> SUFFICES ASSUME NEW n \in 0..(k + 1)
                     PROVE  g[n] = HeightFrom(g, n)
            OBVIOUS
        <3> HIDE DEF g
        <3>1. n # 0 => f[n - 1] = g[n - 1]
            BY <2>2
        <3>2. HeightFrom(f, n) = HeightFrom(g, n)
            BY <3>1, <1>1, <1>2
        <3>3. g[n] = HeightFrom(f, n)
            BY <2>1 DEF g
        <3> QED
            BY <3>2, <3>3
    <2>4. g = [n \in 0..(k + 1) |-> HeightFrom(g, n)]
        BY <2>3
    <2> HIDE DEF g
    <2> QED
        BY <2>4
<1>5. Nat \subseteq S
    <2>1. 0 \in S
        BY <1>3
    <2>2. \A k \in Nat : k \in S => k + 1 \in S
        BY <1>4
    <2> HIDE DEF S, P
    <2> QED
        BY <2>1, <2>2, NatInduct
<1>6. P(Levels)
    <2>1. Levels \in S
        BY <1>5
    <2> HIDE DEF P
    <2> QED
        BY <2>1 DEF S
<1>7. HeightTo = CHOOSE f : f = [n \in 0..Levels |-> HeightFrom(f, n)]
    BY DEF HeightTo, HeightFrom
<1>8. HeightTo = [n \in 0..Levels |-> HeightFrom(HeightTo, n)]
    BY <1>6, <1>7
<1> QED
    BY <1>8

LEMMA HeightsAtRest ==
    ASSUME IInv, pc = "idle", NEW under, NEW h, Sound(under, h), NEW x \in Stored
    PROVE  /\ Of(h, x) \in Nat /\ Of(h, x) # 0 /\ Of(h, Null) = 0
           /\ \A s \in Side : /\ Kid(child, x, s) \in Stored \cup {Null}
                              /\ Of(h, Kid(child, x, s)) = Of(h, x) - Drop(Of(skew, x), s)
           /\ Of(skew, x) \in {"none", "left", "right"}
<1>1. Heights(Stored, child, skew, h, Null, "left") /\ Shape(Stored, root, child, under)
    BY DEF Sound, PlaceNode, PlaceSide, Climbing
<1>2. x # Null
    BY TypedKids DEF IInv
<1>3. /\ Of(h, x) \in Nat /\ Of(h, x) # 0 /\ Of(h, Null) = 0
      /\ Of(skew, x) \in {"none", "left", "right"}
    BY <1>1 DEF Heights, Side
<1>4. ASSUME NEW s \in Side
      PROVE  /\ Kid(child, x, s) \in Stored \cup {Null}
             /\ Of(h, Kid(child, x, s)) = Of(h, x) - Drop(Of(skew, x), s)
    <2>1. Of(h, Kid(child, x, s)) = Of(h, x) - Drop(Of(skew, x), s) + 0
        BY <1>1, <1>2 DEF Heights
    <2>2. Drop(Of(skew, x), s) \in Nat
        BY DEF Drop
    <2>3. Kid(child, x, s) \in Stored \cup {Null}
        BY <1>1 DEF Shape
    <2> QED
        BY <2>1, <2>2, <2>3, <1>3
<1> QED
    BY <1>3, <1>4

\* A tree of some height has that many nodes.
LEMMA HeightsFitIn ==
    ASSUME IInv, pc = "idle", NEW under, NEW h, Sound(under, h)
    PROVE  Levels \in Nat /\ \A x \in Stored : Of(h, x) <= Levels
<1>1. IsFiniteSet(Stored) /\ Levels \in Nat /\ Null \notin Stored /\ Stored \in SUBSET Entry
    BY FS_CardinalityType, TypedKids DEF IInv, TypeOK, Levels
<1>2. Shape(Stored, root, child, under)
    BY DEF Sound
<1>3. Of(under, Null) = {} /\ Of(h, Null) = 0
    BY DEF Sound, Shape, Heights
<1>4. \A x \in Stored \cup {Null} :
         /\ Of(under, x) \subseteq Stored /\ IsFiniteSet(Of(under, x))
         /\ Cardinality(Of(under, x)) \in Nat /\ Cardinality(Of(under, x)) <= Levels
    <2>1. \A x \in Stored \cup {Null} : Of(under, x) \subseteq Stored
        BY <1>2, <1>3 DEF Shape
    <2> QED
        BY <2>1, <1>1, FS_Subset, FS_CardinalityType DEF Levels
<1> DEFINE P(k) == \A x \in Stored \cup {Null} : Of(h, x) <= k => Of(h, x) <= Cardinality(Of(under, x))
           S == {k \in Nat : P(k)}
<1>5. P(0)
    BY <1>3, <1>4, HeightsAtRest
<1>6. ASSUME NEW k \in Nat, P(k)
      PROVE  P(k + 1)
    <2> SUFFICES ASSUME NEW x \in Stored, Of(h, x) <= k + 1
                 PROVE  Of(h, x) <= Cardinality(Of(under, x))
        BY <1>3, <1>4
    <2>1. PICK s \in Side : Drop(Of(skew, x), s) = 1
        <3>1. "left" \in Side /\ "right" \in Side
            BY DEF Side
        <3>2. Drop(Of(skew, x), "left") = 1 \/ Drop(Of(skew, x), "right") = 1
            BY DEF Drop, Mirror
        <3> QED
            BY <3>1, <3>2
    <2> DEFINE c == Kid(child, x, s)
    <2>2. c \in Stored \cup {Null} /\ Of(h, c) = Of(h, x) - 1 /\ Of(h, x) \in Nat
        BY <2>1, HeightsAtRest
    <2>3. Of(h, c) <= Cardinality(Of(under, c))
        BY <2>2, <1>6
    <2>4. x \notin Of(under, c) /\ Of(under, c) \subseteq Of(under, x) /\ x \in Of(under, x)
        BY <1>1, <1>2, Children
    <2> HIDE DEF c
    <2>5. /\ IsFiniteSet(Of(under, c) \cup {x})
          /\ Cardinality(Of(under, c) \cup {x}) = Cardinality(Of(under, c)) + 1
        BY <2>2, <2>4, <1>4, FS_AddElement
    <2>6. Cardinality(Of(under, c) \cup {x}) <= Cardinality(Of(under, x))
        <3>1. Of(under, c) \cup {x} \subseteq Of(under, x)
            BY <2>4
        <3> QED
            BY <3>1, <1>4, FS_Subset
    <2>7. Cardinality(Of(under, c)) \in Nat /\ Cardinality(Of(under, x)) \in Nat /\ Of(h, c) \in Int
        BY <2>2, <1>4
    <2> QED
        BY <2>2, <2>3, <2>5, <2>6, <2>7
<1>7. Nat \subseteq S
    <2>1. 0 \in S
        BY <1>5
    <2>2. \A k \in Nat : k \in S => k + 1 \in S
        BY <1>6
    <2> HIDE DEF S, P
    <2> QED
        BY <2>1, <2>2, NatInduct
<1>8. ASSUME NEW x \in Stored
      PROVE  Of(h, x) <= Levels
    <2>1. Of(h, x) \in Nat
        BY HeightsAtRest
    <2>2. P(Of(h, x))
        <3>1. Of(h, x) \in S
            BY <2>1, <1>7
        <3> HIDE DEF P
        <3> QED
            BY <3>1
    <2>3. Of(h, x) <= Cardinality(Of(under, x))
        BY <2>1, <2>2
    <2> QED
        BY <2>1, <2>3, <1>1, <1>4
<1> QED
    BY <1>1, <1>8

LEMMA RecursionAgrees ==
    ASSUME IInv, pc = "idle", NEW under, NEW h, Sound(under, h)
    PROVE  \A x \in Stored \cup {Null} : Nodes(x) = Of(under, x) /\ Height(x) = Of(h, x)
<1>1. /\ Levels \in Nat /\ \A x \in Stored : Of(h, x) <= Levels
      /\ Null \notin Stored /\ Stored \in SUBSET Entry
    BY HeightsFitIn, TypedKids DEF IInv
<1>2. Shape(Stored, root, child, under) /\ Of(under, Null) = {} /\ Of(h, Null) = 0
    BY DEF Sound, Shape, Heights
<1>3. /\ \A n \in 0..Levels : NodesTo[n] = NodesFrom(NodesTo, n)
      /\ \A n \in 0..Levels : HeightTo[n] = HeightFrom(HeightTo, n)
    BY <1>1, NodesToExists, HeightToExists
<1> DEFINE Agrees(k, x) == NodesTo[k][x] = Of(under, x) /\ HeightTo[k][x] = Of(h, x)
           P(k) == k <= Levels => \A x \in Stored \cup {Null} : Of(h, x) <= k => Agrees(k, x)
           S == {k \in Nat : P(k)}
<1>4. \A k \in 0..Levels : NodesTo[k][Null] = {} /\ HeightTo[k][Null] = 0
    BY <1>3 DEF NodesFrom, HeightFrom
<1>5. P(0)
    <2>1. \A x \in Stored : ~(Of(h, x) <= 0)
        BY HeightsAtRest
    <2> QED
        BY <2>1, <1>1, <1>2, <1>4
<1>6. ASSUME NEW k \in Nat, P(k)
      PROVE  P(k + 1)
    <2> SUFFICES ASSUME k + 1 <= Levels, NEW x \in Stored, Of(h, x) <= k + 1
                 PROVE  Agrees(k + 1, x)
        <3>1. k + 1 <= Levels => Agrees(k + 1, Null)
            BY <1>1, <1>2, <1>4
        <3> HIDE DEF Agrees
        <3> QED
            BY <3>1
    <2> DEFINE l == Kid(child, x, "left")
               r == Kid(child, x, "right")
    <2>1. /\ Of(h, x) \in Nat /\ l \in Stored \cup {Null} /\ r \in Stored \cup {Null}
          /\ Of(h, l) = Of(h, x) - Drop(Of(skew, x), "left")
          /\ Of(h, r) = Of(h, x) - Drop(Of(skew, x), "right")
        BY HeightsAtRest DEF Side
    <2>2. /\ Drop(Of(skew, x), "left") = IF Of(skew, x) = "right" THEN 2 ELSE 1
          /\ Drop(Of(skew, x), "right") = IF Of(skew, x) = "left" THEN 2 ELSE 1
        BY DEF Drop, Mirror
    <2>3. Agrees(k, l) /\ Agrees(k, r)
        BY <2>1, <2>2, <1>6, <1>1
    <2>4. /\ k + 1 \in 0..Levels /\ (k + 1) - 1 = k /\ k + 1 # 0 /\ x # Null
        BY <1>1
    <2>5. /\ NodesTo[k + 1][x] = {x} \cup NodesTo[k][l] \cup NodesTo[k][r]
          /\ HeightTo[k + 1][x] = 1 + IF HeightTo[k][l] > HeightTo[k][r] THEN HeightTo[k][l]
                                      ELSE HeightTo[k][r]
        <3>1. NodesTo[k + 1] = NodesFrom(NodesTo, k + 1) /\ HeightTo[k + 1] = HeightFrom(HeightTo, k + 1)
            BY <2>4, <1>3
        <3> QED
            BY <3>1, <2>4 DEF NodesFrom, HeightFrom, Kid
    <2>6. Of(under, x) = {x} \cup Of(under, l) \cup Of(under, r)
        BY <1>2 DEF Shape, Side
    <2>7. Of(h, x) = 1 + IF Of(h, l) > Of(h, r) THEN Of(h, l) ELSE Of(h, r)
        BY <2>1, <2>2
    <2> QED
        BY <2>3, <2>5, <2>6, <2>7
<1>7. Nat \subseteq S
    <2>1. 0 \in S
        BY <1>5
    <2>2. \A k \in Nat : k \in S => k + 1 \in S
        BY <1>6
    <2> HIDE DEF S, P
    <2> QED
        BY <2>1, <2>2, NatInduct
<1>8. P(Levels)
    <2>1. Levels \in S
        BY <1>1, <1>7
    <2> HIDE DEF P
    <2> QED
        BY <2>1 DEF S
<1> QED
    BY <1>1, <1>2, <1>8 DEF Nodes, Height

LEMMA KidIs == ASSUME NEW x, NEW s PROVE Kid(child, x, s) = child[x][s]
BY DEF Kid

\* rotate_left and rotate_right: in every state between two insertions, what is
\* on the left of a node is below it, on the right above.
THEOREM NamesStayInOrder == Spec => []NamesInOrder
<1>1. IInv => NamesInOrder
    <2> SUFFICES ASSUME IInv, pc = "idle", NEW x \in Nodes(root)
                 PROVE  /\ \A y \in Nodes(child[x]["left"]) : y.key < x.key
                        /\ \A y \in Nodes(child[x]["right"]) : x.key < y.key
        BY DEF NamesInOrder
    <2>1. PICK under, h : Sound(under, h)
        BY DEF IInv
    <2>2. \A y \in Stored \cup {Null} : Nodes(y) = Of(under, y)
        BY <2>1, RecursionAgrees
    <2>3. Shape(Stored, root, child, under)
        BY <2>1 DEF Sound
    <2>4. x \in Stored /\ Stored \in SUBSET Entry
        BY <2>2, <2>3, TypedKids DEF Shape, IInv
    <2>5. \A s \in Side : \A y \in Nodes(child[x][s]) : y \in Stored /\ Beside(y, x, s)
        <3> SUFFICES ASSUME NEW s \in Side, NEW y \in Nodes(child[x][s])
                     PROVE  y \in Stored /\ Beside(y, x, s)
            OBVIOUS
        <3>1. /\ Kid(child, x, s) \in Stored \cup {Null}
              /\ Of(under, Kid(child, x, s)) \subseteq Stored
              /\ \A z \in Of(under, Kid(child, x, s)) : Beside(z, x, s)
            BY <2>3, <2>4, Children
        <3>2. y \in Of(under, Kid(child, x, s))
            BY <2>2, <3>1, KidIs
        <3> QED
            BY <3>1, <3>2
    <2>6. \A y \in Stored : y.key \in Int
        BY <2>4, KeysAreNumbers
    <2> QED
        BY <2>4, <2>5, <2>6 DEF Beside, SideOf, Side
<1> QED
    BY <1>1, AvlInvariant, PTL

\* left_grown and right_grown: the skews tell the difference of the heights,
\* which is never more than one.
THEOREM SkewsStayRight == Spec => []SkewsAreRight
<1>1. IInv => SkewsAreRight
    <2> SUFFICES ASSUME IInv, pc = "idle", NEW x \in Nodes(root)
                 PROVE  Height(child[x]["right"]) - Height(child[x]["left"]) =
                            CASE skew[x] = "none" -> 0 [] skew[x] = "right" -> 1
                              [] skew[x] = "left" -> -1
        BY DEF SkewsAreRight
    <2>1. PICK under, h : Sound(under, h)
        BY DEF IInv
    <2>2. \A y \in Stored \cup {Null} : Nodes(y) = Of(under, y) /\ Height(y) = Of(h, y)
        BY <2>1, RecursionAgrees
    <2>3. x \in Stored
        BY <2>1, <2>2 DEF Shape, Sound
    <2>4. /\ Of(h, x) \in Nat /\ Of(skew, x) \in {"none", "left", "right"}
          /\ \A s \in Side : Height(child[x][s]) = Of(h, x) - Drop(Of(skew, x), s)
        BY <2>1, <2>2, <2>3, HeightsAtRest, KidIs
    <2>5. /\ Height(child[x]["left"]) = Of(h, x) - IF skew[x] = "right" THEN 2 ELSE 1
          /\ Height(child[x]["right"]) = Of(h, x) - IF skew[x] = "left" THEN 2 ELSE 1
        BY <2>4 DEF Side, Drop, Mirror, Of
    <2> QED
        BY <2>4, <2>5 DEF Of
<1> QED
    BY <1>1, AvlInvariant, PTL

\* insert keeps the first entry of every name, and rebalancing loses none.
THEOREM TheFirstOfEachNameStays == Spec => []FirstOfEachName
<1>1. IInv => FirstOfEachName
    <2> SUFFICES ASSUME IInv, pc = "idle"
                 PROVE  Nodes(root) = first
        BY DEF FirstOfEachName
    <2>1. PICK under, h : Sound(under, h)
        BY DEF IInv
    <2>2. root \in Stored \cup {Null} /\ Of(under, root) = Stored
        BY <2>1 DEF Sound, Shape
    <2>3. Nodes(root) = Stored
        BY <2>1, <2>2, RecursionAgrees
    <2> QED
        BY <2>3 DEF IInv, FirstInv
<1> QED
    BY <1>1, AvlInvariant, PTL
===============================================================================
