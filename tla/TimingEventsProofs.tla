------------------------- MODULE TimingEventsProofs -------------------------
(***************************************************************************)
(* Proofs about the scheduler.  That the list is sorted is not a fact of   *)
(* each event and its neighbours alone: the search for the place of an     *)
(* event comes to an end, and finds the right one, because the list is one *)
(* line from the head to the tail.  The inductive invariant says so with   *)
(* positions: there are numbers, one per event, that rise along "next" and *)
(* fall along "prev", with no active event between two neighbours.  The    *)
(* two directions are treated alike: an end of the list, the links from    *)
(* there, and the positions, or their negatives.                           *)
(*                                                                         *)
(* The searches are recursive functions.  That such a function exists, and *)
(* where it ends up, is shown without the library's induction rules, by    *)
(* the least counterexample in a set of distances to the end of the list.  *)
(***************************************************************************)
EXTENDS TimingEvents, WellFoundedInduction, TLAPS

-----------------------------------------------------------------------------
(* Least and greatest numbers. *)

\* A set of naturals has a least element.
LEMMA LeastOf ==
  ASSUME NEW S \in SUBSET Nat, S # {}
  PROVE  \E m \in S : \A n \in S : m <= n
<1>1. IsWellFoundedOn(OpToRel(<, Nat), Nat)
  BY NatLessThanWellFounded
<1>2. PICK m \in S : \A n \in S : ~ (<<n, m>> \in OpToRel(<, Nat))
  BY <1>1, WFMin
<1>3. \A n \in S : ~(n < m)
  BY <1>2 DEF OpToRel
<1> QED
  BY <1>3

-----------------------------------------------------------------------------
(* A line of events. *)

Positions == [Events -> Int]
Negative(pos) == [x \in Events |-> 0 - pos[x]]

\* From the event "first" on, "succ" leads through all of S, in the order of
\* the positions, and then to NULL.
Line(S, first, succ, pos) ==
  /\ first \in S
  /\ \A x \in S : pos[first] <= pos[x]
  /\ \A x \in S : succ[x] \in S \cup {NULL}
  /\ \A x, y \in S : pos[x] = pos[y] => x = y
  /\ \A x, y \in S : pos[x] < pos[y] => succ[x] # NULL /\ pos[succ[x]] <= pos[y]
  /\ \A x \in S : succ[x] # NULL => pos[x] < pos[succ[x]]

\* A line without its event e, which comes after "before".
WithoutEvent(S, first, succ, pos, e, before, other, first2, succ2) ==
  /\ S \in SUBSET Events /\ pos \in Positions /\ Line(S, first, succ, pos)
  /\ e \in S /\ other \in S /\ other # e
  /\ IF before = NULL THEN e = first ELSE before \in S /\ succ[before] = e
  /\ first2 = IF before = NULL THEN succ[e] ELSE first
  /\ \A x \in S \ {e} : succ2[x] = IF x = before THEN succ[e] ELSE succ[x]

\* The line without the event is a line.
LEMMA LineWithout ==
  ASSUME NEW S, NEW first, NEW succ, NEW pos, NEW e, NEW before, NEW other, NEW first2, NEW succ2,
         WithoutEvent(S, first, succ, pos, e, before, other, first2, succ2)
  PROVE  Line(S \ {e}, first2, succ2, pos)
<1> USE DEF WithoutEvent
<1> USE DEF Positions
<1>1. NULL \notin S
  BY TimingAssumption
<1>2. \A x \in S : pos[x] \in Int
  OBVIOUS
<1>3. first2 \in S \ {e} /\ \A x \in S \ {e} : pos[first2] <= pos[x]
  <2>1. CASE before = NULL
    <3>1. pos[e] < pos[other]
      BY <2>1, <1>2 DEF Line
    <3>2. succ[e] \in S /\ pos[e] < pos[succ[e]]
      BY <3>1 DEF Line
    <3>3. \A x \in S \ {e} : pos[e] < pos[x]
      BY <2>1, <1>2 DEF Line
    <3> QED
      BY <2>1, <3>2, <3>3, <1>2 DEF Line
  <2>2. CASE before # NULL
    <3>1. pos[before] < pos[e] /\ pos[first] <= pos[before]
      BY <2>2, <1>1 DEF Line
    <3>2. first # e
      BY <3>1, <2>2, <1>2
    <3> QED
      BY <2>2, <3>2 DEF Line
  <2> QED
    BY <2>1, <2>2
<1>4. ASSUME NEW x \in S \ {e}
      PROVE  /\ succ2[x] \in (S \ {e}) \cup {NULL}
             /\ succ2[x] # NULL => pos[x] < pos[succ2[x]]
             /\ \A y \in S \ {e} : pos[x] < pos[y] => succ2[x] # NULL /\ pos[succ2[x]] <= pos[y]
  <2>1. CASE x = before
    <3>1. succ2[x] = succ[e] /\ succ[x] = e /\ pos[x] < pos[e]
      BY <2>1, <1>1 DEF Line
    <3>2. succ[e] \in (S \ {e}) \cup {NULL} /\ (succ[e] # NULL => pos[e] < pos[succ[e]])
      BY <1>2 DEF Line
    <3>3. \A y \in S \ {e} : pos[x] < pos[y] => pos[e] < pos[y]
      BY <3>1, <1>1, <1>2 DEF Line
    <3> QED
      BY <3>1, <3>2, <3>3, <1>2 DEF Line
  <2>2. CASE x # before
    <3>1. succ2[x] = succ[x]
      BY <2>2
    <3>2. succ[x] # e
      <4>1. SUFFICES ASSUME succ[x] = e PROVE FALSE
        OBVIOUS
      <4>2. pos[x] < pos[e]
        BY <4>1, <1>1 DEF Line
      <4>3. before # NULL
        BY <4>2, <1>2 DEF Line
      <4>4. before \in S /\ succ[before] = e /\ pos[before] < pos[e]
        BY <4>3, <1>1 DEF Line
      <4>5. ~(pos[x] < pos[before]) /\ ~(pos[before] < pos[x])
        BY <4>1, <4>2, <4>4, <1>2 DEF Line
      <4> QED
        BY <4>4, <4>5, <2>2, <1>2 DEF Line
    <3> QED
      BY <3>1, <3>2 DEF Line
  <2> QED
    BY <2>1, <2>2
<1> QED
  BY <1>3, <1>4 DEF Line

\* A line with an event e linked between "before" and "after".
WithEvent(S, first, succ, pos, e, before, after, pos2, succ2) ==
  /\ S \in SUBSET Events /\ pos \in Positions /\ Line(S, first, succ, pos)
  /\ e \in Events \ S /\ before \in S \cup {NULL}
  /\ after = IF before = NULL THEN first ELSE succ[before]
  /\ pos2 \in Positions
  /\ \A x, y \in S : pos[x] < pos[y] <=> pos2[x] < pos2[y]
  /\ \A x \in S : pos2[x] # pos2[e]
  /\ \A x \in S : pos2[x] < pos2[e] <=> before # NULL /\ pos[x] <= pos[before]
  /\ \A x \in S \cup {e} : succ2[x] = IF x = e THEN after ELSE IF x = before THEN e ELSE succ[x]

\* The line with the event is a line.
LEMMA LineWith ==
  ASSUME NEW S, NEW first, NEW succ, NEW pos, NEW e, NEW before, NEW after, NEW pos2, NEW succ2,
         WithEvent(S, first, succ, pos, e, before, after, pos2, succ2)
  PROVE  Line(S \cup {e}, IF before = NULL THEN e ELSE first, succ2, pos2)
<1> USE DEF WithEvent
<1> USE DEF Positions
<1>1. NULL \notin S /\ e # NULL
  BY TimingAssumption
<1>2. (\A x \in S \cup {e} : pos2[x] \in Int) /\ \A x \in S : pos[x] \in Int
  OBVIOUS
<1>3. \A x, y \in S : pos2[x] <= pos2[y] <=> pos[x] <= pos[y]
  BY <1>2
<1>4. \A x, y \in S \cup {e} : pos2[x] = pos2[y] => x = y
  <2>1. \A x, y \in S : pos2[x] = pos2[y] => x = y
    BY <1>2 DEF Line
  <2> QED
    BY <2>1
<1>5. LET h == IF before = NULL THEN e ELSE first
      IN  h \in S \cup {e} /\ \A x \in S \cup {e} : pos2[h] <= pos2[x]
  <2>1. CASE before = NULL
    BY <2>1, <1>2
  <2>2. CASE before # NULL
    <3>1. first \in S /\ pos[first] <= pos[before]
      BY <2>2 DEF Line
    <3>2. pos2[first] < pos2[e]
      BY <2>2, <3>1
    <3> QED
      BY <2>2, <3>1, <3>2, <1>2, <1>3 DEF Line
  <2> QED
    BY <2>1, <2>2
<1>6. ASSUME NEW x \in S \cup {e}
      PROVE  /\ succ2[x] \in S \cup {e} \cup {NULL}
             /\ succ2[x] # NULL => pos2[x] < pos2[succ2[x]]
             /\ \A y \in S \cup {e} : pos2[x] < pos2[y] => succ2[x] # NULL /\ pos2[succ2[x]] <= pos2[y]
  <2>1. CASE x = e
    <3>1. succ2[x] = after /\ after \in S \cup {NULL}
      BY <2>1 DEF Line
    <3>2. after # NULL => pos2[e] < pos2[after]
      <4>1. CASE before = NULL
        BY <4>1, <3>1, <1>2
      <4>2. CASE before # NULL
        BY <4>2, <3>1, <1>2 DEF Line
      <4> QED
        BY <4>1, <4>2
    <3>3. ASSUME NEW y \in S, pos2[e] < pos2[y] PROVE after # NULL /\ pos2[after] <= pos2[y]
      <4>1. before = NULL \/ pos[before] < pos[y]
        BY <3>3, <1>2
      <4>2. after # NULL /\ pos[after] <= pos[y]
        BY <4>1, <1>1 DEF Line
      <4> QED
        BY <4>2, <3>1, <1>3
    <3> QED
      BY <2>1, <3>1, <3>2, <3>3, <1>2
  <2>2. CASE x = before
    <3>1. x \in S /\ succ2[x] = e /\ pos2[x] < pos2[e]
      BY <2>2, <1>1, <1>2
    <3>2. ASSUME NEW y \in S, pos2[x] < pos2[y] PROVE pos2[e] <= pos2[y]
      BY <3>2, <3>1, <2>2, <1>1, <1>2
    <3> QED
      BY <3>1, <3>2, <1>1, <1>2
  <2>3. CASE x # e /\ x # before
    <3>1. x \in S /\ succ2[x] = succ[x]
      BY <2>3
    <3>2. succ[x] # NULL => succ[x] \in S /\ pos2[x] < pos2[succ[x]]
      BY <3>1 DEF Line
    <3>3. succ[x] \in S \cup {NULL}
      BY <3>1 DEF Line
    <3>4. ASSUME NEW y \in S, pos2[x] < pos2[y] PROVE succ[x] # NULL /\ pos2[succ[x]] <= pos2[y]
      <4>1. pos[x] < pos[y]
        BY <3>4, <3>1
      <4>2. succ[x] # NULL /\ pos[succ[x]] <= pos[y]
        BY <4>1, <3>1 DEF Line
      <4> QED
        BY <4>2, <3>3, <1>3
    <3>5. ASSUME pos2[x] < pos2[e] PROVE succ[x] # NULL /\ pos2[succ[x]] <= pos2[e]
      <4>1. before \in S /\ pos[x] <= pos[before]
        BY <3>5, <3>1
      <4>2. pos[x] < pos[before]
        BY <4>1, <2>3, <3>1, <1>2 DEF Line
      <4>3. succ[x] # NULL /\ pos[succ[x]] <= pos[before]
        BY <4>1, <4>2, <3>1 DEF Line
      <4> QED
        BY <4>3, <3>3, <4>1, <1>1, <1>2
    <3> QED
      BY <3>1, <3>2, <3>3, <3>4, <3>5
  <2> QED
    BY <2>1, <2>2, <2>3
<1> QED
  BY <1>4, <1>5, <1>6 DEF Line

-----------------------------------------------------------------------------
(* Searching a line. *)

\* f leads from every event to the first one from there on that is in Z.
IsSearch(f, Z, succ) == f = [y \in Ref |-> IF y \in Z THEN y ELSE f[succ[y]]]

\* A nonempty part of a line has a first event.
LEMMA FirstOf ==
  ASSUME NEW S \in SUBSET Events, NEW first, NEW succ, NEW pos \in Positions, Line(S, first, succ, pos),
         NEW T \in SUBSET S, T # {}
  PROVE  \E z \in T : \A u \in T : pos[z] <= pos[u]
<1> DEFINE D == {pos[z] - pos[first] : z \in T}
<1>1. (\A x \in S : pos[x] \in Int) /\ first \in S
  BY DEF Positions, Line
<1>2. D \in SUBSET Nat /\ D # {}
  BY <1>1 DEF Line
<1>3. PICK m \in D : \A n \in D : m <= n
  BY <1>2, LeastOf
<1>4. PICK z \in T : m = pos[z] - pos[first]
  BY <1>3
<1>5. \A u \in T : pos[z] - pos[first] <= pos[u] - pos[first]
  BY <1>3, <1>4
<1>6. \A u \in T : pos[z] <= pos[u]
  BY <1>1, <1>5
<1> QED
  BY <1>6

\* A search exists: it leads to the first event of Z from there on.
LEMMA SearchExists ==
  ASSUME NEW S \in SUBSET Events, NEW first, NEW succ \in [Events -> Ref], NEW pos \in Positions,
         Line(S, first, succ, pos), \A y \in Events \ S : succ[y] = NULL,
         NEW Z \in SUBSET Ref, NULL \in Z
  PROVE  \E f : IsSearch(f, Z, succ)
<1> DEFINE Later(y) == {z \in S \cap Z : pos[y] < pos[z]}
           Nearest(T) == CHOOSE z \in T : \A u \in T : pos[z] <= pos[u]
           g == [y \in Ref |-> IF y \in Z THEN y ELSE IF y \notin S \/ Later(y) = {} THEN NULL
                               ELSE Nearest(Later(y))]
<1>1. NULL \notin Events /\ NULL \in Ref /\ Events \subseteq Ref /\ (\A x \in S : pos[x] \in Int)
  BY TimingAssumption DEF Ref, Positions
<1>2. ASSUME NEW y \in Ref, y \notin Z PROVE g[y] = g[succ[y]]
  <2>1. y \in Events /\ succ[y] \in Ref
    BY <1>2, <1>1 DEF Ref
  <2>2. CASE y \notin S
    <3>1. g[y] = NULL /\ succ[y] = NULL
      BY <2>1, <2>2, <1>2
    <3> QED
      BY <3>1, <1>1
  <2>3. CASE y \in S /\ succ[y] = NULL
    <3>1. Later(y) = {}
      BY <2>3 DEF Line
    <3> QED
      BY <3>1, <2>3, <1>2, <1>1
  <2>4. CASE y \in S /\ succ[y] # NULL
    <3> DEFINE m == succ[y]
    <3>1. m \in S /\ pos[y] < pos[m] /\ \A u \in S : pos[y] < pos[u] => pos[m] <= pos[u]
      BY <2>4 DEF Line
    <3> HIDE DEF m
    <3>2. CASE m \in Z
      <4>1. m \in Later(y) /\ \A u \in Later(y) : pos[m] <= pos[u]
        BY <3>1, <3>2
      <4>2. \A z \in Later(y) : (\A u \in Later(y) : pos[z] <= pos[u]) => z = m
        <5>1. SUFFICES ASSUME NEW z \in Later(y), \A u \in Later(y) : pos[z] <= pos[u] PROVE z = m
          OBVIOUS
        <5>2. pos[z] = pos[m]
          BY <4>1, <5>1, <3>1, <1>1
        <5> QED
          BY <5>2, <3>1 DEF Line
      <4>3. Nearest(Later(y)) = m
        BY <4>1, <4>2
      <4>4. g[y] = m /\ g[m] = m
        BY <4>1, <4>3, <2>4, <3>1, <3>2, <1>1, <1>2
      <4> QED
        BY <4>4 DEF m
    <3>3. CASE m \notin Z
      <4>1. \A u \in S \cap Z : pos[y] < pos[u] => pos[m] < pos[u]
        BY <3>1, <3>3, <1>1 DEF Line
      <4>2. \A u \in S \cap Z : pos[m] < pos[u] => pos[y] < pos[u]
        BY <3>1, <2>4, <1>1
      <4>3. Later(y) = Later(m)
        BY <4>1, <4>2
      <4> HIDE DEF Later
      <4>4. /\ g[y] = IF Later(y) = {} THEN NULL ELSE Nearest(Later(y))
            /\ g[m] = IF Later(m) = {} THEN NULL ELSE Nearest(Later(m))
        BY <2>4, <3>1, <3>3, <1>1, <1>2
      <4> HIDE DEF Nearest, g
      <4>5. g[y] = g[m]
        BY <4>3, <4>4
      <4> QED
        BY <4>5 DEF m
    <3> QED
      BY <3>2, <3>3
  <2> QED
    BY <2>2, <2>3, <2>4
<1>3. \A y \in Z : g[y] = y
  BY <1>1
<1>4. g = [y \in Ref |-> g[y]]
  OBVIOUS
<1> HIDE DEF g
<1>5. \A y \in Ref : g[y] = IF y \in Z THEN y ELSE g[succ[y]]
  BY <1>2, <1>3
<1>6. g = [y \in Ref |-> IF y \in Z THEN y ELSE g[succ[y]]]
  BY <1>4, <1>5
<1> QED
  BY <1>6 DEF IsSearch

\* And every search does.
Searches(f, x, Z, S, first, succ, pos, last) ==
  /\ S \in SUBSET Events /\ succ \in [Events -> Ref] /\ pos \in Positions /\ Line(S, first, succ, pos)
  /\ last \in S /\ \A y \in S : pos[y] <= pos[last]
  /\ Z \in SUBSET Ref /\ NULL \in Z /\ IsSearch(f, Z, succ) /\ x \in S

\* A search leads to an event of Z, or to NULL, and passes none of Z over.
LEMMA SearchFinds ==
  ASSUME NEW S, NEW first, NEW succ, NEW pos, NEW last, NEW Z, NEW f, NEW x,
         Searches(f, x, Z, S, first, succ, pos, last)
  PROVE  /\ f[x] \in Z /\ f[x] \in S \cup {NULL}
         /\ f[x] # NULL => pos[x] <= pos[f[x]]
         /\ \A y \in S : pos[x] <= pos[y] /\ (f[x] # NULL => pos[y] < pos[f[x]]) => y \notin Z
<1> USE DEF Searches
<1> DEFINE P(v) == /\ f[v] \in Z /\ f[v] \in S \cup {NULL}
                   /\ f[v] # NULL => pos[v] <= pos[f[v]]
                   /\ \A y \in S : pos[v] <= pos[y] /\ (f[v] # NULL => pos[y] < pos[f[v]]) => y \notin Z
           Bad == {v \in S : ~P(v)}
           D == {pos[last] - pos[v] : v \in Bad}
<1>1. NULL \notin Events /\ NULL \in Ref /\ Events \subseteq Ref /\ (\A v \in S : pos[v] \in Int)
  BY TimingAssumption DEF Ref, Positions
<1>2. f[NULL] = NULL
  BY <1>1 DEF IsSearch
<1>3. SUFFICES ASSUME Bad # {} PROVE FALSE
  OBVIOUS
<1>4. D \in SUBSET Nat /\ D # {}
  BY <1>1, <1>3
<1>5. PICK m \in D : \A n \in D : m <= n
  BY <1>4, LeastOf
<1>6. PICK v \in Bad : m = pos[last] - pos[v]
  BY <1>5
<1>7. \A u \in Bad : pos[u] <= pos[v]
  <2>1. \A u \in Bad : pos[last] - pos[v] <= pos[last] - pos[u]
    BY <1>5, <1>6
  <2> QED
    BY <2>1, <1>1
<1>8. v \in S /\ v \in Ref
  BY <1>1
<1>9. CASE v \in Z
  <2>1. f[v] = v
    BY <1>8, <1>9 DEF IsSearch
  <2> QED
    BY <2>1, <1>8, <1>9, <1>1
<1>10. CASE v \notin Z /\ succ[v] = NULL
  <2>1. f[v] = NULL
    BY <1>2, <1>8, <1>10 DEF IsSearch
  <2>2. \A y \in S : pos[v] <= pos[y] => y = v
    BY <1>8, <1>10, <1>1 DEF Line
  <2> QED
    BY <2>1, <2>2, <1>10
<1>11. CASE v \notin Z /\ succ[v] # NULL
  <2>1. f[v] = f[succ[v]]
    BY <1>8, <1>11 DEF IsSearch
  <2>2. succ[v] \in S /\ pos[v] < pos[succ[v]] /\ \A y \in S : pos[v] < pos[y] => pos[succ[v]] <= pos[y]
    BY <1>8, <1>11 DEF Line
  <2>3. succ[v] \notin Bad
    BY <2>2, <1>7, <1>8, <1>1
  <2>4. P(succ[v])
    BY <2>2, <2>3
  <2>5. \A y \in S : pos[v] <= pos[y] => y = v \/ pos[succ[v]] <= pos[y]
    BY <2>2, <1>8, <1>1 DEF Line
  <2>6. P(v)
    BY <2>1, <2>2, <2>4, <2>5, <1>8, <1>11, <1>1
  <2> QED
    BY <2>6
<1> QED
  BY <1>9, <1>10, <1>11

-----------------------------------------------------------------------------
(* The list, in both directions. *)

Chain(S, h, t, p, n, pos) == Line(S, h, n, pos) /\ Line(S, t, p, Negative(pos))

InOrder(S, time, pos) == \A x, y \in S : pos[x] < pos[y] => time[x] <= time[y]

\* Negative positions are positions.
LEMMA NegativeType ==
  ASSUME NEW pos \in Positions
  PROVE  /\ Negative(pos) \in Positions
         /\ \A x \in Events : Negative(pos)[x] = 0 - pos[x] /\ pos[x] \in Int
  BY DEF Negative, Positions

\* Neighbours point at each other, and only the ends have none.
InChain(x, S, h, t, p, n, pos) ==
  S \in SUBSET Events /\ pos \in Positions /\ Chain(S, h, t, p, n, pos) /\ x \in S

\* What a chain says of an event in it.
LEMMA Neighbours ==
  ASSUME NEW S, NEW h, NEW t, NEW p, NEW n, NEW pos, NEW x, InChain(x, S, h, t, p, n, pos)
  PROVE  /\ pos[h] <= pos[x] /\ pos[x] <= pos[t] /\ h \in S /\ t \in S
         /\ n[x] \in S \cup {NULL} /\ p[x] \in S \cup {NULL}
         /\ n[x] = NULL <=> x = t
         /\ p[x] = NULL <=> x = h
         /\ n[x] # NULL => p[n[x]] = x /\ pos[x] < pos[n[x]]
         /\ p[x] # NULL => n[p[x]] = x /\ pos[p[x]] < pos[x]
         /\ \A y \in S : pos[x] < pos[y] => n[x] # NULL /\ pos[n[x]] <= pos[y]
         /\ \A y \in S : pos[y] < pos[x] => p[x] # NULL /\ pos[y] <= pos[p[x]]
<1> USE DEF InChain
<1>1. \A y \in S : Negative(pos)[y] = 0 - pos[y] /\ pos[y] \in Int
  BY NegativeType
<1>2. NULL \notin S
  BY TimingAssumption
<1>3. Line(S, h, n, pos) /\ Line(S, t, p, Negative(pos))
  BY DEF Chain
<1>4. \A u \in S : pos[h] <= pos[u] /\ pos[u] <= pos[t]
  BY <1>1, <1>3 DEF Line
<1>5. \A u \in S : /\ n[u] \in S \cup {NULL}
                   /\ n[u] # NULL => pos[u] < pos[n[u]]
                   /\ \A y \in S : pos[u] < pos[y] => n[u] # NULL /\ pos[n[u]] <= pos[y]
  BY <1>3 DEF Line
<1>6. \A u \in S : /\ p[u] \in S \cup {NULL}
                   /\ p[u] # NULL => pos[p[u]] < pos[u]
                   /\ \A y \in S : pos[y] < pos[u] => p[u] # NULL /\ pos[y] <= pos[p[u]]
  <2> TAKE u \in S
  <2>1. p[u] \in S \cup {NULL}
    BY <1>3 DEF Line
  <2>2. p[u] # NULL => pos[p[u]] < pos[u]
    BY <1>1, <1>3, <2>1 DEF Line
  <2>3. ASSUME NEW y \in S, pos[y] < pos[u] PROVE p[u] # NULL /\ pos[y] <= pos[p[u]]
    <3>1. Negative(pos)[u] < Negative(pos)[y]
      BY <2>3, <1>1
    <3>2. p[u] # NULL /\ Negative(pos)[p[u]] <= Negative(pos)[y]
      BY <3>1, <1>3 DEF Line
    <3> QED
      BY <3>2, <2>1, <1>1
  <2> QED
    BY <2>1, <2>2, <2>3
<1>7. \A u, v \in S : pos[u] = pos[v] => u = v
  BY <1>3 DEF Line
<1>8. h \in S /\ t \in S
  BY <1>3 DEF Line
<1>9. n[x] = NULL <=> x = t
  BY <1>1, <1>4, <1>5, <1>7, <1>8
<1>10. p[x] = NULL <=> x = h
  BY <1>1, <1>4, <1>6, <1>7, <1>8
<1>11. n[x] # NULL => p[n[x]] = x
  <2>1. SUFFICES ASSUME n[x] # NULL PROVE p[n[x]] = x
    OBVIOUS
  <2>2. n[x] \in S /\ pos[x] < pos[n[x]]
    BY <2>1, <1>5
  <2>3. p[n[x]] \in S /\ pos[x] <= pos[p[n[x]]] /\ pos[p[n[x]]] < pos[n[x]]
    BY <2>2, <1>6
  <2>4. ~(pos[x] < pos[p[n[x]]])
    BY <2>2, <2>3, <1>1, <1>5
  <2> QED
    BY <2>3, <2>4, <1>1, <1>7
<1>12. p[x] # NULL => n[p[x]] = x
  <2>1. SUFFICES ASSUME p[x] # NULL PROVE n[p[x]] = x
    OBVIOUS
  <2>2. p[x] \in S /\ pos[p[x]] < pos[x]
    BY <2>1, <1>6
  <2>3. n[p[x]] \in S /\ pos[n[p[x]]] <= pos[x] /\ pos[p[x]] < pos[n[p[x]]]
    BY <2>2, <1>5
  <2>4. ~(pos[n[p[x]]] < pos[x])
    BY <2>2, <2>3, <1>1, <1>6
  <2> QED
    BY <2>3, <2>4, <1>1, <1>7
<1> QED
  BY <1>4, <1>5, <1>6, <1>8, <1>9, <1>10, <1>11, <1>12

\* The list, as the variables hold it, whatever the times.
Listed(pos) ==
  /\ active \subseteq Events /\ prev \in [Events -> Ref] /\ next \in [Events -> Ref]
  /\ pos \in Positions
  /\ Chain(active, head, tail, prev, next, pos)
  /\ \A e \in Events \ active : prev[e] = NULL /\ next[e] = NULL

\* The search forwards.
LEMMA NotBeforeFinds ==
  ASSUME NEW pos, Listed(pos), NEW time \in [Events -> Nat], NEW t \in Nat, NEW x \in active
  PROVE  LET w == NotBefore(time, t, x)
         IN  /\ w \in active \cup {NULL}
             /\ w # NULL => time[w] >= t /\ pos[x] <= pos[w]
             /\ \A y \in active : pos[x] <= pos[y] /\ (w # NULL => pos[y] < pos[w]) => time[y] < t
<1> DEFINE Z == {y \in Ref : y = NULL \/ time[y] >= t}
           W == CHOOSE walk : walk = [y \in Ref |-> IF y = NULL \/ time[y] >= t THEN y ELSE walk[next[y]]]
<1>1. NULL \in Ref /\ NULL \in Z /\ NULL \notin Events
  BY TimingAssumption DEF Ref
<1>2. active \in SUBSET Events /\ next \in [Events -> Ref] /\ pos \in Positions /\ Z \in SUBSET Ref
  BY DEF Listed
<1>3. Line(active, head, next, pos) /\ \A y \in Events \ active : next[y] = NULL
  BY DEF Listed, Chain
<1>3a. Chain(active, head, tail, prev, next, pos)
  BY DEF Listed
<1>4. tail \in active /\ \A y \in active : pos[y] <= pos[tail]
  <2>1. tail \in active
    BY <1>3a DEF Chain, Line
  <2>2. ASSUME NEW y \in active PROVE pos[y] <= pos[tail]
    BY <1>2, <1>3a, NegativeType DEF Chain, Line
  <2> QED
    BY <2>1, <2>2
<1>5. \E f : IsSearch(f, Z, next)
  BY <1>1, <1>2, <1>3, SearchExists
<1>6. \A f : IsSearch(f, Z, next) <=> f = [y \in Ref |-> IF y = NULL \/ time[y] >= t THEN y ELSE f[next[y]]]
  BY DEF IsSearch
<1>7. IsSearch(W, Z, next)
  BY <1>5, <1>6
<1>8. NotBefore(time, t, x) = W[x]
  BY DEF NotBefore
<1> HIDE DEF W
<1>9. /\ W[x] \in Z /\ W[x] \in active \cup {NULL}
      /\ W[x] # NULL => pos[x] <= pos[W[x]]
      /\ \A y \in active : pos[x] <= pos[y] /\ (W[x] # NULL => pos[y] < pos[W[x]]) => y \notin Z
  <2> HIDE DEF Z
  <2>1. Line(active, head, next, pos) /\ IsSearch(W, Z, next)
    BY <1>3, <1>7
  <2>2. Searches(W, x, Z, active, head, next, pos, tail)
    BY <1>1, <1>2, <1>4, <2>1 DEF Searches
  <2> QED
    BY <2>2, SearchFinds
<1>10. \A y \in active : y \notin Z => time[y] < t
  BY <1>2 DEF Ref
<1>11. W[x] # NULL => time[W[x]] >= t
  BY <1>9
<1> QED
  BY <1>8, <1>9, <1>10, <1>11

\* The search backwards.
LEMMA NotAfterFinds ==
  ASSUME NEW pos, Listed(pos), NEW time \in [Events -> Nat], NEW t \in Nat, NEW x \in active
  PROVE  LET w == NotAfter(time, t, x)
         IN  /\ w \in active \cup {NULL}
             /\ w # NULL => time[w] <= t /\ pos[w] <= pos[x]
             /\ \A y \in active : pos[y] <= pos[x] /\ (w # NULL => pos[w] < pos[y]) => time[y] > t
<1> DEFINE Z == {y \in Ref : y = NULL \/ time[y] <= t}
           W == CHOOSE walk : walk = [y \in Ref |-> IF y = NULL \/ time[y] <= t THEN y ELSE walk[prev[y]]]
           neg == Negative(pos)
<1>1. NULL \in Ref /\ NULL \in Z /\ NULL \notin Events
  BY TimingAssumption DEF Ref
<1>2. active \in SUBSET Events /\ prev \in [Events -> Ref] /\ pos \in Positions /\ Z \in SUBSET Ref
  BY DEF Listed
<1>2a. neg \in Positions /\ \A y \in active : neg[y] = 0 - pos[y] /\ pos[y] \in Int
  BY <1>2, NegativeType
<1>3a. Chain(active, head, tail, prev, next, pos)
  BY DEF Listed
<1>3. Line(active, tail, prev, neg) /\ \A y \in Events \ active : prev[y] = NULL
  BY DEF Listed, Chain
<1>4. head \in active /\ \A y \in active : neg[y] <= neg[head]
  <2>1. head \in active /\ \A y \in active : pos[head] <= pos[y]
    BY <1>3a DEF Chain, Line
  <2> QED
    BY <2>1, <1>2a
<1> HIDE DEF neg
<1>5. \E f : IsSearch(f, Z, prev)
  BY <1>1, <1>2, <1>2a, <1>3, SearchExists
<1>6. \A f : IsSearch(f, Z, prev) <=> f = [y \in Ref |-> IF y = NULL \/ time[y] <= t THEN y ELSE f[prev[y]]]
  BY DEF IsSearch
<1>7. IsSearch(W, Z, prev)
  BY <1>5, <1>6
<1>8. NotAfter(time, t, x) = W[x]
  BY DEF NotAfter
<1> HIDE DEF W
<1>9. /\ W[x] \in Z /\ W[x] \in active \cup {NULL}
      /\ W[x] # NULL => neg[x] <= neg[W[x]]
      /\ \A y \in active : neg[x] <= neg[y] /\ (W[x] # NULL => neg[y] < neg[W[x]]) => y \notin Z
  <2> HIDE DEF Z
  <2>1. Line(active, tail, prev, neg) /\ IsSearch(W, Z, prev)
    BY <1>3, <1>7
  <2>2. Searches(W, x, Z, active, tail, prev, neg, head)
    BY <1>1, <1>2, <1>2a, <1>4, <2>1 DEF Searches
  <2> QED
    BY <2>2, SearchFinds
<1>10. \A y \in active : y \notin Z => time[y] > t
  BY <1>2 DEF Ref
<1>11. W[x] # NULL => time[W[x]] <= t /\ W[x] \in active
  BY <1>9
<1> QED
  BY <1>2a, <1>8, <1>9, <1>10, <1>11

-----------------------------------------------------------------------------
(* Unlinking and linking. *)

\* An event is unlinked.
LEMMA Unlinked ==
  ASSUME NEW pos, Listed(pos), NEW e \in active, NEW other \in active, other # e,
         NEW p \in [Events -> Ref], NEW n \in [Events -> Ref],
         \A x \in active \ {e} : p[x] = PrevWithout(e)[x] /\ n[x] = NextWithout(e)[x]
  PROVE  Chain(active \ {e}, HeadWithout(e), TailWithout(e), p, n, pos)
<1>1. /\ active \in SUBSET Events /\ next \in [Events -> Ref] /\ prev \in [Events -> Ref]
      /\ pos \in Positions /\ Chain(active, head, tail, prev, next, pos)
      /\ Negative(pos) \in Positions
  BY NegativeType DEF Listed
<1>2. NULL \notin Events
  BY TimingAssumption
<1>3. \A x \in active : p[x] = (IF x = next[e] THEN prev[e] ELSE prev[x]) \/ x = e
  BY <1>1 DEF PrevWithout
<1>4. \A x \in active : n[x] = (IF x = prev[e] THEN next[e] ELSE next[x]) \/ x = e
  BY <1>1 DEF NextWithout
<1>5. /\ prev[e] = NULL => e = head
      /\ prev[e] # NULL => prev[e] \in active /\ next[prev[e]] = e
      /\ next[e] = NULL => e = tail
      /\ next[e] # NULL => next[e] \in active /\ prev[next[e]] = e
  <2>1. InChain(e, active, head, tail, prev, next, pos)
    BY <1>1 DEF InChain
  <2> QED
    BY <2>1, Neighbours
<1>6. Line(active \ {e}, HeadWithout(e), n, pos)
  <2> DEFINE b == prev[e]
             h == HeadWithout(e)
  <2>1. Line(active, head, next, pos)
    BY <1>1 DEF Chain
  <2>2. IF b = NULL THEN e = head ELSE b \in active /\ next[b] = e
    BY <1>5
  <2>3. h = (IF b = NULL THEN next[e] ELSE head)
    BY DEF HeadWithout
  <2>4. \A x \in active \ {e} : n[x] = IF x = b THEN next[e] ELSE next[x]
    BY <1>4
  <2> HIDE DEF b, h
  <2>5. WithoutEvent(active, head, next, pos, e, b, other, h, n)
    BY <1>1, <2>1, <2>2, <2>3, <2>4 DEF WithoutEvent
  <2>6. Line(active \ {e}, h, n, pos)
    BY <2>5, LineWithout
  <2> QED
    BY <2>6 DEF h
<1>7. Line(active \ {e}, TailWithout(e), p, Negative(pos))
  <2> DEFINE b == next[e]
             t == TailWithout(e)
             neg == Negative(pos)
  <2>1. Line(active, tail, prev, neg) /\ neg \in Positions
    BY <1>1 DEF Chain
  <2>2. IF b = NULL THEN e = tail ELSE b \in active /\ prev[b] = e
    BY <1>5
  <2>3. t = (IF b = NULL THEN prev[e] ELSE tail)
    BY DEF TailWithout
  <2>4. \A x \in active \ {e} : p[x] = IF x = b THEN prev[e] ELSE prev[x]
    BY <1>3
  <2> HIDE DEF b, t, neg
  <2>5. WithoutEvent(active, tail, prev, neg, e, b, other, t, p)
    BY <1>1, <2>1, <2>2, <2>3, <2>4 DEF WithoutEvent
  <2>6. Line(active \ {e}, t, p, neg)
    BY <2>5, LineWithout
  <2> QED
    BY <2>6 DEF t, neg
<1> QED
  BY <1>6, <1>7 DEF Chain

\* "before" and "after" are neighbours in a chain, either of which is missing
\* at an end.
Between(S, before, after, h, t, p, n) ==
  /\ before \in S \cup {NULL} /\ after \in S \cup {NULL}
  /\ after = IF before = NULL THEN h ELSE n[before]
  /\ before = IF after = NULL THEN t ELSE p[after]

\* What LinkBetween assigns.
Link(e, before, after, h, t, p, n, h2, t2, p2, n2) ==
  /\ h2 = (IF before = NULL THEN e ELSE h) /\ t2 = (IF after = NULL THEN e ELSE t)
  /\ p2 = [x \in Events |-> IF x = e THEN before ELSE IF x = after THEN e ELSE p[x]]
  /\ n2 = [x \in Events |-> IF x = e THEN after ELSE IF x = before THEN e ELSE n[x]]

\* An event is linked where its time belongs.
LinkInOrder(S, h, t, p, n, pos, e, before, after, time, h2, t2, p2, n2) ==
  /\ S \in SUBSET Events /\ p \in [Events -> Ref] /\ n \in [Events -> Ref] /\ pos \in Positions
  /\ Chain(S, h, t, p, n, pos) /\ e \in Events \ S /\ Between(S, before, after, h, t, p, n)
  /\ time \in [Events -> Nat] /\ InOrder(S, time, pos)
  /\ before # NULL => time[before] <= time[e]
  /\ after # NULL => time[e] <= time[after]
  /\ Link(e, before, after, h, t, p, n, h2, t2, p2, n2)

Unchanged(T, p, n, p2, n2) == \A y \in T : p2[y] = p[y] /\ n2[y] = n[y]

\* The chain with the event is a chain, in order.
LEMMA Linked ==
  ASSUME NEW S, NEW h, NEW t, NEW p, NEW n, NEW pos, NEW e, NEW before, NEW after, NEW time,
         NEW h2, NEW t2, NEW p2, NEW n2,
         LinkInOrder(S, h, t, p, n, pos, e, before, after, time, h2, t2, p2, n2)
  PROVE  /\ \E pos2 \in Positions : Chain(S \cup {e}, h2, t2, p2, n2, pos2) /\ InOrder(S \cup {e}, time, pos2)
         /\ p2 \in [Events -> Ref] /\ n2 \in [Events -> Ref]
         /\ Unchanged(Events \ (S \cup {e}), p, n, p2, n2)
<1> USE DEF LinkInOrder
<1> DEFINE pos2 == [x \in Events |-> IF x # e THEN 2 * pos[x]
                                     ELSE IF before # NULL THEN 2 * pos[before] + 1
                                     ELSE 2 * pos[after] - 1]
<1>1. NULL \notin Events /\ Events \subseteq Ref /\ NULL \in Ref /\ (\A x \in S : pos[x] \in Int) /\ S \subseteq Events
  BY TimingAssumption DEF Ref, Positions
<1>2. before \in S \cup {NULL} /\ after \in S \cup {NULL} /\ (before = NULL => after \in S)
  BY DEF Between, Chain, Line
<1>3. pos2 \in Positions
  BY <1>1, <1>2 DEF Positions
<1>4. /\ \A x \in S : pos2[x] = 2 * pos[x]
      /\ before # NULL => pos2[e] = 2 * pos[before] + 1
      /\ before = NULL => pos2[e] = 2 * pos[after] - 1
  BY <1>1
<1> HIDE DEF pos2
<1>5. \A x, y \in S : pos[x] < pos[y] <=> pos2[x] < pos2[y]
  BY <1>1, <1>4
<1>6. \A x \in S : pos2[x] # pos2[e]
  BY <1>1, <1>2, <1>4
<1>7. \A x \in S : pos2[x] < pos2[e] <=> before # NULL /\ pos[x] <= pos[before]
  <2>1. CASE before # NULL
    BY <2>1, <1>1, <1>2, <1>4
  <2>2. CASE before = NULL
    <3>1. \A x \in S : pos[after] <= pos[x]
      BY <2>2, <1>2 DEF Between, Chain, Line
    <3> QED
      BY <2>2, <3>1, <1>1, <1>2, <1>4
  <2> QED
    BY <2>1, <2>2
<1>8. \A x \in S : pos2[e] < pos2[x] <=> after # NULL /\ pos[after] <= pos[x]
  <2>1. CASE before = NULL
    <3>1. \A x \in S : pos[after] <= pos[x]
      BY <2>1, <1>2 DEF Between, Chain, Line
    <3> QED
      BY <2>1, <3>1, <1>1, <1>2, <1>4
  <2>2. CASE before # NULL
    <3>1. \A x \in S : pos[before] < pos[x] <=> after # NULL /\ pos[after] <= pos[x]
      <4> TAKE x \in S
      <4>1. pos[before] < pos[x] => after # NULL /\ pos[after] <= pos[x]
        BY <2>2, <1>2 DEF Between, Chain, Line
      <4>2. after # NULL => pos[before] < pos[after] /\ after \in S
        BY <2>2, <1>2 DEF Between, Chain, Line
      <4> QED
        BY <4>1, <4>2, <2>2, <1>1, <1>2
    <3> QED
      BY <2>2, <3>1, <1>1, <1>2, <1>4
  <2> QED
    BY <2>1, <2>2
<1>9. /\ h2 = (IF before = NULL THEN e ELSE h) /\ t2 = (IF after = NULL THEN e ELSE t)
      /\ p2 = [x \in Events |-> IF x = e THEN before ELSE IF x = after THEN e ELSE p[x]]
      /\ n2 = [x \in Events |-> IF x = e THEN after ELSE IF x = before THEN e ELSE n[x]]
  BY DEF Link
<1>10. Line(S \cup {e}, h2, n2, pos2)
  <2>1. Line(S, h, n, pos) /\ after = (IF before = NULL THEN h ELSE n[before])
    BY DEF Chain, Between
  <2>2. \A x \in S \cup {e} : n2[x] = IF x = e THEN after ELSE IF x = before THEN e ELSE n[x]
    BY <1>1, <1>9
  <2>3. Line(S \cup {e}, IF before = NULL THEN e ELSE h, n2, pos2)
    <3>1. WithEvent(S, h, n, pos, e, before, after, pos2, n2)
      BY <1>2, <1>3, <1>5, <1>6, <1>7, <2>1, <2>2 DEF WithEvent
    <3> QED
      BY <3>1, LineWith
  <2> QED
    BY <2>3, <1>9
<1>11. Line(S \cup {e}, t2, p2, Negative(pos2))
  <2> DEFINE neg == Negative(pos)
             neg2 == Negative(pos2)
  <2>1. Line(S, t, p, neg) /\ before = (IF after = NULL THEN t ELSE p[after])
    BY DEF Chain, Between
  <2>2. \A x \in S \cup {e} : p2[x] = IF x = e THEN before ELSE IF x = after THEN e ELSE p[x]
    BY <1>1, <1>9
  <2>3. /\ neg \in Positions /\ neg2 \in Positions
        /\ \A x \in S : neg[x] = 0 - pos[x] /\ pos[x] \in Int
        /\ \A x \in S \cup {e} : neg2[x] = 0 - pos2[x] /\ pos2[x] \in Int
    BY <1>3, NegativeType
  <2> HIDE DEF neg, neg2
  <2>4. \A x, y \in S : neg[x] < neg[y] <=> neg2[x] < neg2[y]
    BY <2>3, <1>5
  <2>5. \A x \in S : neg2[x] # neg2[e]
    <3> TAKE x \in S
    <3>1. neg2[x] = 0 - pos2[x] /\ neg2[e] = 0 - pos2[e] /\ pos2[x] \in Int /\ pos2[e] \in Int
      BY <2>3
    <3>2. pos2[x] # pos2[e]
      BY <1>6
    <3> QED
      BY <3>1, <3>2
  <2>6. \A x \in S : neg2[x] < neg2[e] <=> after # NULL /\ neg[x] <= neg[after]
    BY <2>3, <1>2, <1>8
  <2>7. Line(S \cup {e}, IF after = NULL THEN e ELSE t, p2, neg2)
    <3>1. WithEvent(S, t, p, neg, e, after, before, neg2, p2)
      BY <1>2, <2>1, <2>2, <2>3, <2>4, <2>5, <2>6 DEF WithEvent
    <3> QED
      BY <3>1, LineWith
  <2> QED
    BY <2>7, <1>9 DEF neg2
<1>12. InOrder(S \cup {e}, time, pos2)
  <2> SUFFICES ASSUME NEW x \in S \cup {e}, NEW y \in S \cup {e}, pos2[x] < pos2[y]
               PROVE  time[x] <= time[y]
    BY DEF InOrder
  <2>0. \A u \in S \cup {e} : time[u] \in Nat /\ pos2[u] \in Int
    BY <1>3 DEF Positions
  <2>1. CASE x \in S /\ y \in S
    BY <2>1, <1>5 DEF InOrder
  <2>2. CASE x = e
    <3>1. y \in S /\ after \in S /\ pos[after] <= pos[y] /\ time[e] <= time[after]
      BY <2>0, <2>2, <1>2, <1>8
    <3>2. after = y \/ pos[after] < pos[y]
      BY <3>1, <1>1 DEF Chain, Line
    <3>3. time[after] <= time[y]
      BY <2>0, <3>1, <3>2 DEF InOrder
    <3> QED
      BY <2>0, <2>2, <3>1, <3>3
  <2>3. CASE y = e
    <3>1. x \in S /\ before \in S /\ pos[x] <= pos[before] /\ time[before] <= time[e]
      BY <2>0, <2>3, <1>2, <1>7
    <3>2. before = x \/ pos[x] < pos[before]
      BY <3>1, <1>1 DEF Chain, Line
    <3>3. time[x] <= time[before]
      BY <2>0, <3>1, <3>2 DEF InOrder
    <3> QED
      BY <2>0, <2>3, <3>1, <3>3
  <2> QED
    BY <2>1, <2>2, <2>3
<1>13. p2 \in [Events -> Ref] /\ n2 \in [Events -> Ref]
  BY <1>1, <1>2, <1>9
<1>14. \A y \in Events \ (S \cup {e}) : p2[y] = p[y] /\ n2[y] = n[y]
  BY <1>1, <1>2, <1>9
<1> QED
  BY <1>3, <1>10, <1>11, <1>12, <1>13, <1>14 DEF Chain, Unchanged

-----------------------------------------------------------------------------
(* The operations on the list keep it in order. *)

\* The list, after a step, in the order of the times given.
OrderedNext(time) == \E pos : Listed(pos)' /\ InOrder(active', time, pos)

\* Between the ends of a chain and the neighbours of an event in it.
LEMMA BetweenNeighbours ==
  ASSUME NEW S, NEW h, NEW t, NEW p, NEW n, NEW pos, S \in SUBSET Events, pos \in Positions,
         Chain(S, h, t, p, n, pos), NEW w \in S
  PROVE  /\ Between(S, w, n[w], h, t, p, n)
         /\ Between(S, p[w], w, h, t, p, n)
         /\ Between(S, NULL, h, h, t, p, n)
         /\ Between(S, t, NULL, h, t, p, n)
<1>1. NULL \notin S /\ h \in S /\ t \in S
  BY TimingAssumption DEF Chain, Line
<1>2. InChain(w, S, h, t, p, n, pos) /\ InChain(h, S, h, t, p, n, pos) /\ InChain(t, S, h, t, p, n, pos)
  BY <1>1 DEF InChain
<1>3. /\ n[w] \in S \cup {NULL} /\ p[w] \in S \cup {NULL}
      /\ n[w] = NULL <=> w = t
      /\ p[w] = NULL <=> w = h
      /\ n[w] # NULL => p[n[w]] = w
      /\ p[w] # NULL => n[p[w]] = w
  BY <1>2, Neighbours
<1>4. n[t] = NULL /\ p[h] = NULL
  BY <1>2, Neighbours
<1> QED
  BY <1>1, <1>3, <1>4 DEF Between

\* Adding an event.
LEMMA AddKeepsOrder ==
  ASSUME NEW pos, Listed(pos), NEW time \in [Events -> Nat], InOrder(active, time, pos),
         NEW e \in Events \ active, active' = active \cup {e}, AddActiveEvent(e, time)
  PROVE  OrderedNext(time)
<1> DEFINE after == NotBefore(time, time[e], head)
           before == IF after = NULL THEN tail ELSE prev[after]
<1>1. /\ active \in SUBSET Events /\ next \in [Events -> Ref] /\ prev \in [Events -> Ref]
      /\ pos \in Positions /\ Chain(active, head, tail, prev, next, pos)
  BY DEF Listed
<1>2. head \in active /\ tail \in active /\ \A y \in active : pos[head] <= pos[y]
  BY <1>1 DEF Chain, Line
<1>3. Link(e, before, after, head, tail, prev, next, head', tail', prev', next')
  BY DEF AddActiveEvent, LinkBetween, Becomes, Link
<1>4. /\ after \in active \cup {NULL}
      /\ after # NULL => time[after] >= time[e]
      /\ \A y \in active : pos[head] <= pos[y] /\ (after # NULL => pos[y] < pos[after]) => time[y] < time[e]
  <2>1. time[e] \in Nat
    OBVIOUS
  <2> QED
    BY <1>2, <2>1, NotBeforeFinds
<1> HIDE DEF after
<1>5. Between(active, before, after, head, tail, prev, next)
  <2>1. CASE after = NULL
    BY <2>1, <1>1, <1>2, BetweenNeighbours
  <2>2. CASE after # NULL
    BY <2>2, <1>1, <1>4, BetweenNeighbours
  <2> QED
    BY <2>1, <2>2
<1>6. before # NULL => time[before] <= time[e]
  <2>1. SUFFICES ASSUME before # NULL PROVE time[before] < time[e]
    BY <1>1, <1>5 DEF Between
  <2>2. before \in active
    BY <2>1, <1>5 DEF Between
  <2>3. after # NULL => pos[before] < pos[after]
    <3>1. SUFFICES ASSUME after # NULL PROVE pos[before] < pos[after]
      OBVIOUS
    <3>2. after = next[before]
      BY <3>1, <2>1, <1>5 DEF Between
    <3> QED
      BY <3>1, <3>2, <2>2, <1>1 DEF Chain, Line
  <2> QED
    BY <2>2, <2>3, <1>2, <1>4
<1>7. after # NULL => time[e] <= time[after]
  BY <1>1, <1>4
<1> HIDE DEF before
<1>8. /\ \E pos2 \in Positions : /\ Chain(active \cup {e}, head', tail', prev', next', pos2)
                                 /\ InOrder(active \cup {e}, time, pos2)
      /\ prev' \in [Events -> Ref] /\ next' \in [Events -> Ref]
      /\ Unchanged(Events \ (active \cup {e}), prev, next, prev', next')
  <2>1. LinkInOrder(active, head, tail, prev, next, pos, e, before, after, time, head', tail', prev', next')
    BY <1>1, <1>3, <1>5, <1>6, <1>7 DEF LinkInOrder
  <2> QED
    BY <2>1, Linked
<1>9. \A y \in Events \ active' : prev'[y] = NULL /\ next'[y] = NULL
  BY <1>8 DEF Listed, Unchanged
<1>10. PICK pos2 \in Positions : /\ Chain(active \cup {e}, head', tail', prev', next', pos2)
                                 /\ InOrder(active \cup {e}, time, pos2)
  BY <1>8
<1>11. Listed(pos2)' /\ InOrder(active', time, pos2)
  BY <1>1, <1>8, <1>9, <1>10 DEF Listed
<1> QED
  BY <1>11 DEF OrderedNext

\* Moving an event within the list, given where it is to go.
LEMMA MoveKeepsOrder ==
  ASSUME NEW pos, Listed(pos), NEW time \in [Events -> Nat], NEW e \in active, NEW other \in active, other # e,
         InOrder(active \ {e}, time, pos), active' = active,
         NEW before, NEW after,
         Between(active \ {e}, before, after, HeadWithout(e), TailWithout(e), PrevWithout(e), NextWithout(e)),
         before # NULL => time[before] <= time[e], after # NULL => time[e] <= time[after],
         LinkBetween(e, before, after, HeadWithout(e), TailWithout(e), PrevWithout(e), NextWithout(e))
  PROVE  OrderedNext(time)
<1> DEFINE S == active \ {e}
           h == HeadWithout(e)
           t == TailWithout(e)
           p == PrevWithout(e)
           n == NextWithout(e)
<1>1. /\ active \in SUBSET Events /\ next \in [Events -> Ref] /\ prev \in [Events -> Ref]
      /\ pos \in Positions
      /\ \A y \in Events \ active : prev[y] = NULL /\ next[y] = NULL
  BY DEF Listed
<1>2. /\ p \in [Events -> Ref] /\ n \in [Events -> Ref]
      /\ \A y \in Events \ active : p[y] = prev[y] /\ n[y] = next[y]
  <2>1. e \in Events /\ prev[e] \in Ref /\ next[e] \in Ref
    BY <1>1
  <2>2. p \in [Events -> Ref] /\ n \in [Events -> Ref]
    BY <1>1, <2>1 DEF PrevWithout, NextWithout
  <2>3. prev[e] \in active \cup {NULL} /\ next[e] \in active \cup {NULL}
    BY <1>1 DEF Listed, Chain, Line
  <2> QED
    BY <1>1, <2>2, <2>3, TimingAssumption DEF PrevWithout, NextWithout
<1>3. Chain(S, h, t, p, n, pos)
  BY <1>2, Unlinked
<1>4. S \in SUBSET Events /\ e \in Events \ S /\ S \cup {e} = active /\ InOrder(S, time, pos)
  BY <1>1
<1>5. /\ Between(S, before, after, h, t, p, n) /\ Link(e, before, after, h, t, p, n, head', tail', prev', next')
  BY DEF LinkBetween, Becomes, Link
<1> HIDE DEF S, h, t, p, n
<1>6. /\ \E pos2 \in Positions : /\ Chain(S \cup {e}, head', tail', prev', next', pos2)
                                 /\ InOrder(S \cup {e}, time, pos2)
      /\ prev' \in [Events -> Ref] /\ next' \in [Events -> Ref]
      /\ Unchanged(Events \ (S \cup {e}), p, n, prev', next')
  <2>1. LinkInOrder(S, h, t, p, n, pos, e, before, after, time, head', tail', prev', next')
    BY <1>1, <1>2, <1>3, <1>4, <1>5 DEF LinkInOrder
  <2> QED
    BY <2>1, Linked
<1>7. \A y \in Events \ active' : prev'[y] = NULL /\ next'[y] = NULL
  BY <1>1, <1>2, <1>4, <1>6 DEF Unchanged
<1>8. PICK pos2 \in Positions : /\ Chain(active', head', tail', prev', next', pos2)
                                /\ InOrder(active', time, pos2)
  BY <1>4, <1>6
<1>9. Listed(pos2)' /\ InOrder(active', time, pos2)
  BY <1>1, <1>6, <1>7, <1>8 DEF Listed
<1> QED
  BY <1>9 DEF OrderedNext

\* Sorting an event whose time has changed: the others are in order.
LEMMA SortKeepsOrder ==
  ASSUME NEW pos, Listed(pos), NEW time \in [Events -> Nat], NEW e \in active,
         InOrder(active \ {e}, time, pos), active' = active, SortEvent(e, time)
  PROVE  OrderedNext(time)
<1> DEFINE S == active \ {e}
           h == HeadWithout(e)
           t == TailWithout(e)
           p == PrevWithout(e)
           n == NextWithout(e)
<1>1. /\ active \in SUBSET Events /\ next \in [Events -> Ref] /\ prev \in [Events -> Ref]
      /\ pos \in Positions /\ Chain(active, head, tail, prev, next, pos)
      /\ NULL \notin Events
      /\ \A x \in active : pos[x] \in Int /\ time[x] \in Nat
  BY TimingAssumption DEF Listed, Positions
<1>2. InChain(e, active, head, tail, prev, next, pos)
  BY <1>1 DEF InChain
<1>3. /\ next[e] \in active \cup {NULL} /\ prev[e] \in active \cup {NULL}
      /\ next[e] # NULL => pos[e] < pos[next[e]]
      /\ prev[e] # NULL => pos[prev[e]] < pos[e]
      /\ \A y \in active : pos[e] < pos[y] => next[e] # NULL /\ pos[next[e]] <= pos[y]
      /\ \A y \in active : pos[y] < pos[e] => prev[e] # NULL /\ pos[y] <= pos[prev[e]]
  BY <1>2, Neighbours
<1>4. \A x, y \in active : pos[x] = pos[y] => x = y
  BY <1>1 DEF Chain, Line
<1>5. \A x, y \in S : pos[x] <= pos[y] => time[x] <= time[y]
  BY <1>1, <1>4 DEF InOrder
<1>6. p \in [Events -> Ref] /\ n \in [Events -> Ref] /\ S \in SUBSET Events
  BY <1>1, <1>3 DEF PrevWithout, NextWithout, Ref
<1>7. CASE prev[e] # NULL /\ time[prev[e]] > time[e]
  <2> DEFINE w == NotAfter(time, time[e], prev[e])
             after == IF w = NULL THEN h ELSE n[w]
  <2>1. MoveBack(e, time)
    BY <1>7 DEF SortEvent
  <2>2. LinkBetween(e, w, after, h, t, p, n)
    BY <2>1 DEF MoveBack
  <2>3. /\ w \in active \cup {NULL}
        /\ w # NULL => time[w] <= time[e] /\ pos[w] <= pos[prev[e]]
        /\ \A y \in active : pos[y] <= pos[prev[e]] /\ (w # NULL => pos[w] < pos[y]) => time[y] > time[e]
    BY <1>1, <1>3, <1>7, NotAfterFinds
  <2> HIDE DEF w
  <2>4. w \in S \cup {NULL} /\ prev[e] \in S
    BY <2>3, <1>1, <1>3, <1>7
  <2>5. Chain(S, h, t, p, n, pos)
    BY <2>4, <1>6, Unlinked
  <2>6. Between(S, w, after, h, t, p, n)
    <3> HIDE DEF S, h, t, p, n
    <3>1. h \in S
      BY <2>5 DEF Chain, Line
    <3>2. CASE w = NULL
      BY <3>1, <3>2, <2>5, <1>1, <1>6, BetweenNeighbours
    <3>3. CASE w # NULL
      BY <3>3, <2>4, <2>5, <1>1, <1>6, BetweenNeighbours
    <3> QED
      BY <3>2, <3>3
  <2>7. ASSUME after # NULL PROVE time[e] <= time[after]
    <3>1. after \in S /\ (w # NULL => pos[w] < pos[after])
      <4> HIDE DEF S, h, t, p, n
      <4> QED
        BY <2>4, <2>5, <2>6, <2>7 DEF Between, Chain, Line
    <3> HIDE DEF after
    <3>2. CASE pos[after] <= pos[prev[e]]
      BY <3>1, <3>2, <2>3, <1>1
    <3>3. CASE ~(pos[after] <= pos[prev[e]])
      <4>1. time[prev[e]] <= time[after]
        BY <3>1, <3>3, <2>4, <1>1, <1>5
      <4> QED
        BY <4>1, <3>1, <2>4, <1>1, <1>7
    <3> QED
      BY <3>2, <3>3
  <2> HIDE DEF after
  <2>8. prev[e] \in active /\ prev[e] # e
    BY <2>4
  <2> QED
    BY <2>2, <2>3, <2>6, <2>7, <2>8, MoveKeepsOrder
<1>8. CASE ~(prev[e] # NULL /\ time[prev[e]] > time[e]) /\ next[e] # NULL /\ time[e] > time[next[e]]
  <2> DEFINE w == NotBefore(time, time[e], next[e])
             before == IF w = NULL THEN t ELSE p[w]
  <2>1. MoveForward(e, time)
    BY <1>8 DEF SortEvent
  <2>2. LinkBetween(e, before, w, h, t, p, n)
    BY <2>1 DEF MoveForward
  <2>3. /\ w \in active \cup {NULL}
        /\ w # NULL => time[w] >= time[e] /\ pos[next[e]] <= pos[w]
        /\ \A y \in active : pos[next[e]] <= pos[y] /\ (w # NULL => pos[y] < pos[w]) => time[y] < time[e]
    BY <1>1, <1>3, <1>8, NotBeforeFinds
  <2> HIDE DEF w
  <2>4. w \in S \cup {NULL} /\ next[e] \in S
    BY <2>3, <1>1, <1>3, <1>8
  <2>5. Chain(S, h, t, p, n, pos)
    BY <2>4, <1>6, Unlinked
  <2>6. Between(S, before, w, h, t, p, n)
    <3> HIDE DEF S, h, t, p, n
    <3>1. t \in S
      BY <2>5 DEF Chain, Line
    <3>2. CASE w = NULL
      BY <3>1, <3>2, <2>5, <1>1, <1>6, BetweenNeighbours
    <3>3. CASE w # NULL
      BY <3>3, <2>4, <2>5, <1>1, <1>6, BetweenNeighbours
    <3> QED
      BY <3>2, <3>3
  <2>7. ASSUME before # NULL PROVE time[before] <= time[e]
    <3>1. before \in S /\ (w # NULL => pos[before] < pos[w])
      <4> HIDE DEF S, h, t, p, n
      <4>1. before \in S /\ (w # NULL => n[before] = w)
        BY <2>4, <2>5, <2>6, <2>7 DEF Between, Chain, Line
      <4> QED
        BY <4>1, <2>5 DEF Chain, Line
    <3> HIDE DEF before
    <3>2. CASE pos[next[e]] <= pos[before]
      BY <3>1, <3>2, <2>3, <1>1
    <3>3. CASE ~(pos[next[e]] <= pos[before])
      <4>1. time[before] <= time[next[e]]
        BY <3>1, <3>3, <2>4, <1>1, <1>5
      <4> QED
        BY <4>1, <3>1, <2>4, <1>1, <1>8
    <3> QED
      BY <3>2, <3>3
  <2> HIDE DEF before
  <2>8. next[e] \in active /\ next[e] # e
    BY <2>4
  <2>9. w # NULL => time[e] <= time[w]
    BY <2>3, <1>1
  <2> QED
    BY <2>2, <2>6, <2>7, <2>8, <2>9, MoveKeepsOrder
<1>9. CASE /\ ~(prev[e] # NULL /\ time[prev[e]] > time[e])
           /\ ~(next[e] # NULL /\ time[e] > time[next[e]])
  <2>1. UNCHANGED list
    BY <1>9 DEF SortEvent
  <2>2. head' = head /\ tail' = tail /\ prev' = prev /\ next' = next
    BY <2>1 DEF list
  <2>3. InOrder(active, time, pos)
    <3> SUFFICES ASSUME NEW x \in active, NEW y \in active, pos[x] < pos[y] PROVE time[x] <= time[y]
      BY DEF InOrder
    <3>1. CASE x # e /\ y # e
      BY <3>1, <1>1, <1>5
    <3>2. CASE x = e
      <4>1. next[e] \in S /\ y \in S /\ pos[next[e]] <= pos[y]
        BY <3>2, <1>1, <1>3
      <4>2. time[next[e]] <= time[y] /\ time[e] <= time[next[e]]
        BY <4>1, <1>1, <1>5, <1>9
      <4> QED
        BY <4>1, <4>2, <3>2, <1>1
    <3>3. CASE y = e
      <4>1. prev[e] \in S /\ x \in S /\ pos[x] <= pos[prev[e]]
        BY <3>3, <1>1, <1>3
      <4>2. time[x] <= time[prev[e]] /\ time[prev[e]] <= time[e]
        BY <4>1, <1>1, <1>5, <1>9
      <4> QED
        BY <4>1, <4>2, <3>3, <1>1
    <3> QED
      BY <3>1, <3>2, <3>3
  <2>4. Listed(pos)'
    BY <2>2 DEF Listed
  <2> QED
    BY <2>3, <2>4 DEF OrderedNext
<1> QED
  BY <1>7, <1>8, <1>9

\* Removing an event, another one being left.
LEMMA RemoveKeepsOrder ==
  ASSUME NEW pos, Listed(pos), NEW time \in [Events -> Nat], NEW e \in active, NEW other \in active, other # e,
         InOrder(active, time, pos), active' = active \ {e}, RemoveActiveEvent(e)
  PROVE  OrderedNext(time)
<1>1. /\ active \in SUBSET Events /\ next \in [Events -> Ref] /\ prev \in [Events -> Ref]
      /\ pos \in Positions /\ Chain(active, head, tail, prev, next, pos)
      /\ NULL \in Ref /\ NULL \notin Events
  BY TimingAssumption DEF Listed, Ref
<1>2. /\ head' = HeadWithout(e) /\ tail' = TailWithout(e)
      /\ prev' = [PrevWithout(e) EXCEPT ![e] = NULL] /\ next' = [NextWithout(e) EXCEPT ![e] = NULL]
  BY DEF RemoveActiveEvent, Becomes
<1>3. /\ next[e] \in active \cup {NULL} /\ prev[e] \in active \cup {NULL}
  BY <1>1 DEF Chain, Line
<1>4. /\ PrevWithout(e) \in [Events -> Ref] /\ NextWithout(e) \in [Events -> Ref]
      /\ \A y \in Events \ active : PrevWithout(e)[y] = NULL /\ NextWithout(e)[y] = NULL
  BY <1>1, <1>3 DEF PrevWithout, NextWithout, Ref, Listed
<1>5. /\ prev' \in [Events -> Ref] /\ next' \in [Events -> Ref]
      /\ \A y \in Events \ active' : prev'[y] = NULL /\ next'[y] = NULL
      /\ \A x \in active \ {e} : prev'[x] = PrevWithout(e)[x] /\ next'[x] = NextWithout(e)[x]
  BY <1>1, <1>2, <1>4
<1> DEFINE p == prev'
           n == next'
<1>6. /\ p \in [Events -> Ref] /\ n \in [Events -> Ref]
      /\ \A x \in active \ {e} : p[x] = PrevWithout(e)[x] /\ n[x] = NextWithout(e)[x]
  BY <1>5
<1> HIDE DEF p, n
<1>7. Chain(active \ {e}, HeadWithout(e), TailWithout(e), p, n, pos)
  BY <1>6, Unlinked
<1>8. Chain(active', head', tail', prev', next', pos)
  BY <1>2, <1>7 DEF p, n
<1>9. InOrder(active', time, pos)
  BY DEF InOrder
<1>10. Listed(pos)'
  BY <1>1, <1>5, <1>8 DEF Listed
<1> QED
  BY <1>9, <1>10 DEF OrderedNext

-----------------------------------------------------------------------------
(* The inductive invariant. *)

ListInv ==
  Clock \in active /\ \E pos : Listed(pos) /\ InOrder(active, next_run_time, pos)

\* Outside the loop no event is running, and the two counters agree.
PhaseInv ==
  /\ at \notin {"loop", "callback"} => current_event = NULL
  /\ at = "callback" => current_event \in Events /\ current_event_next_run_time >= global_tick_counter
  /\ at \in {"cpu", "run", "dispatch"} => global_tick_counter = event_run_tick_counter

\* The clock's callback leaves its time alone.
ClockInv ==
  /\ PeriodsAreKept
  /\ at = "callback" /\ current_event = Clock =>
       current_event_next_run_time = next_run_time[Clock] + interval[Clock]

Inv == TypeOK /\ ListInv /\ NeverLate /\ StopsInTime /\ PhaseInv /\ ClockInv

-----------------------------------------------------------------------------
(* What the invariant says of the list. *)

\* The head is the first to be due.
LEMMA HeadIsFirst ==
  ASSUME ListInv, next_run_time \in [Events -> Nat]
  PROVE  /\ head \in active /\ tail \in active /\ Clock \in active /\ active \subseteq Events
         /\ prev \in [Events -> Ref] /\ next \in [Events -> Ref]
         /\ \A x \in active : next_run_time[head] <= next_run_time[x]
<1>1. PICK pos : Listed(pos) /\ InOrder(active, next_run_time, pos)
  BY DEF ListInv
<1>2. /\ active \subseteq Events /\ pos \in Positions /\ Line(active, head, next, pos) /\ tail \in active
      /\ prev \in [Events -> Ref] /\ next \in [Events -> Ref]
  BY <1>1 DEF Listed, Chain, Line
<1>3. head \in active /\ \A x \in active : pos[head] <= pos[x] /\ pos[x] \in Int
  BY <1>2 DEF Line, Positions
<1>4. ASSUME NEW x \in active PROVE next_run_time[head] <= next_run_time[x]
  <2>1. CASE pos[head] < pos[x]
    BY <2>1, <1>1, <1>3 DEF InOrder
  <2>2. CASE pos[head] = pos[x]
    <3>1. head = x
      BY <2>2, <1>2, <1>3 DEF Line
    <3> QED
      BY <3>1, <1>2
  <2> QED
    BY <2>1, <2>2, <1>3
<1> QED
  BY <1>2, <1>3, <1>4 DEF ListInv

\* And the list is what ListIsSorted says.
LEMMA OrderIsSorted ==
  ASSUME ListInv, next_run_time \in [Events -> Nat]
  PROVE  ListIsSorted
<1>1. PICK pos : Listed(pos) /\ InOrder(active, next_run_time, pos)
  BY DEF ListInv
<1>2. /\ active \in SUBSET Events /\ pos \in Positions /\ Chain(active, head, tail, prev, next, pos)
      /\ NULL \notin Events
      /\ \A e \in Events \ active : prev[e] = NULL /\ next[e] = NULL
  BY <1>1, TimingAssumption DEF Listed
<1>3. head \in active /\ tail \in active /\ Clock \in active /\ \A x \in active : next_run_time[head] <= next_run_time[x]
  BY HeadIsFirst
<1>4. ASSUME NEW e \in active
      PROVE  /\ next[e] = NULL <=> e = tail
             /\ next[e] # NULL => next[e] \in active /\ prev[next[e]] = e
                                  /\ next_run_time[e] <= next_run_time[next[e]]
             /\ prev[e] = NULL <=> e = head
             /\ prev[e] # NULL => prev[e] \in active /\ next[prev[e]] = e
  <2>1. InChain(e, active, head, tail, prev, next, pos)
    BY <1>2 DEF InChain
  <2>2. /\ next[e] \in active \cup {NULL} /\ prev[e] \in active \cup {NULL}
        /\ next[e] = NULL <=> e = tail
        /\ prev[e] = NULL <=> e = head
        /\ next[e] # NULL => prev[next[e]] = e /\ pos[e] < pos[next[e]]
        /\ prev[e] # NULL => next[prev[e]] = e
    BY <2>1, Neighbours
  <2>3. next[e] # NULL => next_run_time[e] <= next_run_time[next[e]]
    BY <2>2, <1>1 DEF InOrder
  <2> QED
    BY <2>2, <2>3
<1>5. prev[head] = NULL /\ next[tail] = NULL
  BY <1>3, <1>4
<1> QED
  BY <1>2, <1>3, <1>4, <1>5 DEF ListIsSorted

\* A list in the order of the new times.
LEMMA OrderedNextIsList ==
  ASSUME OrderedNext(next_run_time'), Clock \in active'
  PROVE  ListInv'
  BY DEF OrderedNext, ListInv

\* When nothing of the list changes.
LEMMA SameList ==
  ASSUME ListInv, UNCHANGED list, UNCHANGED active, UNCHANGED next_run_time
  PROVE  ListInv'
<1>1. PICK pos : Listed(pos) /\ InOrder(active, next_run_time, pos)
  BY DEF ListInv
<1>2. /\ head' = head /\ tail' = tail /\ prev' = prev /\ next' = next
      /\ active' = active /\ next_run_time' = next_run_time
  BY DEF list
<1>3. Listed(pos)' /\ InOrder(active, next_run_time, pos)'
  BY <1>1, <1>2 DEF Listed, InOrder
<1> QED
  BY <1>2, <1>3 DEF ListInv

-----------------------------------------------------------------------------
(* What the operations on events keep, wherever they are called from. *)

Rescheduled ==
  /\ ListInv'
  /\ next_run_time' \in [Events -> Nat] /\ next_run_time'[Clock] = next_run_time[Clock]
  /\ downcount' \in Nat
  /\ next_run_time'[head'] >= global_tick_counter
  /\ at = "cpu" => /\ global_tick_counter + downcount' <= next_run_time'[head']
                   /\ interrupt => downcount' = 0

\* What an operation finds.
LEMMA Found ==
  ASSUME Inv
  PROVE  /\ next_run_time \in [Events -> Nat] /\ Clock \in Events
         /\ global_tick_counter \in Nat /\ downcount \in Nat /\ Now \in Nat /\ Now >= global_tick_counter
         /\ \A e \in Events : interval[e] \in Nat /\ interval[e] # 0
         /\ \A x \in active : next_run_time[x] \in Nat /\ next_run_time[x] >= global_tick_counter
         /\ head \in active /\ tail \in active /\ Clock \in active /\ active \subseteq Events
         /\ prev \in [Events -> Ref] /\ next \in [Events -> Ref]
         /\ NULL \notin Events
<1>1. /\ next_run_time \in [Events -> Nat] /\ global_tick_counter \in Nat /\ downcount \in Nat
      /\ pending_ticks \in Nat /\ interval \in [Events -> Ticks] /\ Ticks \subseteq Nat \ {0}
      /\ NULL \notin Events /\ Clock \in Events
  BY TimingAssumption DEF Inv, TypeOK
<1>2. /\ head \in active /\ tail \in active /\ Clock \in active /\ active \subseteq Events
      /\ prev \in [Events -> Ref] /\ next \in [Events -> Ref]
      /\ \A x \in active : next_run_time[head] <= next_run_time[x]
  BY <1>1, HeadIsFirst DEF Inv
<1>3. next_run_time[head] >= global_tick_counter
  BY DEF Inv, NeverLate
<1>4. \A x \in active : next_run_time[x] \in Nat /\ next_run_time[x] >= global_tick_counter
  BY <1>1, <1>2, <1>3
<1>5. \A e \in Events : interval[e] \in Nat /\ interval[e] # 0
  BY <1>1
<1>6. Now \in Nat /\ Now >= global_tick_counter
  BY <1>1 DEF Now
<1> QED
  BY <1>1, <1>2, <1>4, <1>5, <1>6

\* After a step, too, the head is in the list.
LEMMA HeadStaysInList ==
  ListInv' /\ next_run_time' \in [Events -> Nat] =>
    /\ head' \in active' /\ tail' \in active' /\ Clock \in active' /\ active' \subseteq Events
    /\ prev' \in [Events -> Ref] /\ next' \in [Events -> Ref]
<1> DEFINE Ends == /\ head \in active /\ tail \in active /\ Clock \in active /\ active \subseteq Events
                   /\ prev \in [Events -> Ref] /\ next \in [Events -> Ref]
<1>1. ListInv /\ next_run_time \in [Events -> Nat] => Ends
  BY HeadIsFirst
<1>2. (ListInv /\ next_run_time \in [Events -> Nat])' => Ends'
  BY <1>1, PTL
<1> QED
  BY <1>2

\* The downcount follows the head of the list.
LEMMA DowncountFollows ==
  ASSUME Inv, ListInv', next_run_time' \in [Events -> Nat], next_run_time'[Clock] = next_run_time[Clock],
         \A x \in active' : next_run_time'[x] >= global_tick_counter,
         NEW condition, UpdateCPUDowncountIf(condition),
         at = "cpu" /\ ~condition => next_run_time'[head'] >= next_run_time[head]
  PROVE  Rescheduled
<1>1. /\ global_tick_counter \in Nat /\ downcount \in Nat /\ head \in Events /\ next_run_time \in [Events -> Nat]
      /\ at = "cpu" => /\ global_tick_counter + downcount <= next_run_time[head]
                       /\ interrupt => downcount = 0
  BY DEF Inv, TypeOK, StopsInTime
<1>2. head' \in active' /\ active' \subseteq Events
  BY HeadStaysInList
<1>3. next_run_time'[head'] \in Nat /\ next_run_time'[head'] >= global_tick_counter
  BY <1>2
<1>4. next_run_time[head] \in Nat
  BY <1>1
<1>5. CASE condition
  <2>1. downcount' = IF interrupt THEN 0 ELSE next_run_time'[head'] - global_tick_counter
    BY <1>5 DEF UpdateCPUDowncountIf
  <2> QED
    BY <2>1, <1>1, <1>3 DEF Rescheduled
<1>6. CASE ~condition
  <2>1. downcount' = downcount
    BY <1>6 DEF UpdateCPUDowncountIf
  <2> QED
    BY <2>1, <1>1, <1>3, <1>4, <1>6 DEF Rescheduled
<1> QED
  BY <1>5, <1>6

\* Outside of callbacks no event runs.
LEMMA NoneRuns ==
  ASSUME Inv, at = "cpu"
  PROVE  current_event = NULL
  BY DEF Inv, PhaseInv

\* A new time for an event in the list.
LEMMA MoveReschedules ==
  ASSUME Inv, NEW e \in active, e # Clock, NEW time \in Nat, time >= global_tick_counter,
         Move(e, time), active' = active
  PROVE  Rescheduled
<1> DEFINE new == [next_run_time EXCEPT ![e] = time]
<1>1. /\ next_run_time \in [Events -> Nat] /\ Clock \in Events /\ active \in SUBSET Events /\ Clock \in active
      /\ \A x \in active : next_run_time[x] >= global_tick_counter
  BY Found
<1>2. next_run_time' = new /\ SortEvent(e, next_run_time')
      /\ UpdateCPUDowncountIf(head' = e \/ (head' # head /\ current_event = NULL))
  BY DEF Move
<1>3. /\ new \in [Events -> Nat] /\ new[e] = time /\ \A x \in Events : x # e => new[x] = next_run_time[x]
  BY <1>1
<1> HIDE DEF new
<1>4. PICK pos : Listed(pos) /\ InOrder(active, next_run_time, pos)
  BY DEF Inv, ListInv
<1>5. InOrder(active \ {e}, new, pos)
  BY <1>1, <1>3, <1>4 DEF InOrder
<1>6. SortEvent(e, new)
  BY <1>2
<1>7. OrderedNext(new)
  BY <1>3, <1>4, <1>5, <1>6, SortKeepsOrder
<1>8. ListInv'
  BY <1>1, <1>2, <1>7, OrderedNextIsList
<1>9. /\ next_run_time' \in [Events -> Nat] /\ next_run_time'[Clock] = next_run_time[Clock]
      /\ \A x \in active' : next_run_time'[x] >= global_tick_counter
  BY <1>1, <1>2, <1>3
<1>10. ASSUME at = "cpu", ~(head' = e \/ (head' # head /\ current_event = NULL))
       PROVE  next_run_time'[head'] >= next_run_time[head]
  <2>1. head' = head /\ head # e /\ head \in Events
    BY <1>10, NoneRuns DEF Inv, TypeOK
  <2> QED
    BY <2>1, <1>1, <1>2, <1>3
<1> DEFINE condition == head' = e \/ (head' # head /\ current_event = NULL)
<1>11. UpdateCPUDowncountIf(condition) /\ (at = "cpu" /\ ~condition => next_run_time'[head'] >= next_run_time[head])
  BY <1>2, <1>10
<1> HIDE DEF condition
<1> QED
  BY <1>8, <1>9, <1>11, DowncountFollows

\* A time for an event that is not in the list.
LEMMA StartReschedules ==
  ASSUME Inv, NEW e \in Events \ active, NEW time \in Nat, time >= global_tick_counter, Start(e, time)
  PROVE  Rescheduled
<1> DEFINE new == [next_run_time EXCEPT ![e] = time]
<1>1. /\ next_run_time \in [Events -> Nat] /\ Clock \in Events /\ active \in SUBSET Events /\ Clock \in active
      /\ \A x \in active : next_run_time[x] >= global_tick_counter
      /\ head \in active /\ prev \in [Events -> Ref] /\ NULL \notin Events
  BY Found
<1>2. next_run_time' = new /\ AddActiveEvent(e, next_run_time') /\ active' = active \cup {e}
      /\ UpdateCPUDowncountIf(head' = e)
  BY DEF Start
<1>3. /\ new \in [Events -> Nat] /\ new[e] = time /\ \A x \in Events : x # e => new[x] = next_run_time[x]
  BY <1>1
<1> HIDE DEF new
<1>4. PICK pos : Listed(pos) /\ InOrder(active, next_run_time, pos)
  BY DEF Inv, ListInv
<1>5. InOrder(active, new, pos)
  BY <1>1, <1>3, <1>4 DEF InOrder
<1>6. AddActiveEvent(e, new)
  BY <1>2
<1>7. OrderedNext(new)
  BY <1>2, <1>3, <1>4, <1>5, <1>6, AddKeepsOrder
<1>8. ListInv'
  BY <1>1, <1>2, <1>7, OrderedNextIsList
<1>9. /\ next_run_time' \in [Events -> Nat] /\ next_run_time'[Clock] = next_run_time[Clock]
      /\ \A x \in active' : next_run_time'[x] >= global_tick_counter
  BY <1>1, <1>2, <1>3
<1>10. head' = e \/ head' = head
  BY <1>2 DEF AddActiveEvent, LinkBetween, Becomes
<1> DEFINE condition == head' = e
<1>11. UpdateCPUDowncountIf(condition) /\ (at = "cpu" /\ ~condition => next_run_time'[head'] >= next_run_time[head])
  BY <1>1, <1>2, <1>3, <1>10
<1> HIDE DEF condition
<1> QED
  BY <1>8, <1>9, <1>11, DowncountFollows

\* An event leaves the list.
LEMMA DeactivateReschedules ==
  ASSUME Inv, NEW e \in Events, e # Clock, Deactivate(e)
  PROVE  Rescheduled
<1>1. /\ next_run_time \in [Events -> Nat] /\ Clock \in Events /\ active \in SUBSET Events /\ Clock \in active
      /\ \A x \in active : next_run_time[x] >= global_tick_counter
      /\ head \in active /\ prev \in [Events -> Ref] /\ NULL \notin Events
  BY Found
<1>2. /\ e \in active /\ active' = active \ {e} /\ RemoveActiveEvent(e) /\ next_run_time' = next_run_time
      /\ UpdateCPUDowncountIf(head = e /\ current_event = NULL)
  BY DEF Deactivate, times
<1>3. PICK pos : Listed(pos) /\ InOrder(active, next_run_time, pos)
  BY DEF Inv, ListInv
<1> DEFINE time == next_run_time
<1>4. time \in [Events -> Nat] /\ InOrder(active, time, pos)
  BY <1>1, <1>3
<1> HIDE DEF time
<1>5. OrderedNext(time)
  BY <1>1, <1>2, <1>3, <1>4, RemoveKeepsOrder
<1>6. ListInv'
  <2>1. OrderedNext(next_run_time')
    BY <1>2, <1>5 DEF time
  <2> QED
    BY <1>1, <1>2, <2>1, OrderedNextIsList
<1>7. /\ next_run_time' \in [Events -> Nat] /\ next_run_time'[Clock] = next_run_time[Clock]
      /\ \A x \in active' : next_run_time'[x] >= global_tick_counter
  BY <1>1, <1>2
<1>8. head # e => head' = head
  <2>1. SUFFICES ASSUME head # e PROVE prev[e] # NULL
    BY <1>2 DEF RemoveActiveEvent, Becomes, HeadWithout
  <2>2. InChain(e, active, head, tail, prev, next, pos)
    BY <1>1, <1>2, <1>3 DEF InChain, Listed
  <2> QED
    BY <2>1, <2>2, Neighbours
<1> DEFINE condition == head = e /\ current_event = NULL
<1>9. UpdateCPUDowncountIf(condition) /\ (at = "cpu" /\ ~condition => next_run_time'[head'] >= next_run_time[head])
  BY <1>1, <1>2, <1>8, NoneRuns
<1> HIDE DEF condition
<1> QED
  BY <1>6, <1>7, <1>9, DowncountFollows

-----------------------------------------------------------------------------
(* What devices do keeps the invariant. *)

\* A call that leaves every event where it is.
LEMMA SameReschedules ==
  ASSUME Inv, UNCHANGED <<list, active, next_run_time, downcount>>
  PROVE  Rescheduled
<1>1. ListInv'
  BY SameList DEF Inv
<1>2. head' = head /\ next_run_time' = next_run_time /\ downcount' = downcount
  BY DEF list
<1>3. next_run_time \in [Events -> Nat] /\ downcount \in Nat
  BY DEF Inv, TypeOK
<1> QED
  BY <1>1, <1>2, <1>3 DEF Rescheduled, Inv, NeverLate, StopsInTime

\* What is left to show of a call once the list is known to be in order.
DeviceCall ==
  /\ Rescheduled
  /\ last_run_time' \in [Events -> Nat] /\ last_run_time'[Clock] = last_run_time[Clock]
  /\ interval' \in [Events -> Ticks] /\ interval'[Clock] = interval[Clock]
  /\ current_event' = current_event
  /\ current_event_next_run_time' \in Nat
  /\ current_event_next_run_time' = current_event_next_run_time \/ current_event_next_run_time' >= global_tick_counter
  /\ current_event = Clock => current_event_next_run_time' = current_event_next_run_time
  /\ UNCHANGED UntouchedByEvents

\* A call on events keeps the invariant.
LEMMA DeviceCallKeepsInv ==
  ASSUME Inv, DeviceCall
  PROVE  Inv'
<1>1. /\ global_tick_counter' = global_tick_counter /\ event_run_tick_counter' = event_run_tick_counter
      /\ pending_ticks' = pending_ticks /\ interrupt' = interrupt /\ at' = at /\ current_event' = current_event
  BY DEF DeviceCall, UntouchedByEvents, clock
<1>2. /\ ListInv' /\ next_run_time' \in [Events -> Nat] /\ next_run_time'[Clock] = next_run_time[Clock]
      /\ downcount' \in Nat /\ next_run_time'[head'] >= global_tick_counter
      /\ at = "cpu" => /\ global_tick_counter + downcount' <= next_run_time'[head']
                       /\ interrupt => downcount' = 0
  BY DEF DeviceCall, Rescheduled
<1>3. /\ head' \in Events /\ tail' \in Events /\ active' \subseteq Events
      /\ prev' \in [Events -> Ref] /\ next' \in [Events -> Ref]
  BY <1>2, HeadStaysInList
<1>4. TypeOK'
  BY <1>1, <1>2, <1>3 DEF Inv, TypeOK, DeviceCall
<1>5. NeverLate' /\ StopsInTime'
  BY <1>1, <1>2 DEF Inv, NeverLate, StopsInTime
<1>6. PhaseInv'
  BY <1>1 DEF Inv, PhaseInv, DeviceCall
<1>7. ClockInv'
  BY <1>1, <1>2 DEF Inv, ClockInv, PeriodsAreKept, DeviceCall
<1> QED
  BY <1>2, <1>4, <1>5, <1>6, <1>7 DEF Inv

\* What a step that leaves these variables alone keeps.
LEMMA Types ==
  ASSUME Inv
  PROVE  /\ last_run_time \in [Events -> Nat] /\ interval \in [Events -> Ticks]
         /\ current_event_next_run_time \in Nat /\ Ticks \subseteq Nat \ {0}
         /\ global_tick_counter \in Nat /\ event_run_tick_counter \in Nat /\ pending_ticks \in Nat
         /\ downcount \in Nat /\ next_run_time \in [Events -> Nat] /\ Clock \in Events
         /\ head \in Events /\ current_event \in Ref /\ interrupt \in BOOLEAN
  BY TimingAssumption DEF Inv, TypeOK

\* A time for an event, in the list or not, running or not.
LEMMA ScheduleToKeeps ==
  ASSUME Inv, NEW e \in Events, e # Clock, NEW time \in Nat, time >= global_tick_counter, ScheduleTo(e, time)
  PROVE  /\ Rescheduled
         /\ last_run_time' \in [Events -> Nat] /\ last_run_time'[Clock] = last_run_time[Clock]
         /\ current_event_next_run_time' \in Nat
         /\ current_event_next_run_time' = current_event_next_run_time
            \/ current_event_next_run_time' >= global_tick_counter
         /\ current_event = Clock => current_event_next_run_time' = current_event_next_run_time
<1>1. /\ current_event_next_run_time' \in Nat
      /\ current_event_next_run_time' = current_event_next_run_time
         \/ current_event_next_run_time' >= global_tick_counter
      /\ current_event = Clock => current_event_next_run_time' = current_event_next_run_time
  BY Types DEF ScheduleTo, NextIfCurrent
<1>2. CASE e \notin active /\ Start(e, time)
  <2>1. Rescheduled
    BY <1>2, StartReschedules
  <2>2. last_run_time' = [last_run_time EXCEPT ![e] = Now] /\ Now \in Nat
    BY <1>2, Found DEF Start
  <2>3. last_run_time' \in [Events -> Nat] /\ last_run_time'[Clock] = last_run_time[Clock]
    BY <2>2, Types
  <2> QED
    BY <1>1, <2>1, <2>3
<1>3. CASE e \in active /\ e # current_event /\ Move(e, time) /\ UNCHANGED <<active, last_run_time>>
  <2>1. Rescheduled
    BY <1>3, MoveReschedules
  <2> QED
    BY <1>1, <1>3, <2>1, Types
<1>4. CASE e \in active /\ e = current_event
           /\ UNCHANGED <<list, active, next_run_time, last_run_time, downcount>>
  <2>1. Rescheduled
    BY <1>4, SameReschedules
  <2> QED
    BY <1>1, <1>4, <2>1, Types
<1> QED
  BY <1>2, <1>3, <1>4 DEF ScheduleTo

\* Schedule.
LEMMA ScheduleKeepsInv ==
  ASSUME Inv, NEW e \in Events \ {Clock}, Schedule(e)
  PROVE  Inv'
<1>1. PICK ticks \in Ticks \cup {0} : ScheduleTo(e, Now + ticks)
  BY DEF Schedule
<1> DEFINE time == Now + ticks
<1>2. time \in Nat /\ time >= global_tick_counter /\ ScheduleTo(e, time)
  BY <1>1, Found, TimingAssumption
<1> HIDE DEF time
<1>3. interval' = interval /\ current_event' = current_event /\ UNCHANGED UntouchedByEvents
  BY DEF Schedule
<1>4. DeviceCall
  BY <1>2, <1>3, ScheduleToKeeps, Types DEF DeviceCall
<1> QED
  BY <1>4, DeviceCallKeepsInv

\* SetIntervalAndSchedule.
LEMMA SetIntervalAndScheduleKeepsInv ==
  ASSUME Inv, NEW e \in Events \ {Clock}, SetIntervalAndSchedule(e)
  PROVE  Inv'
<1>1. PICK ticks \in Ticks : interval' = [interval EXCEPT ![e] = ticks] /\ ScheduleTo(e, Now + ticks)
  BY DEF SetIntervalAndSchedule
<1> DEFINE time == Now + ticks
<1>2. time \in Nat /\ time >= global_tick_counter /\ ScheduleTo(e, time)
  BY <1>1, Found, TimingAssumption
<1> HIDE DEF time
<1>3. interval' \in [Events -> Ticks] /\ interval'[Clock] = interval[Clock]
  BY <1>1, Types
<1>4. current_event' = current_event /\ UNCHANGED UntouchedByEvents
  BY DEF SetIntervalAndSchedule
<1>5. DeviceCall
  BY <1>2, <1>3, <1>4, ScheduleToKeeps DEF DeviceCall
<1> QED
  BY <1>5, DeviceCallKeepsInv

\* Activate.
LEMMA ActivateKeepsInv ==
  ASSUME Inv, NEW e \in Events \ {Clock}, Activate(e)
  PROVE  Inv'
<1> DEFINE time == Now + interval[e]
<1>1. /\ e \notin active /\ NextIfCurrent(e, time) /\ Start(e, time)
      /\ interval' = interval /\ current_event' = current_event /\ UNCHANGED UntouchedByEvents
  BY DEF Activate
<1>2. time \in Nat /\ time >= global_tick_counter
  BY Found
<1> HIDE DEF time
<1>3. ScheduleTo(e, time)
  BY <1>1 DEF ScheduleTo
<1>4. DeviceCall
  BY <1>1, <1>2, <1>3, ScheduleToKeeps, Types DEF DeviceCall
<1> QED
  BY <1>4, DeviceCallKeepsInv

\* Deactivate.
LEMMA DeactivateKeepsInv ==
  ASSUME Inv, NEW e \in Events \ {Clock}, Deactivate(e)
  PROVE  Inv'
<1>1. Rescheduled
  BY DeactivateReschedules
<1>2. UNCHANGED times /\ UNCHANGED running /\ UNCHANGED UntouchedByEvents
  BY DEF Deactivate
<1>3. DeviceCall
  BY <1>1, <1>2, Types DEF DeviceCall, times, running
<1> QED
  BY <1>3, DeviceCallKeepsInv

\* Delay.
LEMMA DelayKeepsInv ==
  ASSUME Inv, NEW e \in Events \ {Clock}, Delay(e)
  PROVE  Inv'
<1>1. PICK ticks \in Ticks : Move(e, next_run_time[e] + ticks)
  BY DEF Delay
<1>2. /\ e \in active /\ active' = active
      /\ UNCHANGED <<last_run_time, interval>> /\ UNCHANGED running /\ UNCHANGED UntouchedByEvents
  BY DEF Delay
<1> DEFINE time == next_run_time[e] + ticks
<1>3. time \in Nat /\ time >= global_tick_counter /\ Move(e, time)
  BY <1>1, <1>2, Found, TimingAssumption
<1> HIDE DEF time
<1>4. Rescheduled
  BY <1>2, <1>3, MoveReschedules
<1>5. DeviceCall
  BY <1>2, <1>4, Types DEF DeviceCall, running
<1> QED
  BY <1>5, DeviceCallKeepsInv

\* InvokeEarly: the event moves on by its interval.
LEMMA InvokeEarlyKeepsInv ==
  ASSUME Inv, NEW e \in Events \ {Clock}, InvokeEarly(e)
  PROVE  Inv'
<1> DEFINE time == Now + interval[e]
<1>1. /\ e \in active /\ active' = active /\ Move(e, time) /\ last_run_time' = [last_run_time EXCEPT ![e] = Now]
      /\ interval' = interval /\ UNCHANGED running /\ UNCHANGED UntouchedByEvents
  BY DEF InvokeEarly
<1>2. time \in Nat /\ time >= global_tick_counter
  BY Found
<1> HIDE DEF time
<1>3. Rescheduled
  BY <1>1, <1>2, MoveReschedules
<1>4. last_run_time' \in [Events -> Nat] /\ last_run_time'[Clock] = last_run_time[Clock]
  BY <1>1, Found, Types
<1>5. DeviceCall
  BY <1>1, <1>3, <1>4, Types DEF DeviceCall, running
<1> QED
  BY <1>5, DeviceCallKeepsInv

\* InvokeEarly without a new time.
LEMMA InvokeEarlyNoRescheduleKeepsInv ==
  ASSUME Inv, NEW e \in Events \ {Clock}, InvokeEarlyNoReschedule(e)
  PROVE  Inv'
<1>1. /\ UNCHANGED <<list, active, next_run_time>> /\ last_run_time' = [last_run_time EXCEPT ![e] = Now]
      /\ interval' = interval /\ UNCHANGED running /\ UNCHANGED cpu /\ UNCHANGED <<clock, interrupt, at>>
  BY DEF InvokeEarlyNoReschedule
<1>2. Rescheduled
  BY <1>1, SameReschedules DEF cpu
<1>3. last_run_time' \in [Events -> Nat] /\ last_run_time'[Clock] = last_run_time[Clock]
  BY <1>1, Found, Types
<1>4. UNCHANGED UntouchedByEvents
  BY <1>1 DEF cpu, UntouchedByEvents
<1>5. DeviceCall
  BY <1>1, <1>2, <1>3, <1>4, Types DEF DeviceCall, running
<1> QED
  BY <1>5, DeviceCallKeepsInv

-----------------------------------------------------------------------------
(* Time, interrupts and the loop. *)

\* A step that leaves the list and the events' own times alone.
LEMMA StillListed ==
  ASSUME Inv, UNCHANGED <<list, active, next_run_time, interval>>
  PROVE  /\ ListInv'
         /\ head' = head /\ next_run_time' = next_run_time /\ interval' = interval
         /\ head' \in Events /\ tail' \in Events /\ active' \subseteq Events
         /\ prev' \in [Events -> Ref] /\ next' \in [Events -> Ref]
         /\ next_run_time' \in [Events -> Nat] /\ interval' \in [Events -> Ticks]
         /\ next_run_time[head] \in Nat
<1>1. ListInv'
  BY SameList DEF Inv
<1> QED
  BY <1>1 DEF list, Inv, TypeOK

\* Time passes on the CPU.
LEMMA AddPendingTicksKeepsInv ==
  ASSUME Inv, AddPendingTicks
  PROVE  Inv'
<1>1. PICK ticks \in Ticks : pending_ticks' = pending_ticks + ticks
  BY DEF AddPendingTicks
<1>2. /\ UNCHANGED <<list, active, next_run_time, interval>> /\ last_run_time' = last_run_time
      /\ UNCHANGED running /\ UNCHANGED clock /\ UNCHANGED <<downcount, interrupt, at>>
  BY DEF AddPendingTicks, times
<1>3. pending_ticks' \in Nat
  BY <1>1, Types
<1>4. /\ current_event' = current_event /\ current_event_next_run_time' = current_event_next_run_time
      /\ global_tick_counter' = global_tick_counter /\ event_run_tick_counter' = event_run_tick_counter
  BY <1>2 DEF running, clock
<1>5. TypeOK'
  BY <1>2, <1>3, <1>4, StillListed DEF Inv, TypeOK
<1>6. NeverLate' /\ StopsInTime' /\ PhaseInv' /\ ClockInv'
  BY <1>2, <1>4, StillListed DEF Inv, NeverLate, StopsInTime, PhaseInv, ClockInv, PeriodsAreKept
<1> QED
  BY <1>2, <1>5, <1>6, StillListed DEF Inv

\* An interrupt stops the CPU at once.
LEMMA RaiseInterruptKeepsInv ==
  ASSUME Inv, RaiseInterrupt
  PROVE  Inv'
<1>1. /\ UNCHANGED <<list, active, next_run_time, interval>> /\ last_run_time' = last_run_time
      /\ UNCHANGED running /\ UNCHANGED clock /\ UNCHANGED <<pending_ticks, at>>
      /\ interrupt' = TRUE /\ downcount' = 0
  BY DEF RaiseInterrupt, times
<1>2. /\ current_event' = current_event /\ current_event_next_run_time' = current_event_next_run_time
      /\ global_tick_counter' = global_tick_counter /\ event_run_tick_counter' = event_run_tick_counter
  BY <1>1 DEF running, clock
<1>3. TypeOK'
  BY <1>1, <1>2, StillListed DEF Inv, TypeOK
<1>4. NeverLate' /\ PhaseInv' /\ ClockInv'
  BY <1>1, <1>2, StillListed DEF Inv, NeverLate, PhaseInv, ClockInv, PeriodsAreKept
<1>5. StopsInTime'
  BY <1>1, <1>2, StillListed, Types DEF Inv, NeverLate, StopsInTime
<1> QED
  BY <1>1, <1>3, <1>4, <1>5, StillListed DEF Inv

\* An interrupt that is masked leaves the downcount behind.
LEMMA LowerInterruptKeepsInv ==
  ASSUME Inv, LowerInterrupt
  PROVE  Inv'
<1>1. /\ UNCHANGED <<list, active, next_run_time, interval>> /\ last_run_time' = last_run_time
      /\ UNCHANGED running /\ UNCHANGED clock /\ UNCHANGED <<pending_ticks, downcount, at>>
      /\ interrupt' = FALSE
  BY DEF LowerInterrupt, times, cpu
<1>2. /\ current_event' = current_event /\ current_event_next_run_time' = current_event_next_run_time
      /\ global_tick_counter' = global_tick_counter /\ event_run_tick_counter' = event_run_tick_counter
  BY <1>1 DEF running, clock
<1>3. TypeOK'
  BY <1>1, <1>2, StillListed DEF Inv, TypeOK
<1>4. NeverLate' /\ StopsInTime' /\ PhaseInv' /\ ClockInv'
  BY <1>1, <1>2, StillListed DEF Inv, NeverLate, StopsInTime, PhaseInv, ClockInv, PeriodsAreKept
<1> QED
  BY <1>1, <1>3, <1>4, StillListed DEF Inv

\* The CPU stops, for events or for the host.
LEMMA CheckEventsKeepsInv ==
  ASSUME Inv, CheckEvents \/ ExitExecution
  PROVE  Inv'
<1>1. /\ UNCHANGED <<list, active, next_run_time, interval>> /\ last_run_time' = last_run_time
      /\ UNCHANGED running /\ UNCHANGED clock /\ UNCHANGED <<pending_ticks, downcount, interrupt>>
      /\ at = "cpu" /\ at' \in {"run", "stopped"}
  BY DEF CheckEvents, ExitExecution, times, cpu
<1>2. /\ current_event' = current_event /\ current_event_next_run_time' = current_event_next_run_time
      /\ global_tick_counter' = global_tick_counter /\ event_run_tick_counter' = event_run_tick_counter
  BY <1>1 DEF running, clock
<1>3. TypeOK'
  BY <1>1, <1>2, StillListed DEF Inv, TypeOK
<1>4. NeverLate' /\ StopsInTime' /\ ClockInv'
  BY <1>1, <1>2, StillListed DEF Inv, NeverLate, StopsInTime, ClockInv, PeriodsAreKept
<1>5. PhaseInv'
  BY <1>1, <1>2 DEF Inv, PhaseInv
<1> QED
  BY <1>1, <1>3, <1>4, <1>5, StillListed DEF Inv

\* Ticks are committed up to the next event at most.
LEMMA CommitKeepsInv ==
  ASSUME Inv, NEW new \in Nat, new >= global_tick_counter, CommitGlobalTicks(new), at \notin {"loop", "callback"},
         UNCHANGED <<list, active, next_run_time, interval, last_run_time, running, downcount, interrupt>>,
         pending_ticks' \in Nat
  PROVE  Inv'
<1>1. /\ UNCHANGED <<list, active, next_run_time, interval>> /\ last_run_time' = last_run_time
      /\ current_event' = current_event /\ current_event_next_run_time' = current_event_next_run_time
      /\ downcount' = downcount /\ interrupt' = interrupt /\ at' = "loop"
      /\ event_run_tick_counter' = new
      /\ global_tick_counter' = IF new < next_run_time[head] THEN new ELSE next_run_time[head]
  BY DEF running, CommitGlobalTicks, Earliest
<1>2. global_tick_counter' \in Nat /\ event_run_tick_counter' \in Nat
  BY <1>1, StillListed
<1>3. TypeOK'
  BY <1>1, <1>2, StillListed DEF Inv, TypeOK
<1>4. NeverLate'
  BY <1>1, <1>2, StillListed DEF Inv, NeverLate
<1>5. StopsInTime' /\ PhaseInv'
  BY <1>1 DEF Inv, StopsInTime, PhaseInv
<1>6. ClockInv'
  BY <1>1, StillListed DEF Inv, ClockInv, PeriodsAreKept
<1> QED
  BY <1>1, <1>3, <1>4, <1>5, <1>6, StillListed DEF Inv

\* RunEvents commits ticks only if an event is due.
LEMMA RunEventsKeepsInv ==
  ASSUME Inv, RunEvents
  PROVE  Inv'
<1> DEFINE new == event_run_tick_counter + pending_ticks
<1>1. /\ at = "run"
      /\ UNCHANGED <<list, active, next_run_time, interval, last_run_time, running, downcount, interrupt>>
  BY DEF RunEvents, times
<1>2. new \in Nat /\ new >= global_tick_counter
  BY Types DEF Inv, NeverLate
<1>3. CASE new >= next_run_time[head]
  <2>1. pending_ticks' = 0 /\ CommitGlobalTicks(new)
    BY <1>3 DEF RunEvents
  <2> HIDE DEF new
  <2>2. pending_ticks' \in Nat
    BY <2>1
  <2> QED
    BY <1>1, <1>2, <2>1, <2>2, CommitKeepsInv
<1>4. CASE ~(new >= next_run_time[head])
  <2>1. at' = "dispatch" /\ UNCHANGED <<clock, pending_ticks>>
    BY <1>4 DEF RunEvents
  <2>2. /\ current_event' = current_event /\ current_event_next_run_time' = current_event_next_run_time
        /\ global_tick_counter' = global_tick_counter /\ event_run_tick_counter' = event_run_tick_counter
    BY <1>1, <2>1 DEF running, clock
  <2>3. TypeOK'
    BY <1>1, <2>1, <2>2, StillListed DEF Inv, TypeOK
  <2>4. NeverLate' /\ StopsInTime' /\ ClockInv'
    BY <1>1, <2>1, <2>2, StillListed DEF Inv, NeverLate, StopsInTime, ClockInv, PeriodsAreKept
  <2>5. PhaseInv'
    BY <1>1, <2>1, <2>2 DEF Inv, PhaseInv
  <2> QED
    BY <1>1, <2>3, <2>4, <2>5, StillListed DEF Inv
<1> QED
  BY <1>3, <1>4

\* Going on after a stop.
LEMMA CommitLeftoverTicksKeepsInv ==
  ASSUME Inv, CommitLeftoverTicks
  PROVE  Inv'
<1>1. /\ at = "stopped" /\ CommitGlobalTicks(event_run_tick_counter)
      /\ UNCHANGED <<list, active, next_run_time, interval, last_run_time, running, downcount, interrupt>>
      /\ pending_ticks' = pending_ticks
  BY DEF CommitLeftoverTicks, times, cpu
<1> DEFINE new == event_run_tick_counter
<1>2. new \in Nat /\ new >= global_tick_counter /\ CommitGlobalTicks(new) /\ pending_ticks' \in Nat
  BY <1>1, Types DEF Inv, NeverLate
<1> HIDE DEF new
<1> QED
  BY <1>1, <1>2, CommitKeepsInv

\* A whole number of periods and one more.
LEMMA OnePeriodMore ==
  ASSUME NEW k \in Nat, NEW n \in Nat \ {0}, k % n = 0
  PROVE  (k + n) % n = 0
<1>1. k = (k \div n) * n /\ k \div n \in Nat
  OBVIOUS
<1>2. k + n = ((k + n) \div n) * n + ((k + n) % n) /\ (k + n) \div n \in Nat /\ (k + n) % n \in 0 .. n - 1
  OBVIOUS
<1> DEFINE q == k \div n
           q2 == (k + n) \div n
           r == (k + n) % n
<1>3. q \in Nat /\ q2 \in Nat /\ r \in 0 .. n - 1 /\ q * n + n = q2 * n + r
  BY <1>1, <1>2
<1> HIDE DEF q, q2, r
<1>4. (q + 1 - q2) * n = r
  BY <1>3
<1>5. PICK d \in Int : d = q + 1 - q2
  BY <1>3
<1>6. d * n = r
  BY <1>4, <1>5
<1>7. d = 0
  <2>1. d >= 1 => d * n >= n
    OBVIOUS
  <2>2. d <= -1 => d * n <= -n
    OBVIOUS
  <2> QED
    BY <2>1, <2>2, <1>3, <1>6
<1> QED
  BY <1>6, <1>7 DEF r

\* The event that is due is called; the clock's period ends exactly.
LEMMA RunEventKeepsInv ==
  ASSUME Inv, RunEvent
  PROVE  Inv'
<1>1. /\ UNCHANGED <<list, active, next_run_time, interval>>
      /\ current_event' = head /\ current_event_next_run_time' = next_run_time[head] + interval[head]
      /\ last_run_time' = [last_run_time EXCEPT ![head] = global_tick_counter]
      /\ at = "loop" /\ at' = "callback" /\ global_tick_counter >= next_run_time[head]
      /\ global_tick_counter' = global_tick_counter /\ event_run_tick_counter' = event_run_tick_counter
      /\ pending_ticks' = pending_ticks /\ downcount' = downcount /\ interrupt' = interrupt
  BY DEF RunEvent, clock, cpu
<1>2. /\ next_run_time[head] \in Nat /\ interval[head] \in Nat /\ interval[head] # 0 /\ head \in Events
      /\ global_tick_counter = next_run_time[head]
  BY <1>1, Types, Found DEF Inv, NeverLate
<1>3. current_event_next_run_time' \in Nat /\ current_event_next_run_time' >= global_tick_counter
  BY <1>1, <1>2
<1>4. last_run_time' \in [Events -> Nat]
  BY <1>1, Types
<1>5. TypeOK'
  BY <1>1, <1>2, <1>3, <1>4, StillListed DEF Inv, TypeOK, Ref
<1>6. NeverLate' /\ StopsInTime' /\ PhaseInv'
  BY <1>1, <1>2, <1>3, StillListed DEF Inv, NeverLate, StopsInTime, PhaseInv
<1>7. ClockInv'
  <2>1. /\ last_run_time[Clock] % interval[Clock] = 0
        /\ next_run_time[Clock] = last_run_time[Clock] + interval[Clock]
    BY <1>1 DEF Inv, ClockInv, PeriodsAreKept
  <2>2. last_run_time[Clock] \in Nat /\ interval[Clock] \in Nat \ {0} /\ Clock \in Events
    BY Types, Found
  <2>3. CASE head = Clock
    <3>1. last_run_time'[Clock] = next_run_time[Clock]
      BY <1>1, <1>2, <2>3, Types
    <3>2. last_run_time'[Clock] % interval[Clock] = 0
      BY <3>1, <2>1, <2>2, OnePeriodMore
    <3>3. next_run_time'[Clock] = last_run_time'[Clock] + 0
      BY <3>1, <2>1, <2>2, <1>1
    <3> QED
      BY <1>1, <2>3, <3>2, <3>3 DEF ClockInv, PeriodsAreKept
  <2>4. CASE head # Clock
    <3>1. last_run_time'[Clock] = last_run_time[Clock]
      BY <1>1, <2>4, Types
    <3> QED
      BY <1>1, <2>1, <2>4, <3>1 DEF ClockInv, PeriodsAreKept
  <2> QED
    BY <2>3, <2>4
<1> QED
  BY <1>1, <1>5, <1>6, <1>7, StillListed DEF Inv

-----------------------------------------------------------------------------
(* The end of a callback. *)

\* The event that was running is given the time that was kept for it.
LEMMA RescheduleKeepsList ==
  ASSUME Inv, at = "callback", Reschedule(current_event), active' = active
  PROVE  /\ ListInv' /\ next_run_time' \in [Events -> Nat]
         /\ next_run_time'[head'] >= global_tick_counter
         /\ next_run_time'[Clock] = IF current_event = Clock THEN next_run_time[Clock] + interval[Clock]
                                    ELSE next_run_time[Clock]
<1> DEFINE e == current_event
           new == [next_run_time EXCEPT ![e] = current_event_next_run_time]
<1>1. /\ next_run_time \in [Events -> Nat] /\ Clock \in Events /\ active \in SUBSET Events /\ Clock \in active
      /\ \A x \in active : next_run_time[x] \in Nat /\ next_run_time[x] >= global_tick_counter
      /\ head \in active
  BY Found
<1>2. /\ current_event_next_run_time \in Nat /\ current_event_next_run_time >= global_tick_counter
      /\ e \in Events
      /\ e = Clock => current_event_next_run_time = next_run_time[Clock] + interval[Clock]
  BY Types DEF Inv, PhaseInv, ClockInv
<1>3. CASE e \in active
  <2>1. next_run_time' = new /\ SortEvent(e, next_run_time')
    BY <1>3 DEF Reschedule
  <2>2. /\ new \in [Events -> Nat] /\ new[e] = current_event_next_run_time
        /\ \A x \in Events : x # e => new[x] = next_run_time[x]
    BY <1>1, <1>2
  <2> HIDE DEF new, e
  <2>3. PICK pos : Listed(pos) /\ InOrder(active, next_run_time, pos)
    BY DEF Inv, ListInv
  <2>4. InOrder(active \ {e}, new, pos)
    BY <1>1, <2>2, <2>3 DEF InOrder
  <2>5. SortEvent(e, new)
    BY <2>1
  <2> DEFINE ev == e
  <2>6. ev \in active /\ SortEvent(ev, new) /\ InOrder(active \ {ev}, new, pos)
    BY <1>3, <2>4, <2>5
  <2> HIDE DEF ev
  <2>7. OrderedNext(new)
    BY <2>2, <2>3, <2>6, SortKeepsOrder
  <2>8. ListInv'
    BY <1>1, <2>1, <2>7, OrderedNextIsList
  <2>9. next_run_time' \in [Events -> Nat] /\ head' \in active'
    BY <2>1, <2>2, <2>8, HeadStaysInList
  <2>10. next_run_time'[head'] >= global_tick_counter
    BY <1>1, <1>2, <2>1, <2>2, <2>9
  <2>11. next_run_time'[Clock] = IF e = Clock THEN next_run_time[Clock] + interval[Clock] ELSE next_run_time[Clock]
    BY <1>1, <1>2, <2>1, <2>2
  <2> QED
    BY <2>8, <2>9, <2>10, <2>11 DEF e
<1>4. CASE e \notin active
  <2>1. UNCHANGED <<list, next_run_time>>
    BY <1>4 DEF Reschedule
  <2>2. ListInv'
    BY <2>1, SameList DEF Inv
  <2>3. head' = head
    BY <2>1 DEF list
  <2> QED
    BY <1>1, <1>4, <2>1, <2>2, <2>3
<1> QED
  BY <1>3, <1>4

\* A callback returns, or is abandoned.
LEMMA CallbackEndsKeepsInv ==
  ASSUME Inv, CallbackReturns \/ CancelRunningEvent
  PROVE  Inv'
<1>1. /\ at = "callback" /\ Reschedule(current_event)
      /\ active' = active /\ last_run_time' = last_run_time /\ interval' = interval
      /\ current_event_next_run_time' = current_event_next_run_time
      /\ global_tick_counter' = global_tick_counter /\ event_run_tick_counter' = event_run_tick_counter
      /\ pending_ticks' = pending_ticks /\ downcount' = downcount /\ interrupt' = interrupt
      /\ \/ at' = "loop" /\ current_event' = current_event
         \/ at' = "stopped" /\ current_event' = NULL
  BY DEF CallbackReturns, CancelRunningEvent, Stopped, running, clock, cpu
<1>2. /\ ListInv' /\ next_run_time' \in [Events -> Nat]
      /\ next_run_time'[head'] >= global_tick_counter
      /\ next_run_time'[Clock] = IF current_event = Clock THEN next_run_time[Clock] + interval[Clock]
                                 ELSE next_run_time[Clock]
  BY <1>1, RescheduleKeepsList
<1>3. /\ head' \in Events /\ tail' \in Events /\ active' \subseteq Events
      /\ prev' \in [Events -> Ref] /\ next' \in [Events -> Ref]
  BY <1>2, HeadStaysInList
<1>4. TypeOK'
  BY <1>1, <1>2, <1>3, Types DEF Inv, TypeOK, Ref
<1>5. NeverLate' /\ StopsInTime' /\ PhaseInv'
  BY <1>1, <1>2 DEF Inv, NeverLate, StopsInTime, PhaseInv
<1>6. ClockInv'
  <2>1. /\ last_run_time[Clock] % interval[Clock] = 0
        /\ next_run_time[Clock] = last_run_time[Clock] + (IF current_event = Clock THEN 0 ELSE interval[Clock])
    BY <1>1 DEF Inv, ClockInv, PeriodsAreKept
  <2>2. last_run_time[Clock] \in Nat /\ interval[Clock] \in Nat
    BY Types, Found
  <2>3. next_run_time'[Clock] = last_run_time[Clock] + interval[Clock]
    BY <1>2, <2>1, <2>2
  <2> QED
    BY <1>1, <2>1, <2>3 DEF ClockInv, PeriodsAreKept
<1> QED
  BY <1>2, <1>4, <1>5, <1>6 DEF Inv

\* The counter moves on to the next event, or the loop ends.
LEMMA AdvanceTimeKeepsInv ==
  ASSUME Inv, AdvanceTime
  PROVE  Inv'
<1>1. /\ UNCHANGED <<list, active, next_run_time, interval>> /\ last_run_time' = last_run_time
      /\ current_event_next_run_time' = current_event_next_run_time
      /\ event_run_tick_counter' = event_run_tick_counter
      /\ pending_ticks' = pending_ticks /\ downcount' = downcount /\ interrupt' = interrupt
      /\ at = "loop" /\ global_tick_counter < next_run_time[head]
  BY DEF AdvanceTime, times, cpu
<1>2. global_tick_counter \in Nat /\ event_run_tick_counter \in Nat /\ next_run_time[head] \in Nat
      /\ global_tick_counter <= event_run_tick_counter
  BY Types DEF Inv, NeverLate
<1>3. CASE event_run_tick_counter > global_tick_counter
  <2>1. /\ global_tick_counter' = IF event_run_tick_counter < next_run_time[head] THEN event_run_tick_counter
                                  ELSE next_run_time[head]
        /\ current_event' = current_event /\ at' = at
    BY <1>3 DEF AdvanceTime, Earliest
  <2>2. TypeOK'
    BY <1>1, <1>2, <2>1, StillListed DEF Inv, TypeOK
  <2>3. NeverLate'
    BY <1>1, <1>2, <2>1, StillListed DEF NeverLate
  <2>4. StopsInTime' /\ PhaseInv'
    BY <1>1, <2>1 DEF StopsInTime, PhaseInv
  <2>5. ClockInv'
    BY <1>1, <2>1, StillListed DEF Inv, ClockInv, PeriodsAreKept
  <2> QED
    BY <1>1, <2>2, <2>3, <2>4, <2>5, StillListed DEF Inv
<1>4. CASE ~(event_run_tick_counter > global_tick_counter)
  <2>1. at' = "dispatch" /\ current_event' = NULL /\ global_tick_counter' = global_tick_counter
    BY <1>4 DEF AdvanceTime
  <2>2. TypeOK'
    BY <1>1, <2>1, StillListed DEF Inv, TypeOK, Ref
  <2>3. NeverLate' /\ StopsInTime'
    BY <1>1, <2>1, StillListed DEF Inv, NeverLate, StopsInTime
  <2>4. PhaseInv'
    BY <1>1, <1>2, <1>4, <2>1 DEF PhaseInv
  <2>5. ClockInv'
    BY <1>1, <2>1, StillListed DEF Inv, ClockInv, PeriodsAreKept
  <2> QED
    BY <1>1, <2>2, <2>3, <2>4, <2>5, StillListed DEF Inv
<1> QED
  BY <1>3, <1>4

\* The downcount is found anew before the CPU runs.
LEMMA DispatchKeepsInv ==
  ASSUME Inv, Dispatch
  PROVE  Inv'
<1>1. /\ UNCHANGED <<list, active, next_run_time, interval>> /\ last_run_time' = last_run_time
      /\ current_event' = current_event /\ current_event_next_run_time' = current_event_next_run_time
      /\ global_tick_counter' = global_tick_counter /\ event_run_tick_counter' = event_run_tick_counter
      /\ pending_ticks' = pending_ticks /\ interrupt' = FALSE
      /\ downcount' = next_run_time[head] - global_tick_counter
      /\ at = "dispatch" /\ at' \in {"run", "cpu"}
  BY DEF Dispatch, times, running, clock
<1>2. global_tick_counter \in Nat /\ next_run_time[head] \in Nat /\ next_run_time[head] >= global_tick_counter
  BY Types DEF Inv, NeverLate
<1>2a. downcount' \in Nat
  BY <1>1, <1>2
<1>3. TypeOK'
  BY <1>1, <1>2a, StillListed DEF Inv, TypeOK
<1>4. NeverLate' /\ PhaseInv'
  BY <1>1, <1>2, StillListed DEF Inv, NeverLate, PhaseInv
<1>5. StopsInTime'
  BY <1>1, <1>2, StillListed DEF Inv, StopsInTime, PhaseInv
<1>6. ClockInv'
  BY <1>1, StillListed DEF Inv, ClockInv, PeriodsAreKept
<1> QED
  BY <1>1, <1>3, <1>4, <1>5, <1>6, StillListed DEF Inv

-----------------------------------------------------------------------------
(* The theorems. *)

\* The invariant holds at first.
LEMMA InvInit == Init => Inv
<1> SUFFICES ASSUME Init PROVE Inv
  OBVIOUS
<1>1. /\ interval \in [Events -> Ticks] /\ Ticks \subseteq Nat \ {0} /\ Clock \in Events /\ NULL \notin Events
      /\ next_run_time = interval /\ last_run_time = [e \in Events |-> 0]
      /\ active = {Clock} /\ head = Clock /\ tail = Clock
      /\ prev = [e \in Events |-> NULL] /\ next = [e \in Events |-> NULL]
      /\ current_event = NULL /\ current_event_next_run_time = 0
      /\ global_tick_counter = 0 /\ event_run_tick_counter = 0 /\ pending_ticks = 0
      /\ downcount = next_run_time[head] /\ interrupt = FALSE /\ at = "cpu"
  BY TimingAssumption DEF Init
<1>2. next_run_time \in [Events -> Nat] /\ interval[Clock] \in Nat \ {0}
  BY <1>1
<1>2a. downcount \in Nat /\ last_run_time \in [Events -> Nat]
  BY <1>1, <1>2
<1>2b. prev \in [Events -> Ref] /\ next \in [Events -> Ref] /\ current_event \in Ref
  BY <1>1 DEF Ref
<1>3. TypeOK
  BY <1>1, <1>2, <1>2a, <1>2b DEF TypeOK
<1>4. ListInv
  <2> DEFINE pos == [e \in Events |-> 0]
  <2>1. pos \in Positions /\ Negative(pos) \in Positions
    BY NegativeType DEF Positions
  <2>2. Line(active, head, next, pos) /\ Line(active, tail, prev, Negative(pos))
    BY <1>1, <2>1 DEF Line, Positions
  <2>3. Listed(pos) /\ InOrder(active, next_run_time, pos)
    BY <1>1, <2>1, <2>2 DEF Listed, Chain, InOrder, Ref
  <2> QED
    BY <1>1, <2>3 DEF ListInv
<1>5. NeverLate /\ StopsInTime /\ PhaseInv
  BY <1>1, <1>2 DEF NeverLate, StopsInTime, PhaseInv
<1>6. ClockInv
  <2>1. 0 % interval[Clock] = 0
    BY <1>2
  <2> QED
    BY <1>1, <1>2, <2>1 DEF ClockInv, PeriodsAreKept
<1> QED
  BY <1>3, <1>4, <1>5, <1>6 DEF Inv

\* So does a step that changes nothing.
LEMMA StutterKeepsInv ==
  ASSUME Inv, UNCHANGED vars
  PROVE  Inv'
<1>1. UNCHANGED <<list, active, next_run_time, interval>>
  BY DEF vars, times
<1>2. /\ last_run_time' = last_run_time
      /\ current_event' = current_event /\ current_event_next_run_time' = current_event_next_run_time
      /\ global_tick_counter' = global_tick_counter /\ event_run_tick_counter' = event_run_tick_counter
      /\ pending_ticks' = pending_ticks /\ downcount' = downcount /\ interrupt' = interrupt /\ at' = at
  BY DEF vars, times, running, clock, cpu
<1>3. TypeOK'
  BY <1>1, <1>2, StillListed DEF Inv, TypeOK
<1>4. NeverLate' /\ StopsInTime' /\ PhaseInv' /\ ClockInv'
  BY <1>1, <1>2, StillListed DEF Inv, NeverLate, StopsInTime, PhaseInv, ClockInv, PeriodsAreKept
<1> QED
  BY <1>1, <1>3, <1>4, StillListed DEF Inv

\* Every step keeps the invariant.
LEMMA InvNext == Inv /\ [Next]_vars => Inv'
<1> SUFFICES ASSUME Inv, [Next]_vars PROVE Inv'
  OBVIOUS
<1>1. CASE DeviceStep
  <2>1. ASSUME NEW e \in Events \ {Clock},
               Schedule(e) \/ SetIntervalAndSchedule(e) \/ Activate(e) \/ Deactivate(e) \/ Delay(e)
               \/ InvokeEarly(e) \/ InvokeEarlyNoReschedule(e)
        PROVE  Inv'
    BY <2>1, ScheduleKeepsInv, SetIntervalAndScheduleKeepsInv, ActivateKeepsInv, DeactivateKeepsInv,
       DelayKeepsInv, InvokeEarlyKeepsInv, InvokeEarlyNoRescheduleKeepsInv
  <2> QED
    BY <1>1, <2>1, AddPendingTicksKeepsInv, RaiseInterruptKeepsInv, LowerInterruptKeepsInv DEF DeviceStep
<1>2. CASE CheckEvents \/ ExitExecution
  BY <1>2, CheckEventsKeepsInv
<1>3. CASE RunEvents
  BY <1>3, RunEventsKeepsInv
<1>4. CASE RunEvent
  BY <1>4, RunEventKeepsInv
<1>5. CASE CallbackReturns \/ CancelRunningEvent
  BY <1>5, CallbackEndsKeepsInv
<1>6. CASE AdvanceTime
  BY <1>6, AdvanceTimeKeepsInv
<1>7. CASE Dispatch
  BY <1>7, DispatchKeepsInv
<1>8. CASE CommitLeftoverTicks
  BY <1>8, CommitLeftoverTicksKeepsInv
<1>9. CASE UNCHANGED vars
  BY <1>9, StutterKeepsInv
<1> QED
  BY <1>1, <1>2, <1>3, <1>4, <1>5, <1>6, <1>7, <1>8, <1>9 DEF Next

\* The inductive invariant.
THEOREM InvAlways == Spec => []Inv
  BY InvInit, InvNext, PTL DEF Spec

\* Type correctness, for any number of events, any intervals and any delays:
\* no counter and no downcount is ever negative.
THEOREM TypeCorrect == Spec => []TypeOK
<1>1. Inv => TypeOK
  BY DEF Inv
<1> QED
  BY <1>1, InvAlways, PTL

\* Whatever callbacks schedule, deactivate, delay or invoke early, the list
\* holds the active events once each, in the order they are due, the same in
\* both directions.
THEOREM AlwaysSorted == Spec => []ListIsSorted
<1>1. Inv => ListIsSorted
  BY OrderIsSorted DEF Inv, TypeOK
<1> QED
  BY <1>1, InvAlways, PTL

\* No event is run late, and none is passed over.
THEOREM NeverAnyLate == Spec => []NeverLate
<1>1. Inv => NeverLate
  BY DEF Inv
<1> QED
  BY <1>1, InvAlways, PTL

\* The CPU never runs on past the first event, nor with an interrupt pending.
THEOREM AlwaysStopsInTime == Spec => []StopsInTime
<1>1. Inv => StopsInTime
  BY DEF Inv
<1> QED
  BY <1>1, InvAlways, PTL

\* An event nobody reschedules runs once per interval, exactly.
THEOREM PeriodsAreAlwaysKept == Spec => []PeriodsAreKept
<1>1. Inv => PeriodsAreKept
  BY DEF Inv, ClockInv
<1> QED
  BY <1>1, InvAlways, PTL

\* Only what runs takes time, and the devices' time never goes back.
THEOREM TimeIsAlwaysConserved == Spec => TimeIsConserved
<1> DEFINE Conserved ==
      /\ AddPendingTicks \/ event_run_tick_counter' + pending_ticks' = event_run_tick_counter + pending_ticks
      /\ global_tick_counter' >= global_tick_counter
<1>1. Inv /\ [Next]_vars => [Conserved]_vars
  <2> SUFFICES ASSUME Inv, Next PROVE Conserved
    OBVIOUS
  <2>1. /\ global_tick_counter \in Nat /\ event_run_tick_counter \in Nat /\ pending_ticks \in Nat
        /\ global_tick_counter <= event_run_tick_counter
        /\ next_run_time[head] \in Nat /\ global_tick_counter <= next_run_time[head]
    BY Types DEF Inv, NeverLate
  <2>2. ASSUME UNCHANGED clock, UNCHANGED pending_ticks PROVE Conserved
    BY <2>1, <2>2 DEF clock
  <2>3. CASE DeviceStep
    <3>1. ASSUME NEW e \in Events \ {Clock},
                 Schedule(e) \/ SetIntervalAndSchedule(e) \/ Activate(e) \/ Deactivate(e) \/ Delay(e)
                 \/ InvokeEarly(e) \/ InvokeEarlyNoReschedule(e)
          PROVE  UNCHANGED clock /\ UNCHANGED pending_ticks
      BY <3>1 DEF Schedule, SetIntervalAndSchedule, Activate, Deactivate, Delay, InvokeEarly,
                  InvokeEarlyNoReschedule, UntouchedByEvents, cpu
    <3>2. CASE AddPendingTicks
      BY <2>1, <3>2 DEF AddPendingTicks, clock
    <3>3. CASE RaiseInterrupt \/ LowerInterrupt
      BY <2>2, <3>3 DEF RaiseInterrupt, LowerInterrupt, cpu
    <3> QED
      BY <2>2, <2>3, <3>1, <3>2, <3>3 DEF DeviceStep
  <2>4. CASE CheckEvents \/ RunEvent \/ CallbackReturns \/ Dispatch \/ CancelRunningEvent \/ ExitExecution
    <3>1. UNCHANGED clock /\ UNCHANGED pending_ticks
      BY <2>4 DEF CheckEvents, RunEvent, CallbackReturns, Dispatch, CancelRunningEvent, Stopped,
                  ExitExecution, cpu
    <3> QED
      BY <2>2, <3>1
  <2>5. CASE RunEvents
    <3>1. CASE UNCHANGED <<clock, pending_ticks>>
      BY <2>2, <3>1
    <3>2. CASE /\ pending_ticks' = 0
               /\ event_run_tick_counter' = event_run_tick_counter + pending_ticks
               /\ global_tick_counter' = Earliest(event_run_tick_counter + pending_ticks, next_run_time[head])
      BY <2>1, <3>2 DEF Earliest
    <3> QED
      BY <2>5, <3>1, <3>2 DEF RunEvents, CommitGlobalTicks
  <2>6. CASE AdvanceTime
    <3>1. /\ event_run_tick_counter' = event_run_tick_counter /\ pending_ticks' = pending_ticks
          /\ \/ global_tick_counter' = global_tick_counter
             \/ global_tick_counter' = Earliest(event_run_tick_counter, next_run_time[head])
      BY <2>6 DEF AdvanceTime, cpu
    <3> QED
      BY <2>1, <3>1 DEF Earliest
  <2>7. CASE CommitLeftoverTicks
    <3>1. /\ event_run_tick_counter' = event_run_tick_counter /\ pending_ticks' = pending_ticks
          /\ global_tick_counter' = Earliest(event_run_tick_counter, next_run_time[head])
      BY <2>7 DEF CommitLeftoverTicks, CommitGlobalTicks, cpu
    <3> QED
      BY <2>1, <3>1 DEF Earliest
  <2> QED
    BY <2>3, <2>4, <2>5, <2>6, <2>7 DEF Next
<1>2. [][Conserved]_vars => TimeIsConserved
  BY PTL DEF TimeIsConserved
<1> QED
  BY <1>1, <1>2, InvAlways, PTL DEF Spec
=============================================================================
