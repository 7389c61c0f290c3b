--------------------------- MODULE EvaluatorProofs ---------------------------
(***************************************************************************)
(* The Evaluator of pkg/stats, for any items, rules, values and faults:    *)
(* what it counts is true whatever comes between two minutes, no alert is  *)
(* missed or outlives its cause unless the documentation excepts it, and   *)
(* the events tell exactly what Active says.                               *)
(***************************************************************************)
EXTENDS Evaluator, WellFoundedInduction, SequenceTheorems, TLAPS

-----------------------------------------------------------------------------
(* Least and greatest numbers of a set.                                    *)

LEMMA NatLeast ==
    ASSUME NEW T, T \subseteq Nat, T # {}
    PROVE  \E x \in T : \A y \in T : x <= y
<1>1. \E x \in T : \A y \in T : ~ (<<y, x>> \in OpToRel(<, Nat))
      BY NatLessThanWellFounded, WFMin
<1>2. PICK x \in T : \A y \in T : ~ (<<y, x>> \in OpToRel(<, Nat)) BY <1>1
<1>3. ASSUME NEW y \in T PROVE x <= y
      <2>1. x \in Nat /\ y \in Nat OBVIOUS
      <2>2. ~ (<<y, x>> \in OpToRel(<, Nat)) BY <1>2
      <2>3. y < x => <<y, x>> \in OpToRel(<, Nat) BY <2>1 DEF OpToRel
      <2>4. ~ (y < x) BY <2>2, <2>3, Zenon
      <2>. QED BY ONLY <2>1, <2>4
<1>. QED BY <1>3

LEMMA MaxOf ==
    ASSUME NEW n \in Nat, NEW S, S \subseteq 0..n, S # {}
    PROVE  Max(S) \in S /\ \A y \in S : y <= Max(S)
<1>. DEFINE T == {n - x : x \in S}
<1>1. T \subseteq Nat /\ T # {}
      <2>1. \A x \in S : n - x \in Nat OBVIOUS
      <2>2. T \subseteq Nat BY <2>1
      <2>3. PICK x \in S : TRUE OBVIOUS
      <2>4. n - x \in T OBVIOUS
      <2>. QED BY <2>2, <2>4
<1>2. PICK t \in T : \A u \in T : t <= u
      <2>. HIDE DEF T
      <2>. QED BY <1>1, NatLeast
<1>3. PICK x \in S : t = n - x OBVIOUS
<1>4. ASSUME NEW y \in S PROVE x >= y
      <2>1. n - y \in T OBVIOUS
      <2>2. t <= n - y BY <1>2, <2>1
      <2>3. x \in Nat /\ y \in Nat OBVIOUS
      <2>. QED BY <1>3, <2>2, <2>3
<1>5. Max(S) \in S /\ \A y \in S : Max(S) >= y
      <2>1. \E z \in S : \A y \in S : z >= y BY <1>4
      <2>. QED BY <2>1 DEF Max
<1>. QED BY <1>5

LEMMA MaxOfTwo ==
    ASSUME NEW a \in Nat, NEW b \in Nat
    PROVE  Max({a, b}) \in {a, b} /\ a <= Max({a, b}) /\ b <= Max({a, b})
<1>. DEFINE n == IF a <= b THEN b ELSE a
<1>1. n \in Nat /\ {a, b} \subseteq 0..n /\ {a, b} # {} OBVIOUS
<1>. HIDE DEF n
<1>2. Max({a, b}) \in {a, b} /\ \A y \in {a, b} : y <= Max({a, b}) BY <1>1, MaxOf
<1>. QED BY <1>2

-----------------------------------------------------------------------------
(* The events of a step: those of all keys, one after the other.           *)

\* f is the function by which FlattenSeq is defined, up to n.
Flattens(f, q, n) == f = [j \in 1..n |-> IF j = 1 THEN q[j] ELSE f[j - 1] \o q[j]]

\* The recursive function by which FlattenSeq is defined exists.
LEMMA FlattenExists ==
    ASSUME NEW E, NEW q \in Seq(Seq(E)), NEW n \in Nat, n <= Len(q)
    PROVE  \E f \in [1..n -> Seq(E)] : Flattens(f, q, n)
<1>. USE DEF Flattens
<1>. DEFINE Good(m) == \E f \in [1..m -> Seq(E)] :
                           f = [j \in 1..m |-> IF j = 1 THEN q[j] ELSE f[j - 1] \o q[j]]
            Bad == {m \in 0..Len(q) : ~Good(m)}
<1>1. Len(q) \in Nat OBVIOUS
<1>2. SUFFICES ASSUME ~Good(n) PROVE FALSE OBVIOUS
<1>3. Bad \subseteq Nat /\ Bad # {}
      <2>. HIDE DEF Good
      <2>. QED BY <1>1, <1>2
<1>4. PICK m \in Bad : \A y \in Bad : m <= y
      <2>. HIDE DEF Bad
      <2>. QED BY <1>3, NatLeast
<1>5. m \in 0..Len(q) /\ ~Good(m) OBVIOUS
<1>6. Good(0)
      <2>. DEFINE f == [j \in 1..0 |-> q[j]]
      <2>1. f \in [1..0 -> Seq(E)] OBVIOUS
      <2>2. f = [j \in 1..0 |-> IF j = 1 THEN q[j] ELSE f[j - 1] \o q[j]] OBVIOUS
      <2>. QED BY <2>1, <2>2
<1>7. m # 0 BY <1>5, <1>6
<1>8. m - 1 \in 0..Len(q) /\ ~ (m <= m - 1) BY <1>1, <1>5, <1>7
<1>9. Good(m - 1)
      <2>1. m - 1 \notin Bad BY <1>4, <1>8
      <2>. QED BY <1>8, <2>1
<1>10. PICK g \in [1..(m - 1) -> Seq(E)] :
               g = [j \in 1..(m - 1) |-> IF j = 1 THEN q[j] ELSE g[j - 1] \o q[j]]
       BY <1>9
<1>. DEFINE f == [j \in 1..m |-> IF j < m THEN g[j] ELSE IF j = 1 THEN q[j] ELSE g[j - 1] \o q[j]]
<1>11. \A j \in 1..(m - 1) : f[j] = g[j]
       <2>1. m \in Nat BY <1>1, <1>5
       <2>2. \A j \in 1..(m - 1) : j \in 1..m /\ j < m BY <2>1
       <2>. QED BY <2>2
<1>12. \A j \in 1..m : q[j] \in Seq(E) BY <1>5
<1>13. f \in [1..m -> Seq(E)]
       <2>1. ASSUME NEW j \in 1..m PROVE f[j] \in Seq(E)
             <3>1. CASE j < m
                   <4>1. j \in 1..(m - 1) BY <1>5, <3>1
                   <4>. QED BY <3>1, <4>1
             <3>2. CASE j = m /\ j = 1 BY <1>12, <3>2
             <3>3. CASE j = m /\ j # 1
                   <4>1. j - 1 \in 1..(m - 1) BY <1>5, <3>3
                   <4>2. g[j - 1] \in Seq(E) /\ q[j] \in Seq(E) BY <1>12, <4>1
                   <4>3. g[j - 1] \o q[j] \in Seq(E) BY <4>2, ConcatProperties
                   <4>. QED BY <3>3, <4>3
             <3>. QED BY <1>5, <3>1, <3>2, <3>3
       <2>. QED BY <2>1
<1>14. ASSUME NEW j \in 1..m PROVE f[j] = IF j = 1 THEN q[j] ELSE f[j - 1] \o q[j]
       <2>1. j # 1 => j - 1 \in 1..(m - 1) /\ f[j - 1] = g[j - 1] BY <1>5, <1>11
       <2>2. CASE j < m
             <3>1. j \in 1..(m - 1) BY <1>5, <2>2
             <3>2. f[j] = IF j = 1 THEN q[j] ELSE g[j - 1] \o q[j] BY <1>10, <1>11, <3>1
             <3>. QED BY <2>1, <3>2
       <2>3. CASE j = m
             <3>1. f[j] = IF j = 1 THEN q[j] ELSE g[j - 1] \o q[j] BY <1>5, <2>3
             <3>. QED BY <2>1, <3>1
       <2>. QED BY <1>5, <2>2, <2>3
<1>15. f = [j \in 1..m |-> IF j = 1 THEN q[j] ELSE f[j - 1] \o q[j]]
       BY <1>14
<1>16. \E h \in [1..m -> Seq(E)] :
           h = [j \in 1..m |-> IF j = 1 THEN q[j] ELSE h[j - 1] \o q[j]]
       <2>. HIDE DEF f
       <2>. QED BY <1>13, <1>15
<1>. QED BY <1>5, <1>16

LEMMA RangeConcat ==
    ASSUME NEW E, NEW s \in Seq(E), NEW t \in Seq(E)
    PROVE  s \o t \in Seq(E) /\ Range(s \o t) = Range(s) \cup Range(t)
<1>1. /\ s \o t \in Seq(E) /\ Len(s \o t) = Len(s) + Len(t)
      /\ \A i \in 1..(Len(s) + Len(t)) :
             (s \o t)[i] = IF i <= Len(s) THEN s[i] ELSE t[i - Len(s)]
      BY ConcatProperties
<1>. DEFINE u == s \o t
<1>2. /\ Len(s) \in Nat /\ Len(t) \in Nat /\ DOMAIN s = 1..Len(s) /\ DOMAIN t = 1..Len(t)
      OBVIOUS
<1>3. DOMAIN u = 1..(Len(s) + Len(t)) BY <1>1
<1>. HIDE DEF u
<1>4. ASSUME NEW i \in DOMAIN u PROVE u[i] \in Range(s) \cup Range(t)
      <2>1. CASE i <= Len(s)
            <3>1. i \in DOMAIN s /\ u[i] = s[i] BY <1>1, <1>2, <1>3, <2>1 DEF u
            <3>. QED BY <3>1 DEF Range
      <2>2. CASE ~ (i <= Len(s))
            <3>1. i - Len(s) \in DOMAIN t /\ u[i] = t[i - Len(s)]
                  BY <1>1, <1>2, <1>3, <2>2 DEF u
            <3>. QED BY <3>1 DEF Range
      <2>. QED BY <2>1, <2>2
<1>5. ASSUME NEW i \in DOMAIN s PROVE s[i] \in Range(u)
      <2>1. i \in DOMAIN u /\ u[i] = s[i] BY <1>1, <1>2, <1>3 DEF u
      <2>. QED BY <2>1 DEF Range
<1>6. ASSUME NEW i \in DOMAIN t PROVE t[i] \in Range(u)
      <2>1. PICK k \in Int : k = i + Len(s) BY <1>2
      <2>2. k \in DOMAIN u /\ ~ (k <= Len(s)) /\ k - Len(s) = i BY <1>2, <1>3, <2>1
      <2>3. u[k] = t[i] BY <1>1, <1>3, <2>2 DEF u
      <2>. QED BY <2>2, <2>3 DEF Range
<1>7. Range(u) = Range(s) \cup Range(t) BY <1>4, <1>5, <1>6 DEF Range
<1>. QED BY <1>1, <1>7 DEF u

\* What the first sequences hold is what their concatenation holds.
LEMMA FlattenHolds ==
    ASSUME NEW E, NEW q \in Seq(Seq(E)), NEW f, Flattens(f, q, Len(q)),
           NEW n \in 1..Len(q)
    PROVE  /\ f[n] \in Seq(E)
           /\ \A e : e \in Range(f[n]) <=> \E i \in 1..n : e \in Range(q[i])
<1>. DEFINE Held(j) == /\ f[j] \in Seq(E)
                       /\ \A e : e \in Range(f[j]) <=> \E i \in 1..j : e \in Range(q[i])
            Bad == {j \in 1..Len(q) : ~Held(j)}
<1>1. Len(q) \in Nat /\ \A j \in 1..Len(q) : q[j] \in Seq(E) OBVIOUS
<1>2. \A j \in 1..Len(q) : f[j] = IF j = 1 THEN q[j] ELSE f[j - 1] \o q[j]
      BY DEF Flattens
<1>3. SUFFICES ASSUME ~Held(n) PROVE FALSE OBVIOUS
<1>4. Bad \subseteq Nat /\ Bad # {}
      <2>. HIDE DEF Held
      <2>1. n \in Bad BY <1>3
      <2>2. \A j \in 1..Len(q) : j \in Nat BY <1>1
      <2>. QED BY <2>1, <2>2
<1>5. PICK j \in Bad : \A y \in Bad : j <= y
      <2>. HIDE DEF Bad
      <2>. QED BY <1>4, NatLeast
<1>6. j \in 1..Len(q) /\ j \in Nat /\ j >= 1 BY <1>1
<1>7. CASE j = 1
      <2>1. f[1] = q[1] /\ q[1] \in Seq(E) BY <1>1, <1>2, <1>6, <1>7
      <2>2. \A i \in 1..1 : i = 1 OBVIOUS
      <2>. QED BY <1>5, <1>7, <2>1, <2>2
<1>8. CASE j # 1
      <2>1. j - 1 \in 1..Len(q) /\ ~ (j <= j - 1) BY <1>1, <1>6, <1>8
      <2>2. Held(j - 1)
            <3>1. j - 1 \notin Bad BY <1>5, <2>1
            <3>. QED BY <2>1, <3>1
      <2>3. f[j] = f[j - 1] \o q[j] BY <1>2, <1>6, <1>8
      <2>4. f[j] \in Seq(E) /\ Range(f[j]) = Range(f[j - 1]) \cup Range(q[j])
            BY <1>1, <1>6, <2>2, <2>3, RangeConcat
      <2>5. 1..j = (1..(j - 1)) \cup {j} BY <1>6
      <2>7. Held(j) BY <2>2, <2>4, <2>5
      <2>. QED BY <1>5, <2>7
<1>. QED BY <1>7, <1>8

LEMMA FlattenRange ==
    ASSUME NEW E, NEW q \in Seq(Seq(E))
    PROVE  /\ FlattenSeq(q) \in Seq(E)
           /\ \A e : e \in Range(FlattenSeq(q)) <=> \E i \in DOMAIN q : e \in Range(q[i])
<1>1. Len(q) \in Nat /\ DOMAIN q = 1..Len(q) OBVIOUS
<1>2. CASE Len(q) = 0
      <2>1. q = <<>> /\ DOMAIN q = {} BY <1>1, <1>2
      <2>2. FlattenSeq(q) = q BY <1>2 DEF FlattenSeq
      <2>3. q \in Seq(E) BY <2>1
      <2>4. Range(q) = {} BY <2>1 DEF Range
      <2>. QED BY <2>1, <2>2, <2>3, <2>4
<1>3. CASE Len(q) # 0
      <2>. DEFINE c == CHOOSE f : Flattens(f, q, Len(q))
      <2>1. PICK f \in [1..Len(q) -> Seq(E)] : Flattens(f, q, Len(q))
            <3>1. PICK n \in Nat : n = Len(q) /\ n <= Len(q) OBVIOUS
            <3>. QED BY <3>1, FlattenExists
      <2>2. Flattens(c, q, Len(q)) BY <2>1
      <2>3. FlattenSeq(q) = c[Len(q)] BY <1>3 DEF FlattenSeq, Flattens
      <2>4. Len(q) \in 1..Len(q) BY <1>1, <1>3
      <2>. HIDE DEF c
      <2>5. /\ c[Len(q)] \in Seq(E)
            /\ \A e : e \in Range(c[Len(q)]) <=> \E i \in 1..Len(q) : e \in Range(q[i])
            <3>1. PICK n \in 1..Len(q) : n = Len(q) BY <2>4
            <3>2. PICK g : g = c OBVIOUS
            <3>3. Flattens(g, q, Len(q)) BY <2>2, <3>2
            <3>4. /\ g[n] \in Seq(E)
                  /\ \A e : e \in Range(g[n]) <=> \E i \in 1..n : e \in Range(q[i])
                  <4>1. q \in Seq(Seq(E)) OBVIOUS
                  <4>. QED BY ONLY <3>3, <4>1, FlattenHolds, ZenonT(40)
            <3>. QED BY <3>1, <3>2, <3>4
      <2>. QED BY <1>1, <2>3, <2>5
<1>. QED BY <1>2, <1>3

-----------------------------------------------------------------------------
(* Types.                                                                  *)

Vals     == Levels \cup {Absent}
RingType == UNION {[D -> [Keys -> Vals]] : D \in SUBSET (1..MaxMinute)}
State    == [rules : Rules, active : [Keys -> 0..MaxMinute],
             runs : [Keys -> 0..MaxRun], last : 0..MaxMinute]

\* The states put leaves: no minute counts for a run when there is none, and no
\* run is longer than there were minutes.
Good == {s \in State : /\ s.last = 0 <=> s.runs = None
                       /\ \A k \in Keys : s.runs[k] <= s.last}

StoreTypes == /\ clk \in Nat /\ clk >= 1
              /\ ring \in [Items -> RingType]
              /\ top \in [Items -> [1..MaxMinute -> [Keys -> Vals]]]
SmpTypes   == /\ smp \in [Items -> [pc : {"idle", "read", "judge"}, m : 0..MaxMinute,
                                    v : [Keys -> Vals]]]
              /\ \A i \in Items : smp[i].m <= clk /\ (smp[i].pc = "idle" <=> smp[i].m = 0)
FileTypes  == /\ saved = disk /\ saveErr \in BOOLEAN
              /\ disk \in {<<>>} \cup {<<d>> : d \in [Items -> Good]}
HistTypes  == /\ from \in [Items -> Nat \ {0}]
              /\ blind \in [Items -> BOOLEAN] /\ fileBlind \in [Items -> BOOLEAN]
              /\ told \in [Items -> [Keys -> BOOLEAN]]

Types == StoreTypes /\ SmpTypes /\ st \in [Items -> Good] /\ FileTypes /\ HistTypes

-----------------------------------------------------------------------------
(* Lemmas about the operators of the model.                                *)

LEMMA RuleFields ==
    ASSUME NEW s \in State, NEW k \in Keys
    PROVE  /\ s.rules[k].en \in BOOLEAN /\ s.rules[k].th \in Nat
           /\ s.rules[k].min \in 1..MaxRun /\ s.rules[k].min \in Nat /\ s.rules[k].min >= 1
           /\ s.active[k] \in 0..MaxMinute /\ s.active[k] \in Nat
           /\ s.runs[k] \in 0..MaxRun /\ s.runs[k] \in Nat
           /\ s.last \in 0..MaxMinute /\ s.last \in Nat
<1>. USE RulesAssumption, BoundsAssumption
<1>1. /\ s.rules \in Rules /\ s.active \in [Keys -> 0..MaxMinute]
      /\ s.runs \in [Keys -> 0..MaxRun] /\ s.last \in 0..MaxMinute
      BY DEF State
<1>2. s.rules[k] \in [en : BOOLEAN, th : Thresholds, min : Windows] BY <1>1 DEF Rules
<1>3. /\ s.rules[k].en \in BOOLEAN /\ s.rules[k].th \in Thresholds /\ s.rules[k].min \in Windows
      BY <1>2
<1>4. s.rules[k].th \in Nat /\ s.rules[k].min \in 1..MaxRun /\ MaxRun \in Nat BY <1>3
<1>5. /\ s.active[k] \in 0..MaxMinute /\ s.runs[k] \in 0..MaxRun /\ s.last \in 0..MaxMinute
      BY <1>1
<1>. QED BY <1>3, <1>4, <1>5

LEMMA RingDomain ==
    ASSUME StoreTypes, NEW i \in Items
    PROVE  /\ DOMAIN ring[i] \subseteq 1..MaxMinute
           /\ \A m \in DOMAIN ring[i] : ring[i][m] \in [Keys -> Vals]
<1>1. ring[i] \in RingType BY DEF StoreTypes
<1>2. PICK D \in SUBSET (1..MaxMinute) : ring[i] \in [D -> [Keys -> Vals]]
      BY <1>1 DEF RingType
<1>. QED BY <1>2

NewestOf(R) == IF DOMAIN R = {} THEN 0 ELSE Max(DOMAIN R)

LEMMA NewestOfLemma ==
    ASSUME NEW R \in RingType
    PROVE  /\ NewestOf(R) \in 0..MaxMinute /\ NewestOf(R) \in Nat
           /\ NewestOf(R) # 0 => NewestOf(R) \in DOMAIN R
           /\ \A m \in DOMAIN R : m <= NewestOf(R)
<1>1. DOMAIN R \subseteq 0..MaxMinute
      <2>1. PICK D \in SUBSET (1..MaxMinute) : R \in [D -> [Keys -> Vals]] BY DEF RingType
      <2>. QED BY <2>1
<1>2. CASE DOMAIN R = {} BY <1>2, BoundsAssumption DEF NewestOf
<1>3. CASE DOMAIN R # {}
      <2>1. /\ Max(DOMAIN R) \in DOMAIN R
            /\ \A y \in DOMAIN R : y <= Max(DOMAIN R)
            BY <1>1, <1>3, MaxOf, BoundsAssumption
      <2>2. NewestOf(R) = Max(DOMAIN R) BY <1>3 DEF NewestOf
      <2>. QED BY <1>1, <2>1, <2>2, BoundsAssumption
<1>. QED BY <1>2, <1>3

LEMMA NewestLemma ==
    ASSUME StoreTypes, NEW i \in Items
    PROVE  /\ Newest(i) \in 0..MaxMinute /\ Newest(i) \in Nat
           /\ Newest(i) # 0 => Newest(i) \in DOMAIN ring[i]
           /\ \A m \in DOMAIN ring[i] : m <= Newest(i)
<1>1. ring[i] \in RingType BY DEF StoreTypes
<1>2. Newest(i) = NewestOf(ring[i]) BY DEF Newest, NewestOf
<1>. QED BY <1>1, <1>2, NewestOfLemma

LEMMA ValueLemma ==
    ASSUME StoreTypes, NEW i \in Items, NEW k \in Keys, NEW m
    PROVE  /\ Value(i, k, m) \in Vals /\ Value(i, k, m) \in Int
           /\ \A th \in Nat : Value(i, k, m) >= th =>
                  m \in DOMAIN ring[i] /\ Value(i, k, m) = ring[i][m][k]
<1>1. CASE m \in DOMAIN ring[i]
      <2>1. ring[i][m] \in [Keys -> Vals] BY <1>1, RingDomain
      <2>2. Value(i, k, m) = ring[i][m][k] BY <1>1 DEF Value
      <2>3. Value(i, k, m) \in Vals BY <2>1, <2>2
      <2>4. Vals \subseteq Int BY RulesAssumption DEF Vals, Absent
      <2>. QED BY <1>1, <2>2, <2>3, <2>4
<1>2. CASE m \notin DOMAIN ring[i]
      <2>1. Value(i, k, m) = -1 BY <1>2 DEF Value, Absent
      <2>2. \A th \in Nat : ~ (-1 >= th) OBVIOUS
      <2>. QED BY <2>1, <2>2 DEF Vals, Absent
<1>. QED BY <1>1, <1>2

\* A state with other rules, and one with other runs and alerts.
LEMMA ExceptFields ==
    ASSUME NEW s \in State
    PROVE  /\ \A rs \in Rules :
                  LET t == [s EXCEPT !.rules = rs]
                  IN  t \in State /\ t.rules = rs /\ t.active = s.active /\ t.runs = s.runs
                      /\ t.last = s.last
           /\ LET t == [s EXCEPT !.last = 0]
              IN  t \in State /\ t.rules = s.rules /\ t.active = s.active /\ t.runs = s.runs
                  /\ t.last = 0
           /\ [s EXCEPT !.rules = s.rules] = s
BY BoundsAssumption DEF State

\* What put keeps of a state.
Put(s) == IF s.runs = None THEN [s EXCEPT !.last = 0] ELSE s

LEMMA PutFields ==
    ASSUME NEW s \in State, \A k \in Keys : s.runs[k] <= s.last,
           s.last = 0 => s.runs = None
    PROVE  /\ Put(s) \in Good /\ Put(s).rules = s.rules /\ Put(s).active = s.active
           /\ Put(s).runs = s.runs
           /\ s.runs # None => Put(s).last = s.last
<1>1. CASE s.runs = None
      <2>1. Put(s) = [s EXCEPT !.last = 0] BY <1>1 DEF Put
      <2>2. /\ Put(s) \in State /\ Put(s).rules = s.rules /\ Put(s).active = s.active
            /\ Put(s).runs = s.runs /\ Put(s).last = 0
            BY <2>1, ExceptFields
      <2>3. \A k \in Keys : None[k] = 0 BY DEF None
      <2>. QED BY <1>1, <2>2, <2>3 DEF Good
<1>2. CASE s.runs # None
      <2>1. Put(s) = s BY <1>2 DEF Put
      <2>. QED BY <1>2, <2>1 DEF Good
<1>. QED BY <1>1, <1>2

\* What Judge or a recount makes of all keys, before put.
LEMMA AppliedFields ==
    ASSUME NEW s \in State, NEW last \in 0..MaxMinute, NEW o,
           \A k \in Keys : o[k].run \in 0..MaxRun /\ o[k].active \in 0..MaxMinute
    PROVE  LET t == Applied(s, o, last)
           IN  /\ t \in State /\ t.rules = s.rules /\ t.last = last
               /\ t.runs = [k \in Keys |-> o[k].run]
               /\ t.active = [k \in Keys |-> o[k].active]
<1>1. PICK f : f = [k \in Keys |-> o[k].run] OBVIOUS
<1>2. PICK g : g = [k \in Keys |-> o[k].active] OBVIOUS
<1>3. f \in [Keys -> 0..MaxRun] /\ g \in [Keys -> 0..MaxMinute] BY <1>1, <1>2
<1>4. Applied(s, o, last) = [s EXCEPT !.runs = f, !.active = g, !.last = last]
      BY <1>1, <1>2 DEF Applied
<1>. QED BY <1>1, <1>2, <1>3, <1>4 DEF State

\* A minute that is not high ends the run and the alert; one that is makes the
\* run one longer, or 1, and fires if that makes it due.
LEMMA JudgedLemma ==
    ASSUME NEW s \in Good, NEW m \in 1..MaxMinute, NEW v \in Int, NEW i, NEW k \in Keys
    PROVE  LET j == Judged(i, s, k, m, v)
               r == s.rules[k]
           IN  /\ j.run \in 0..MaxRun /\ j.run <= m /\ j.active \in 0..MaxMinute
               /\ ~r.en \/ v < r.th =>
                      j.run = 0 /\ j.active = 0 /\ j.evs = Ended(i, k, s.active[k])
               /\ r.en /\ ~ (v < r.th) =>
                      /\ j.run >= 1
                      /\ j.run <= IF m = s.last + 1 THEN s.runs[k] + 1 ELSE 1
                      /\ \A n \in 1..MaxRun :
                             n = 1 \/ (m = s.last + 1 /\ s.runs[k] >= n - 1) => j.run >= n
                      /\ \/ /\ j.run >= r.min /\ s.active[k] = 0
                            /\ j.active = m - j.run + 1 /\ j.active # 0
                            /\ j.evs = <<Event(i, k, "firing", m - j.run + 1)>>
                         \/ /\ j.run >= r.min => s.active[k] # 0
                            /\ j.active = s.active[k] /\ j.evs = <<>>
<1>. DEFINE r   == s.rules[k]
            run == RunBefore(s, k, m) + 1
            n   == IF run > MaxRun THEN MaxRun ELSE run
            j   == Judged(i, s, k, m, v)
<1>1. /\ s \in State /\ r.en \in BOOLEAN /\ r.th \in Nat /\ r.min \in 1..MaxRun
      /\ s.runs[k] \in 0..MaxRun /\ s.last \in Nat /\ s.runs[k] <= s.last
      /\ s.active[k] \in 0..MaxMinute /\ MaxRun \in Nat /\ MaxMinute \in Nat
      BY RuleFields, RulesAssumption, BoundsAssumption DEF Good
<1>2. /\ run \in Nat /\ run >= 1 /\ run <= m
      /\ run = IF m = s.last + 1 THEN s.runs[k] + 1 ELSE 1
      BY <1>1 DEF RunBefore
<1>. HIDE DEF run
<1>3. /\ n \in 1..MaxRun /\ n <= m /\ n <= run
      /\ \A x \in 1..MaxRun : x <= run => n >= x
      BY <1>1, <1>2
<1>4. j = IF ~r.en \/ v < r.th
            THEN [run |-> 0, active |-> 0, evs |-> Ended(i, k, s.active[k])]
          ELSE IF n >= r.min /\ s.active[k] = 0
            THEN [run |-> n, active |-> m - n + 1, evs |-> <<Event(i, k, "firing", m - n + 1)>>]
            ELSE [run |-> n, active |-> s.active[k], evs |-> <<>>]
      BY DEF Judged, Due, run
<1>. HIDE DEF n, j, r
<1>5. CASE ~r.en \/ v < r.th
      <2>1. j = [run |-> 0, active |-> 0, evs |-> Ended(i, k, s.active[k])] BY <1>4, <1>5
      <2>2. j.run = 0 /\ j.active = 0 /\ j.evs = Ended(i, k, s.active[k]) BY <2>1
      <2>3. 0 \in 0..MaxRun /\ 0 <= m /\ 0 \in 0..MaxMinute BY <1>1
      <2>. QED BY <1>5, <2>2, <2>3 DEF j, r
<1>6. CASE ~ (~r.en \/ v < r.th)
      <2>1. \A x \in 1..MaxRun :
                x = 1 \/ (m = s.last + 1 /\ s.runs[k] >= x - 1) => n >= x
            BY <1>1, <1>2, <1>3
      <2>2. n \in 0..MaxRun /\ n >= 1 /\ n <= IF m = s.last + 1 THEN s.runs[k] + 1 ELSE 1
            BY <1>1, <1>2, <1>3
      <2>3. CASE n >= r.min /\ s.active[k] = 0
            <3>1. j = [run |-> n, active |-> m - n + 1,
                       evs |-> <<Event(i, k, "firing", m - n + 1)>>]
                  BY <1>4, <1>6, <2>3
            <3>2. /\ j.run = n /\ j.active = m - n + 1
                  /\ j.evs = <<Event(i, k, "firing", m - n + 1)>>
                  BY <3>1
            <3>3. m - n + 1 \in 0..MaxMinute /\ m - n + 1 # 0 BY <1>1, <1>3
            <3>. QED BY <1>3, <1>6, <2>1, <2>2, <2>3, <3>2, <3>3 DEF j, r
      <2>4. CASE ~ (n >= r.min /\ s.active[k] = 0)
            <3>1. j = [run |-> n, active |-> s.active[k], evs |-> <<>>] BY <1>4, <1>6, <2>4
            <3>2. j.run = n /\ j.active = s.active[k] /\ j.evs = <<>> BY <3>1
            <3>. QED BY <1>1, <1>3, <1>6, <2>1, <2>2, <2>4, <3>2 DEF j, r
      <2>. QED BY <2>3, <2>4
<1>. QED BY <1>5, <1>6

\* The walk back from the newest minute ends at the first that is not high.
LEMMA WalkLemma ==
    ASSUME StoreTypes, NEW i \in Items, NEW k \in Keys, NEW r,
           r.en \in BOOLEAN, r.th \in Nat, r.min \in Nat
    PROVE  /\ Walk(i, k, r) \in 0..r.min /\ Walk(i, k, r) <= Newest(i)
           /\ Walk(i, k, r) >= 1 => r.en
           /\ \A x \in 0..(Walk(i, k, r) - 1) : Value(i, k, Newest(i) - x) >= r.th
           /\ r.en /\ Fresh(i) =>
                  \A n \in 0..r.min :
                      (\A x \in 0..(n - 1) : Value(i, k, Newest(i) - x) >= r.th)
                          => n <= Walk(i, k, r)
<1>. DEFINE S == {n \in 0..r.min : \A x \in 0..(n - 1) : Value(i, k, Newest(i) - x) >= r.th}
<1>0. Newest(i) \in Nat BY NewestLemma
<1>1. CASE ~r.en \/ ~Fresh(i) BY <1>0, <1>1 DEF Walk
<1>2. CASE r.en /\ Fresh(i)
      <2>1. 0 \in S OBVIOUS
      <2>2. Max(S) \in S /\ \A n \in S : n <= Max(S)
            <3>1. S \subseteq 0..r.min /\ S # {} BY <2>1
            <3>. HIDE DEF S
            <3>. QED BY <3>1, MaxOf
      <2>3. Walk(i, k, r) = Max(S) BY <1>2 DEF Walk
      <2>4. PICK w \in 0..r.min : w = Max(S) BY <2>2
      <2>5. \A x \in 0..(w - 1) : Value(i, k, Newest(i) - x) >= r.th BY <2>2, <2>4
      <2>6. w <= Newest(i)
            <3>1. CASE w = 0 BY <1>0, <3>1
            <3>2. CASE w # 0
                  <4>1. w - 1 \in 0..(w - 1) BY <3>2
                  <4>2. Value(i, k, Newest(i) - (w - 1)) >= r.th BY <2>5, <4>1
                  <4>3. Newest(i) - (w - 1) \in DOMAIN ring[i] BY <4>2, ValueLemma
                  <4>4. Newest(i) - (w - 1) \in 1..MaxMinute BY <4>3, RingDomain
                  <4>. QED BY <1>0, <3>2, <4>4, BoundsAssumption
            <3>. QED BY <3>1, <3>2
      <2>7. \A n \in 0..r.min :
                (\A x \in 0..(n - 1) : Value(i, k, Newest(i) - x) >= r.th) => n <= w
            BY <2>2, <2>4
      <2>. QED BY <1>2, <2>3, <2>4, <2>5, <2>6, <2>7
<1>. QED BY <1>1, <1>2

LEMMA RecountedLemma ==
    ASSUME StoreTypes, NEW i \in Items, NEW s \in State, NEW k \in Keys
    PROVE  LET j == Recounted(i, s, k)
               r == s.rules[k]
               n == Walk(i, k, r)
           IN  /\ j.run = n /\ j.run \in 0..MaxRun /\ j.run <= Newest(i)
               /\ j.active \in 0..MaxMinute
               /\ n < r.min => j.active = 0 /\ j.evs = Ended(i, k, s.active[k])
               /\ ~ (n < r.min) =>
                      \/ /\ s.active[k] = 0
                         /\ j.active = Newest(i) - n + 1 /\ j.active # 0
                         /\ j.evs = <<Event(i, k, "firing", Newest(i) - n + 1)>>
                      \/ /\ s.active[k] # 0 /\ j.active = s.active[k] /\ j.evs = <<>>
<1>. DEFINE r == s.rules[k]
            n == Walk(i, k, r)
            j == Recounted(i, s, k)
<1>1. /\ r.en \in BOOLEAN /\ r.th \in Nat /\ r.min \in 1..MaxRun /\ r.min \in Nat
      /\ s.active[k] \in 0..MaxMinute
      BY RuleFields
<1>2. n \in 0..r.min /\ n <= Newest(i) BY <1>1, WalkLemma
<1>3. Newest(i) \in 0..MaxMinute /\ MaxMinute \in Nat /\ MaxRun \in Nat
      BY NewestLemma, BoundsAssumption, RulesAssumption
<1>4. j = IF n < r.min
            THEN [run |-> n, active |-> 0, evs |-> Ended(i, k, s.active[k])]
          ELSE IF s.active[k] = 0
            THEN [run |-> n, active |-> Newest(i) - n + 1,
                  evs |-> <<Event(i, k, "firing", Newest(i) - n + 1)>>]
            ELSE [run |-> n, active |-> s.active[k], evs |-> <<>>]
      BY DEF Recounted
<1>. HIDE DEF j, n, r
<1>5. n \in 0..MaxRun BY <1>1, <1>2, <1>3
<1>6. CASE n < r.min
      <2>1. j = [run |-> n, active |-> 0, evs |-> Ended(i, k, s.active[k])] BY <1>4, <1>6
      <2>2. j.run = n /\ j.active = 0 /\ j.evs = Ended(i, k, s.active[k]) BY <2>1
      <2>. QED BY <1>2, <1>3, <1>5, <1>6, <2>2 DEF j, n, r
<1>7. CASE ~ (n < r.min) /\ s.active[k] = 0
      <2>1. j = [run |-> n, active |-> Newest(i) - n + 1,
                 evs |-> <<Event(i, k, "firing", Newest(i) - n + 1)>>]
            BY <1>4, <1>7
      <2>2. /\ j.run = n /\ j.active = Newest(i) - n + 1
            /\ j.evs = <<Event(i, k, "firing", Newest(i) - n + 1)>>
            BY <2>1
      <2>3. Newest(i) - n + 1 \in 0..MaxMinute /\ Newest(i) - n + 1 # 0
            BY <1>1, <1>2, <1>3, <1>7
      <2>. QED BY <1>2, <1>5, <1>7, <2>2, <2>3 DEF j, n, r
<1>8. CASE ~ (n < r.min) /\ s.active[k] # 0
      <2>1. j = [run |-> n, active |-> s.active[k], evs |-> <<>>] BY <1>4, <1>8
      <2>2. j.run = n /\ j.active = s.active[k] /\ j.evs = <<>> BY <2>1
      <2>. QED BY <1>1, <1>2, <1>5, <1>8, <2>2 DEF j, n, r
<1>. QED BY <1>6, <1>7, <1>8

-----------------------------------------------------------------------------
(* The steps.                                                              *)

\* SetRules and Rebuild: a recount of item i with the rules of s.
Recount(i, s) == /\ s \in State /\ s.runs = st[i].runs /\ s.active = st[i].active
                 /\ s.last = st[i].last /\ reconcile(i, s) /\ UNCHANGED <<store, smp>>

LEMMA NextCases ==
    ASSUME Types, [Next]_vars
    PROVE  \/ UNCHANGED vars
           \/ Tick
           \/ \E i \in Items, m \in 1..MaxMinute, v \in [Keys -> Vals] : Commit(i, m, v)
           \/ \E i \in Items : ReadMinute(i)
           \/ \E i \in Items : Judge(i)
           \/ \E i \in Items : \E s : Recount(i, s)
           \/ \E i \in Items : Resolve(i)
           \/ \E i \in Items : RemoveItem(i)
           \/ Prune
           \/ \E c \in 1..MaxMinute : StepBack(c)
           \/ Restart
<1>1. \A i \in Items : st[i] \in State BY DEF Types, Good
<1>2. ASSUME NEW i \in Items, NEW rs \in Rules, SetRules(i, rs) PROVE \E s : Recount(i, s)
      <2>1. PICK s : s = [st[i] EXCEPT !.rules = rs] OBVIOUS
      <2>2. s \in State /\ s.runs = st[i].runs /\ s.active = st[i].active /\ s.last = st[i].last
            BY <1>1, <2>1, ExceptFields
      <2>3. reconcile(i, s) /\ UNCHANGED <<store, smp>> BY <1>2, <2>1 DEF SetRules
      <2>. QED BY <2>2, <2>3 DEF Recount
<1>3. ASSUME NEW i \in Items, Rebuild(i) PROVE \E s : Recount(i, s)
      <2>1. PICK s : s = st[i] OBVIOUS
      <2>2. reconcile(i, s) /\ UNCHANGED <<store, smp>> BY <1>3, <2>1 DEF Rebuild
      <2>. QED BY <1>1, <2>1, <2>2 DEF Recount
<1>4. CASE UNCHANGED vars BY <1>4
<1>5. CASE Terminated BY <1>5 DEF Terminated
<1>6. CASE \E i \in Items : Sampler(i) BY <1>6 DEF Sampler
<1>7. CASE \/ Tick
           \/ \E i \in Items, m \in 1..MaxMinute, v \in [Keys -> Levels \cup {Absent}] : Commit(i, m, v)
           \/ Prune
           \/ \E c \in 1..MaxMinute : StepBack(c)
           \/ Restart
      BY <1>7 DEF Vals
<1>8. CASE \/ \E i \in Items, rs \in Rules : SetRules(i, rs)
           \/ \E i \in Items : Rebuild(i) \/ Resolve(i) \/ RemoveItem(i)
      BY <1>2, <1>3, <1>8
<1>. QED BY <1>4, <1>5, <1>6, <1>7, <1>8 DEF Next

LEMMA GoodFields ==
    ASSUME NEW s \in Good
    PROVE  /\ s \in State /\ \A k \in Keys : s.runs[k] <= s.last
           /\ s.last = 0 <=> s.runs = None
BY DEF Good

\* A minute judged that was not judged before.
LEMMA JudgeLemma ==
    ASSUME Types, NEW i \in Items, Judge(i), smp[i].m # st[i].last
    PROVE  \E t \in Good :
               /\ st' = [st EXCEPT ![i] = t] /\ Save
               /\ t.rules = st[i].rules /\ (t.runs # None => t.last = smp[i].m)
               /\ \A k \in Keys :
                      LET j == Judged(i, st[i], k, smp[i].m, smp[i].v[k])
                      IN  t.runs[k] = j.run /\ t.active[k] = j.active
<1>. DEFINE m == smp[i].m
            s == st[i]
            o == [k \in Keys |-> Judged(i, s, k, m, smp[i].v[k])]
            a == Applied(s, o, m)
<1>1. put(i, a) BY DEF Judge
<1>2. /\ s \in Good /\ m \in 1..MaxMinute /\ \A k \in Keys : smp[i].v[k] \in Vals
      <2>1. smp[i] \in [pc : {"idle", "read", "judge"}, m : 0..MaxMinute, v : [Keys -> Vals]]
            BY DEF Types, SmpTypes
      <2>2. smp[i].m # 0 BY DEF Types, SmpTypes, Judge
      <2>. QED BY <2>1, <2>2, BoundsAssumption DEF Types
<1>3. s \in State BY <1>2, GoodFields
<1>4. Vals \subseteq Int BY RulesAssumption DEF Vals, Absent
<1>5. \A k \in Keys : /\ o[k].run \in 0..MaxRun /\ o[k].run <= m
                      /\ o[k].active \in 0..MaxMinute
      BY <1>2, <1>4, JudgedLemma
<1>6. m \in 0..MaxMinute /\ m # 0 BY <1>2, BoundsAssumption
<1>. HIDE DEF o, s, m
<1>7. /\ a \in State /\ a.rules = s.rules /\ a.last = m
      /\ a.runs = [k \in Keys |-> o[k].run] /\ a.active = [k \in Keys |-> o[k].active]
      BY <1>3, <1>5, <1>6, AppliedFields
<1>. HIDE DEF a
<1>8. \A k \in Keys : a.runs[k] <= a.last BY <1>5, <1>7
<1>9. /\ Put(a) \in Good /\ Put(a).rules = a.rules /\ Put(a).active = a.active
      /\ Put(a).runs = a.runs /\ (a.runs # None => Put(a).last = a.last)
      BY <1>6, <1>7, <1>8, PutFields
<1>10. st' = [st EXCEPT ![i] = Put(a)] /\ Save BY <1>1 DEF put, Put
<1>11. \A k \in Keys : o[k] = Judged(i, st[i], k, smp[i].m, smp[i].v[k]) BY DEF o, s, m
<1>12. PICK t \in Good : t = Put(a) BY <1>9
<1>13. \A k \in Keys : t.runs[k] = o[k].run /\ t.active[k] = o[k].active
       BY <1>7, <1>9, <1>12
<1>14. t.rules = st[i].rules /\ (t.runs # None => t.last = smp[i].m)
       BY <1>7, <1>9, <1>12 DEF s, m
<1>15. \A k \in Keys :
          LET j == Judged(i, st[i], k, smp[i].m, smp[i].v[k])
          IN  t.runs[k] = j.run /\ t.active[k] = j.active
       BY <1>11, <1>13
<1>. QED BY <1>10, <1>12, <1>14, <1>15

\* A recount that could read the ring.
Counted(i, s, t) ==
    /\ t \in Good /\ st' = [st EXCEPT ![i] = t] /\ Save
    /\ t.rules = s.rules /\ (t.runs # None => t.last = Newest(i))
    /\ \A k \in Keys : /\ t.runs[k] = Recounted(i, s, k).run
                       /\ t.active[k] = Recounted(i, s, k).active
    /\ blind' = [blind EXCEPT ![i] = FALSE]
    /\ from' = [from EXCEPT ![i] = IF Fresh(i) /\ InStep(i) THEN 1 ELSE Newest(i) + 1]
    /\ Queued(i, EventsOf([k \in Keys |-> Recounted(i, s, k)]))

\* One that could not: only the rules change.
Uncounted(i, s, t) ==
    /\ t \in Good /\ st' = [st EXCEPT ![i] = t] /\ Save
    /\ t.rules = s.rules /\ t.runs = st[i].runs /\ t.active = st[i].active
    /\ t.last = st[i].last
    /\ blind' = [blind EXCEPT ![i] = @ \/ s.rules # st[i].rules]
    /\ from' = [from EXCEPT ![i] = IF s.rules # st[i].rules THEN Newest(i) + 1 ELSE @]
    /\ Queued(i, <<>>)

LEMMA RecountLemma ==
    ASSUME Types, NEW i \in Items, NEW s, Recount(i, s)
    PROVE  /\ \E t : Counted(i, s, t) \/ Uncounted(i, s, t)
           /\ \E b : b = blind' /\ Blinds(b)
<1>. DEFINE o == [k \in Keys |-> Recounted(i, s, k)]
            a == Applied(s, o, Newest(i))
<1>0. s \in State /\ st[i] \in Good /\ StoreTypes BY DEF Recount, Types
<1>1. CASE /\ put(i, a) /\ Queued(i, EventsOf(o)) /\ Blinds([blind EXCEPT ![i] = FALSE])
           /\ from' = [from EXCEPT ![i] = IF Fresh(i) /\ InStep(i) THEN 1 ELSE Newest(i) + 1]
      <2>1. \A k \in Keys : /\ o[k].run \in 0..MaxRun /\ o[k].run <= Newest(i)
                            /\ o[k].active \in 0..MaxMinute
            BY <1>0, RecountedLemma
      <2>2. Newest(i) \in 0..MaxMinute BY <1>0, NewestLemma
      <2>3. st' = [st EXCEPT ![i] = Put(a)] /\ Save BY <1>1 DEF put, Put
      <2>4. PICK e : e = EventsOf(o) /\ Queued(i, e) BY <1>1
      <2>. HIDE DEF o
      <2>5. /\ a \in State /\ a.rules = s.rules /\ a.last = Newest(i)
            /\ a.runs = [k \in Keys |-> o[k].run] /\ a.active = [k \in Keys |-> o[k].active]
            BY <1>0, <2>1, <2>2, AppliedFields
      <2>. HIDE DEF a
      <2>6. \A k \in Keys : a.runs[k] <= a.last BY <2>1, <2>5
      <2>7. a.last = 0 => a.runs = None
            <3>1. \A k \in Keys : o[k].run \in Nat BY <2>1, RulesAssumption
            <3>2. ASSUME a.last = 0, NEW k \in Keys PROVE a.runs[k] = 0
                  BY <2>5, <2>6, <3>1, <3>2
            <3>. QED BY <2>5, <3>2 DEF None
      <2>8. /\ Put(a) \in Good /\ Put(a).rules = a.rules /\ Put(a).active = a.active
            /\ Put(a).runs = a.runs /\ (a.runs # None => Put(a).last = a.last)
            BY <2>5, <2>6, <2>7, PutFields
      <2>9. Counted(i, s, Put(a)) BY <1>1, <2>3, <2>4, <2>5, <2>8 DEF Counted, Blinds, o
      <2>. QED BY <1>1, <2>9 DEF Blinds
<1>2. CASE /\ put(i, s) /\ Queued(i, <<>>)
           /\ Blinds([blind EXCEPT ![i] = @ \/ s.rules # st[i].rules])
           /\ from' = [from EXCEPT ![i] = IF s.rules # st[i].rules THEN Newest(i) + 1 ELSE @]
      <2>1. /\ s.runs = st[i].runs /\ s.active = st[i].active /\ s.last = st[i].last
            BY DEF Recount
      <2>2. \A k \in Keys : s.runs[k] <= s.last BY <1>0, <2>1, GoodFields
      <2>3. s.last = 0 <=> s.runs = None BY <1>0, <2>1, GoodFields
      <2>4. st' = [st EXCEPT ![i] = Put(s)] /\ Save BY <1>2 DEF put, Put
      <2>5. /\ Put(s) \in Good /\ Put(s).rules = s.rules /\ Put(s).active = s.active
            /\ Put(s).runs = s.runs /\ (s.runs # None => Put(s).last = s.last)
            BY <1>0, <2>2, <2>3, PutFields
      <2>6. Put(s).last = s.last
            <3>1. Put(s).last = 0 <=> Put(s).runs = None BY <2>5, GoodFields
            <3>. QED BY <2>3, <2>5, <3>1
      <2>7. Uncounted(i, s, Put(s)) BY <1>2, <2>1, <2>4, <2>5, <2>6 DEF Uncounted, Blinds
      <2>. QED BY <1>2, <2>7 DEF Blinds
<1>. QED BY <1>1, <1>2 DEF Recount, reconcile

\* The runs and alerts of an item end.
LEMMA ResolveLemma ==
    ASSUME Types, NEW i \in Items, Resolve(i)
    PROVE  \E t \in Good : /\ st' = [st EXCEPT ![i] = t] /\ Save
                           /\ t.rules = st[i].rules /\ t.runs = None /\ t.active = None
<1>. DEFINE a == [st[i] EXCEPT !.active = None, !.runs = None]
<1>1. put(i, a) BY DEF Resolve
<1>2. st[i] \in State BY GoodFields DEF Types
<1>3. None \in [Keys -> 0..MaxMinute] /\ None \in [Keys -> 0..MaxRun]
      BY BoundsAssumption, RulesAssumption DEF None
<1>4. /\ a \in State /\ a.rules = st[i].rules /\ a.runs = None /\ a.active = None
      BY <1>2, <1>3 DEF State
<1>. HIDE DEF a
<1>5. \A k \in Keys : a.runs[k] <= a.last
      <2>1. a.last \in 0..MaxMinute BY <1>4 DEF State
      <2>. QED BY <1>4, <2>1, BoundsAssumption DEF None
<1>6. /\ Put(a) \in Good /\ Put(a).rules = a.rules /\ Put(a).active = a.active
      /\ Put(a).runs = a.runs
      BY <1>4, <1>5, PutFields
<1>7. st' = [st EXCEPT ![i] = Put(a)] /\ Save BY <1>1 DEF put, Put
<1>. QED BY <1>4, <1>6, <1>7

LEMMA IdleLemma ==
    Idle \in Good /\ Idle.rules = Default /\ Idle.runs = None /\ Idle.active = None
                  /\ Idle.last = 0
<1>1. None \in [Keys -> 0..MaxMinute] /\ None \in [Keys -> 0..MaxRun]
      BY BoundsAssumption, RulesAssumption DEF None
<1>2. Default \in Rules BY RulesAssumption DEF Default, Rules
<1>3. Idle = [rules |-> Default, active |-> None, runs |-> None, last |-> 0] BY DEF Idle
<1>4. /\ Idle.rules = Default /\ Idle.runs = None /\ Idle.active = None /\ Idle.last = 0
      BY <1>3
<1>5. Idle \in State BY <1>1, <1>2, <1>3, BoundsAssumption DEF State
<1>. QED BY <1>4, <1>5 DEF Good, None

LEMMA SaveFiles ==
    ASSUME FileTypes, Save, st' \in [Items -> Good]
    PROVE  FileTypes' /\ (disk' = disk \/ disk' = <<st'>>)
BY DEF FileTypes, Save

LEMMA RestingLemma == /\ Resting \in [pc : {"idle", "read", "judge"}, m : 0..MaxMinute,
                                      v : [Keys -> Vals]]
                      /\ Resting.pc = "idle" /\ Resting.m = 0
BY BoundsAssumption DEF Resting, Vals

-----------------------------------------------------------------------------
(* Types.                                                                  *)

LEMMA TypesInit == Init => Types
<1>. SUFFICES ASSUME Init PROVE Types OBVIOUS
<1>1. StoreTypes
      <2>1. ring = [i \in Items |-> <<>>] BY DEF Init
      <2>2. <<>> \in RingType
            <3>1. <<>> \in [{} -> [Keys -> Vals]] OBVIOUS
            <3>2. {} \in SUBSET (1..MaxMinute) OBVIOUS
            <3>. QED BY <3>1, <3>2 DEF RingType
      <2>3. top \in [Items -> [1..MaxMinute -> [Keys -> Vals]]] BY DEF Init, Vals
      <2>. QED BY <2>1, <2>2, <2>3 DEF StoreTypes, Init
<1>2. SmpTypes BY RestingLemma DEF Init, SmpTypes
<1>3. st \in [Items -> Good] BY IdleLemma DEF Init
<1>4. FileTypes /\ HistTypes
      <2>1. saved = <<>> /\ disk = <<>> /\ saveErr = FALSE BY DEF Init
      <2>2. FileTypes BY <2>1 DEF FileTypes
      <2>3. from \in [Items -> Nat \ {0}] BY DEF Init
      <2>4. blind = [i \in Items |-> FALSE] /\ fileBlind = blind BY DEF Init
      <2>5. told = [i \in Items |-> [k \in Keys |-> FALSE]] BY DEF Init
      <2>. QED BY <2>2, <2>3, <2>4, <2>5 DEF HistTypes
<1>. QED BY <1>1, <1>2, <1>3, <1>4 DEF Types

LEMMA StateTypes == ASSUME Types, [Next]_vars PROVE st' \in [Items -> Good]
<1>0. st \in [Items -> Good] BY DEF Types
<1>1. CASE \/ UNCHANGED vars \/ Tick
           \/ \E i \in Items, m \in 1..MaxMinute, v \in [Keys -> Vals] : Commit(i, m, v)
           \/ \E i \in Items : ReadMinute(i)
           \/ \E i \in Items : RemoveItem(i)
           \/ \E c \in 1..MaxMinute : StepBack(c)
      <2>1. st' = st
            BY <1>1 DEF vars, Tick, Commit, ReadMinute, RemoveItem, StepBack, Nothing
      <2>. QED BY <1>0, <2>1
<1>2. ASSUME NEW i \in Items, Judge(i) PROVE st' \in [Items -> Good]
      <2>1. CASE smp[i].m # st[i].last
            <3>1. PICK t \in Good : st' = [st EXCEPT ![i] = t] BY <1>2, <2>1, JudgeLemma
            <3>. QED BY <1>0, <3>1
      <2>2. CASE smp[i].m = st[i].last
            <3>1. st' = st BY <1>2, <2>2 DEF Judge, Nothing
            <3>. QED BY <1>0, <3>1
      <2>. QED BY <2>1, <2>2
<1>3. ASSUME NEW i \in Items, NEW s, Recount(i, s) PROVE st' \in [Items -> Good]
      <2>1. PICK t : Counted(i, s, t) \/ Uncounted(i, s, t) BY <1>3, RecountLemma
      <2>2. t \in Good /\ st' = [st EXCEPT ![i] = t] BY <2>1 DEF Counted, Uncounted
      <2>. QED BY <1>0, <2>2
<1>4. ASSUME NEW i \in Items, Resolve(i) PROVE st' \in [Items -> Good]
      <2>1. PICK t \in Good : st' = [st EXCEPT ![i] = t] BY <1>4, ResolveLemma
      <2>. QED BY <1>0, <2>1
<1>5. CASE Prune BY <1>0, <1>5, IdleLemma DEF Prune
<1>6. CASE Restart BY <1>0, <1>6, IdleLemma DEF Restart, Types, FileTypes
<1>. QED BY <1>1, <1>2, <1>3, <1>4, <1>5, <1>6, NextCases

LEMMA StoreStep == ASSUME Types, [Next]_vars PROVE StoreTypes' /\ SmpTypes'
<1>0. /\ clk \in Nat /\ clk >= 1 /\ ring \in [Items -> RingType]
      /\ top \in [Items -> [1..MaxMinute -> [Keys -> Vals]]]
      BY DEF Types, StoreTypes
<1>. DEFINE SmpType == [pc : {"idle", "read", "judge"}, m : 0..MaxMinute, v : [Keys -> Vals]]
<1>1. /\ smp \in [Items -> SmpType]
      /\ \A i \in Items : smp[i].m <= clk /\ (smp[i].pc = "idle" <=> smp[i].m = 0)
      BY DEF Types, SmpTypes
<1>2. Resting \in SmpType /\ Resting.pc = "idle" /\ Resting.m = 0 BY RestingLemma
<1>3. CASE \/ UNCHANGED vars \/ Tick
           \/ \E i \in Items : \E s : Recount(i, s)
           \/ \E i \in Items : Resolve(i)
           \/ Prune
      <2>1. /\ ring' = ring /\ top' = top /\ smp' = smp
            /\ clk' = clk \/ clk' = clk + 1
            BY <1>3 DEF vars, Tick, Recount, Resolve, Prune, store
      <2>2. clk' \in Nat /\ clk' >= 1 /\ \A i \in Items : smp[i].m <= clk' BY <1>0, <1>1, <2>1
      <2>. QED BY <1>0, <1>1, <2>1, <2>2 DEF StoreTypes, SmpTypes
<1>4. ASSUME NEW i \in Items, NEW m \in 1..MaxMinute, NEW v \in [Keys -> Vals], Commit(i, m, v)
      PROVE  StoreTypes' /\ SmpTypes'
      <2>1. /\ m <= clk /\ clk' = clk
            /\ ring' = [ring EXCEPT ![i] = [x \in DOMAIN @ \cup {m} |-> IF x = m THEN v ELSE @[x]]]
            /\ top' = [top EXCEPT ![i][m] = [k \in Keys |-> IF v[k] > @[k] THEN v[k] ELSE @[k]]]
            /\ smp' = [smp EXCEPT ![i] = [Resting EXCEPT !.pc = "read", !.m = m]]
            BY <1>4 DEF Commit
      <2>2. PICK f : f = [x \in DOMAIN ring[i] \cup {m} |-> IF x = m THEN v ELSE ring[i][x]]
            OBVIOUS
      <2>3. f \in RingType
            <3>1. DOMAIN ring[i] \subseteq 1..MaxMinute
                  /\ \A x \in DOMAIN ring[i] : ring[i][x] \in [Keys -> Vals]
                  BY RingDomain DEF Types
            <3>2. PICK D : D = DOMAIN ring[i] \cup {m} OBVIOUS
            <3>3. D \in SUBSET (1..MaxMinute) BY <3>1, <3>2
            <3>4. f \in [D -> [Keys -> Vals]] BY <2>2, <3>1, <3>2
            <3>. QED BY <3>3, <3>4 DEF RingType
      <2>4. ring' = [ring EXCEPT ![i] = f] BY <2>1, <2>2
      <2>5. ring' \in [Items -> RingType] BY <1>0, <2>3, <2>4
      <2>6. PICK g : g = [k \in Keys |-> IF v[k] > top[i][m][k] THEN v[k] ELSE top[i][m][k]]
            OBVIOUS
      <2>7. g \in [Keys -> Vals]
            <3>1. top[i] \in [1..MaxMinute -> [Keys -> Vals]] BY <1>0
            <3>2. top[i][m] \in [Keys -> Vals] BY <3>1
            <3>. QED BY <2>6, <3>2
      <2>8. top' = [top EXCEPT ![i][m] = g] BY <2>1, <2>6
      <2>9. top' \in [Items -> [1..MaxMinute -> [Keys -> Vals]]]
            <3>1. PICK h : h = [top[i] EXCEPT ![m] = g] OBVIOUS
            <3>2. h \in [1..MaxMinute -> [Keys -> Vals]] BY <1>0, <2>7, <3>1
            <3>3. top' = [top EXCEPT ![i] = h] BY <2>8, <3>1
            <3>. QED BY <1>0, <3>2, <3>3
      <2>10. PICK q : q = [Resting EXCEPT !.pc = "read", !.m = m] OBVIOUS
      <2>11. q \in SmpType /\ q.pc = "read" /\ q.m = m
             <3>1. m \in 0..MaxMinute BY BoundsAssumption
             <3>2. PICK z \in SmpType : z = Resting BY <1>2
             <3>3. q = [z EXCEPT !.pc = "read", !.m = m] BY <2>10, <3>2
             <3>. QED BY <3>1, <3>3
      <2>12. smp' = [smp EXCEPT ![i] = q] BY <2>1, <2>10
      <2>13. smp' \in [Items -> SmpType] BY <1>1, <2>11, <2>12
      <2>14. ASSUME NEW j \in Items
             PROVE  smp'[j].m <= clk' /\ (smp'[j].pc = "idle" <=> smp'[j].m = 0)
             <3>1. CASE i = j BY <1>1, <2>1, <2>11, <2>12, <3>1
             <3>2. CASE i # j
                   <4>1. smp'[j] = smp[j] BY <1>1, <2>12, <3>2
                   <4>. QED BY <1>1, <2>1, <4>1
             <3>. QED BY <3>1, <3>2
      <2>. QED BY <1>0, <2>1, <2>5, <2>9, <2>13, <2>14 DEF StoreTypes, SmpTypes
<1>5. ASSUME NEW i \in Items, ReadMinute(i) PROVE StoreTypes' /\ SmpTypes'
      <2>1. /\ UNCHANGED <<clk, ring, top>> /\ smp[i].pc = "read"
            /\ \/ smp' = [smp EXCEPT ![i].pc = "judge",
                                     ![i].v = [k \in Keys |-> Value(i, k, smp[i].m)]]
               \/ smp' = [smp EXCEPT ![i] = Resting]
            BY <1>5 DEF ReadMinute, store
      <2>2. PICK f : f = [k \in Keys |-> Value(i, k, smp[i].m)] OBVIOUS
      <2>3. f \in [Keys -> Vals] BY <2>2, ValueLemma DEF Types
      <2>4. PICK q : q = [smp[i] EXCEPT !.pc = "judge", !.v = f] OBVIOUS
      <2>5. q \in SmpType /\ q.pc = "judge" /\ q.m = smp[i].m BY <1>1, <2>3, <2>4
      <2>6. smp' = [smp EXCEPT ![i] = q] \/ smp' = [smp EXCEPT ![i] = Resting]
            BY <1>1, <2>1, <2>2, <2>4
      <2>7. smp' \in [Items -> SmpType] BY <1>1, <1>2, <2>5, <2>6
      <2>8. ASSUME NEW j \in Items
            PROVE  smp'[j].m <= clk' /\ (smp'[j].pc = "idle" <=> smp'[j].m = 0)
            <3>1. smp'[j] = smp[j] \/ (j = i /\ smp'[j] = q) \/ smp'[j] = Resting
                  BY <1>1, <2>6
            <3>2. smp[i].m # 0 BY <1>1, <2>1
            <3>. QED BY <1>0, <1>1, <1>2, <2>1, <2>5, <3>1, <3>2
      <2>. QED BY <1>0, <2>1, <2>7, <2>8 DEF StoreTypes, SmpTypes
<1>6. ASSUME NEW i \in Items, Judge(i) PROVE StoreTypes' /\ SmpTypes'
      <2>1. UNCHANGED <<clk, ring, top>> /\ smp' = [smp EXCEPT ![i] = Resting]
            BY <1>6 DEF Judge, store
      <2>2. smp' \in [Items -> SmpType] BY <1>1, <1>2, <2>1
      <2>3. \A j \in Items : smp'[j] = smp[j] \/ smp'[j] = Resting BY <1>1, <2>1
      <2>. QED BY <1>0, <1>1, <1>2, <2>1, <2>2, <2>3 DEF StoreTypes, SmpTypes
<1>7. ASSUME NEW i \in Items, RemoveItem(i) PROVE StoreTypes' /\ SmpTypes'
      <2>1. UNCHANGED <<clk, top, smp>> /\ ring' = [ring EXCEPT ![i] = <<>>]
            BY <1>7 DEF RemoveItem
      <2>2. <<>> \in RingType
            <3>1. <<>> \in [{} -> [Keys -> Vals]] OBVIOUS
            <3>2. {} \in SUBSET (1..MaxMinute) OBVIOUS
            <3>. QED BY <3>1, <3>2 DEF RingType
      <2>. QED BY <1>0, <1>1, <2>1, <2>2 DEF StoreTypes, SmpTypes
<1>8. ASSUME NEW c \in 1..MaxMinute, StepBack(c) PROVE StoreTypes' /\ SmpTypes'
      <2>1. /\ clk' = c /\ UNCHANGED <<ring, top, smp>>
            /\ \A i \in Items : smp[i].m = 0
            BY <1>1, <1>8 DEF StepBack
      <2>2. c \in Nat /\ c >= 1 BY BoundsAssumption
      <2>. QED BY <1>0, <1>1, <2>1, <2>2 DEF StoreTypes, SmpTypes
<1>9. CASE Restart
      <2>1. UNCHANGED <<clk, ring, top>> /\ smp' = [i \in Items |-> Resting]
            BY <1>9 DEF Restart
      <2>. QED BY <1>0, <1>2, <2>1 DEF StoreTypes, SmpTypes
<1>. QED BY <1>3, <1>4, <1>5, <1>6, <1>7, <1>8, <1>9, NextCases

LEMMA FileStep == ASSUME Types, [Next]_vars PROVE FileTypes'
<1>1. CASE Save BY <1>1, StateTypes, SaveFiles DEF Types
<1>2. CASE UNCHANGED <<saved, disk, saveErr>> BY <1>2 DEF Types, FileTypes
<1>3. CASE Restart BY <1>3 DEF Types, FileTypes, Restart
<1>4. ASSUME NEW i \in Items, Judge(i) PROVE Save \/ UNCHANGED <<saved, disk, saveErr>>
      BY <1>4 DEF Judge, put, Nothing
<1>5. ASSUME NEW i \in Items, NEW s, Recount(i, s) PROVE Save
      BY <1>5, RecountLemma DEF Counted, Uncounted
<1>6. ASSUME NEW i \in Items, Resolve(i) PROVE Save BY <1>6 DEF Resolve, put
<1>7. CASE Prune BY <1>1, <1>7 DEF Prune
<1>8. CASE \/ UNCHANGED vars \/ Tick
           \/ \E i \in Items, m \in 1..MaxMinute, v \in [Keys -> Vals] : Commit(i, m, v)
           \/ \E i \in Items : ReadMinute(i)
           \/ \E i \in Items : RemoveItem(i)
           \/ \E c \in 1..MaxMinute : StepBack(c)
      <2>1. UNCHANGED <<saved, disk, saveErr>>
            BY <1>8 DEF vars, Tick, Commit, ReadMinute, RemoveItem, StepBack, Nothing
      <2>. QED BY <1>2, <2>1
<1>. QED BY <1>1, <1>2, <1>3, <1>4, <1>5, <1>6, <1>7, <1>8, NextCases

LEMMA BlindStep ==
    ASSUME Types, [Next]_vars
    PROVE  blind' \in [Items -> BOOLEAN] /\ fileBlind' \in [Items -> BOOLEAN]
<1>0. blind \in [Items -> BOOLEAN] /\ fileBlind \in [Items -> BOOLEAN]
      BY DEF Types, HistTypes
<1>1. ASSUME NEW b \in [Items -> BOOLEAN], Blinds(b)
      PROVE  blind' \in [Items -> BOOLEAN] /\ fileBlind' \in [Items -> BOOLEAN]
      BY <1>0, <1>1 DEF Blinds
<1>2. CASE UNCHANGED sight BY <1>0, <1>2 DEF sight
<1>3. CASE \/ UNCHANGED vars \/ Tick
           \/ \E i \in Items, m \in 1..MaxMinute, v \in [Keys -> Vals] : Commit(i, m, v)
           \/ \E i \in Items : ReadMinute(i)
           \/ \E i \in Items : RemoveItem(i)
           \/ \E c \in 1..MaxMinute : StepBack(c)
      BY <1>2, <1>3 DEF vars, sight, Tick, Commit, ReadMinute, RemoveItem, StepBack
<1>4. ASSUME NEW i \in Items, Judge(i)
      PROVE  UNCHANGED sight \/ \E b \in [Items -> BOOLEAN] : Blinds(b)
      <2>1. PICK b : b = [blind EXCEPT ![i] = @ /\ smp[i].m = st[i].last + 1] OBVIOUS
      <2>2. b \in [Items -> BOOLEAN] BY <1>0, <2>1
      <2>3. UNCHANGED sight \/ Blinds(b) BY <1>4, <2>1 DEF Judge
      <2>. QED BY <2>2, <2>3
<1>5. ASSUME NEW i \in Items, NEW s, Recount(i, s)
      PROVE  \E b \in [Items -> BOOLEAN] : Blinds(b)
      <2>1. PICK b : b = blind' /\ Blinds(b) BY <1>5, RecountLemma
      <2>2. \/ b = [blind EXCEPT ![i] = FALSE]
            \/ b = [blind EXCEPT ![i] = @ \/ s.rules # st[i].rules]
            BY <1>5, <2>1, RecountLemma DEF Counted, Uncounted
      <2>3. b \in [Items -> BOOLEAN] BY <1>0, <2>2
      <2>. QED BY <2>1, <2>3
<1>6. ASSUME NEW i \in Items, Resolve(i) PROVE \E b \in [Items -> BOOLEAN] : Blinds(b)
      BY <1>0, <1>6 DEF Resolve
<1>7. CASE Prune
      <2>1. PICK b : b = [i \in Items |->
                             blind[i] /\ i \notin {j \in Items : DOMAIN ring[j] = {}}]
            OBVIOUS
      <2>2. b \in [Items -> BOOLEAN] BY <2>1
      <2>3. Blinds(b) BY <1>7, <2>1 DEF Prune
      <2>. QED BY <1>1, <2>2, <2>3
<1>8. CASE Restart BY <1>0, <1>8 DEF Restart
<1>. QED BY <1>1, <1>2, <1>3, <1>4, <1>5, <1>6, <1>7, <1>8, NextCases

LEMMA FromStep ==
    ASSUME Types, [Next]_vars
    PROVE  from' \in [Items -> Nat \ {0}]
<1>0. from \in [Items -> Nat \ {0}] /\ StoreTypes /\ SmpTypes BY DEF Types, HistTypes
<1>1. ASSUME NEW i \in Items PROVE Newest(i) \in Nat /\ Newest(i) + 1 \in Nat \ {0}
      BY <1>0, NewestLemma
<1>2. CASE from' = from BY <1>0, <1>2
<1>3. ASSUME NEW i \in Items, NEW n \in Nat \ {0},
             from' = [from EXCEPT ![i] = n] \/ from' = from
      PROVE  from' \in [Items -> Nat \ {0}]
      BY <1>0, <1>3
<1>4. CASE \/ UNCHANGED vars \/ Tick \/ Prune
           \/ \E i \in Items : Judge(i)
           \/ \E i \in Items : RemoveItem(i)
      <2>1. from' = from BY <1>4 DEF vars, Tick, Prune, Judge, RemoveItem
      <2>. QED BY <1>2, <2>1
<1>5. ASSUME NEW i \in Items, NEW m \in 1..MaxMinute, NEW v \in [Keys -> Vals], Commit(i, m, v)
      PROVE  from' \in [Items -> Nat \ {0}]
      <2>1. \/ from' = [from EXCEPT ![i] = Max({Newest(i), m}) + 1]
            \/ from' = [from EXCEPT ![i] = from[i]]
            BY <1>5 DEF Commit
      <2>2. m \in Nat BY BoundsAssumption
      <2>3. Max({Newest(i), m}) + 1 \in Nat \ {0} BY <1>1, <2>2, MaxOfTwo
      <2>4. from[i] \in Nat \ {0} BY <1>0
      <2>. QED BY <1>3, <2>1, <2>3, <2>4
<1>6. ASSUME NEW i \in Items, ReadMinute(i) PROVE from' \in [Items -> Nat \ {0}]
      <2>1. from' = [from EXCEPT ![i] = Max({from[i], smp[i].m + 1})] \/ from' = from
            BY <1>6 DEF ReadMinute
      <2>2. smp[i].m + 1 \in Nat \ {0}
            <3>1. smp[i].m \in 0..MaxMinute BY <1>0 DEF SmpTypes
            <3>. QED BY <3>1, BoundsAssumption
      <2>3. from[i] \in Nat \ {0} BY <1>0
      <2>4. PICK a, b : a = from[i] /\ b = smp[i].m + 1 OBVIOUS
      <2>5. Max({a, b}) \in {a, b} BY <2>2, <2>3, <2>4, MaxOfTwo
      <2>6. Max({from[i], smp[i].m + 1}) \in Nat \ {0} BY <2>2, <2>3, <2>4, <2>5
      <2>. QED BY <1>3, <2>1, <2>6
<1>7. ASSUME NEW i \in Items, NEW s, Recount(i, s) PROVE from' \in [Items -> Nat \ {0}]
      <2>1. PICK n \in Nat \ {0} : from' = [from EXCEPT ![i] = n]
            <3>1. PICK t : Counted(i, s, t) \/ Uncounted(i, s, t) BY <1>7, RecountLemma
            <3>2. \/ from' = [from EXCEPT ![i] = 1]
                  \/ from' = [from EXCEPT ![i] = Newest(i) + 1]
                  \/ from' = [from EXCEPT ![i] = from[i]]
                  BY <3>1 DEF Counted, Uncounted
            <3>3. from[i] \in Nat \ {0} BY <1>0
            <3>. QED BY <1>1, <3>2, <3>3
      <2>. QED BY <1>3, <2>1
<1>8. ASSUME NEW i \in Items, Resolve(i) PROVE from' \in [Items -> Nat \ {0}]
      BY <1>1, <1>3, <1>8 DEF Resolve
<1>9. ASSUME NEW c \in 1..MaxMinute, StepBack(c) PROVE from' \in [Items -> Nat \ {0}]
      BY <1>1, <1>9 DEF StepBack
<1>10. CASE Restart
       <2>1. from' = [i \in Items |-> IF st'[i] = st[i] /\ smp[i].pc = "idle"
                                         THEN from[i] ELSE Newest(i) + 1]
             BY <1>10 DEF Restart
       <2>. QED BY <1>0, <1>1, <2>1
<1>. QED BY <1>4, <1>5, <1>6, <1>7, <1>8, <1>9, <1>10, NextCases

LEMMA ToldStep == ASSUME Types, [Next]_vars PROVE told' \in [Items -> [Keys -> BOOLEAN]]
<1>0. told \in [Items -> [Keys -> BOOLEAN]] BY DEF Types, HistTypes
<1>1. ASSUME NEW i \in Items, NEW es, Queued(i, es) PROVE told' \in [Items -> [Keys -> BOOLEAN]]
      <2>1. PICK f : f = [k \in Keys |->
                 IF \E n \in DOMAIN es : es[n].key = k
                   THEN \E n \in DOMAIN es : es[n].key = k /\ es[n].state = "firing"
                   ELSE told[i][k]]
            OBVIOUS
      <2>2. f \in [Keys -> BOOLEAN] BY <1>0, <2>1
      <2>3. told' = [told EXCEPT ![i] = f] BY <1>1, <2>1 DEF Queued
      <2>. QED BY <1>0, <2>2, <2>3
<1>2. CASE \/ UNCHANGED vars \/ Tick
           \/ \E i \in Items, m \in 1..MaxMinute, v \in [Keys -> Vals] : Commit(i, m, v)
           \/ \E i \in Items : ReadMinute(i)
           \/ \E i \in Items : RemoveItem(i)
           \/ \E c \in 1..MaxMinute : StepBack(c)
      <2>1. told' = told
            BY <1>2 DEF vars, Tick, Commit, ReadMinute, RemoveItem, StepBack, Nothing
      <2>. QED BY <1>0, <2>1
<1>3. ASSUME NEW i \in Items, Judge(i) PROVE told' \in [Items -> [Keys -> BOOLEAN]]
      <2>1. told' = told \/ \E es : Queued(i, es) BY <1>3 DEF Judge, Nothing
      <2>. QED BY <1>0, <1>1, <2>1
<1>4. ASSUME NEW i \in Items, NEW s, Recount(i, s) PROVE told' \in [Items -> [Keys -> BOOLEAN]]
      <2>1. \E es : Queued(i, es) BY <1>4 DEF Recount, reconcile
      <2>. QED BY <1>1, <2>1
<1>5. ASSUME NEW i \in Items, Resolve(i) PROVE told' \in [Items -> [Keys -> BOOLEAN]]
      <2>1. \E es : Queued(i, es) BY <1>5 DEF Resolve
      <2>. QED BY <1>1, <2>1
<1>6. CASE Prune
      <2>1. PICK gone : told' = [i \in Items |-> IF i \in gone THEN [k \in Keys |-> FALSE] ELSE told[i]]
            BY <1>6 DEF Prune
      <2>. QED BY <1>0, <2>1
<1>7. CASE Restart BY <1>7 DEF Restart
<1>. QED BY <1>2, <1>3, <1>4, <1>5, <1>6, <1>7, NextCases

LEMMA TypesStep == ASSUME Types, [Next]_vars PROVE Types'
BY StoreStep, StateTypes, FileStep, BlindStep, FromStep, ToldStep DEF Types, HistTypes

LEMMA TypesAlways == Spec => []Types
<1>1. Types /\ [Next]_vars => Types' BY TypesStep
<1>. QED BY TypesInit, <1>1, PTL DEF Spec

\* Every variable keeps its type: a run stays within its cap, and a minute is
\* kept as judged only while a run counts.
THEOREM EvaluatorTypes == Spec => []TypeOK
<1>1. ASSUME Types PROVE TypeOK
      <2>. USE <1>1
      <2>1. st \in [Items -> Good] /\ \A i \in Items : st[i] \in State BY GoodFields DEF Types
      <2>2. st \in [Items -> State] BY <2>1
      <2>3. \A i \in Items : st[i].last = 0 <=> st[i].runs = None BY <2>1, GoodFields
      <2>4. ASSUME NEW i \in Items
            PROVE  smp[i].pc \in {"idle", "read", "judge"} /\ smp[i].m \in 0..clk
            <3>1. smp[i] \in [pc : {"idle", "read", "judge"}, m : 0..MaxMinute, v : [Keys -> Vals]]
                  BY DEF Types, SmpTypes
            <3>2. smp[i].m <= clk /\ clk \in Nat BY DEF Types, SmpTypes, StoreTypes
            <3>. QED BY <3>1, <3>2, BoundsAssumption
      <2>5. Len(saved) <= 1 /\ Len(disk) <= 1 /\ saveErr \in BOOLEAN
            <3>1. disk = <<>> \/ \E d : disk = <<d>> BY DEF Types, FileTypes
            <3>2. ASSUME NEW d, disk = <<d>> PROVE Len(disk) <= 1
                  <4>1. Len(<<d>>) = 1 OBVIOUS
                  <4>. QED BY <3>2, <4>1
            <3>3. ASSUME disk = <<>> PROVE Len(disk) <= 1
                  <4>1. disk \in Seq({}) /\ \A q \in Seq({}) : Len(q) = 0 BY <3>3, EmptySeq
                  <4>. QED BY ONLY <4>1
            <3>4. Len(disk) <= 1 BY <3>1, <3>2, <3>3
            <3>. QED BY <3>4 DEF Types, FileTypes
      <2>. QED BY <2>2, <2>3, <2>4, <2>5 DEF TypeOK, State
<1>. QED BY TypesAlways, <1>1, PTL

-----------------------------------------------------------------------------
(* Runs are true.                                                          *)

\* What the ring holds, and what a sampler has read, was committed.
Seen == \A i \in Items, k \in Keys :
            /\ \A m \in DOMAIN ring[i] : ring[i][m][k] <= top[i][m][k]
            /\ smp[i].pc = "judge" => smp[i].v[k] <= top[i][smp[i].m][k]

\* The minutes of the run of key k in state s were high in t.
TrueRun(t, s, k) == \A x \in (s.last - s.runs[k] + 1)..s.last :
                        x \in 1..MaxMinute /\ t[x][k] >= s.rules[k].th

\* So they were for the states in memory and in the file.
TrueInv ==
    /\ \A i \in Items, k \in Keys : blind[i] \/ TrueRun(top[i], st[i], k)
    /\ \A d \in [Items -> Good] : disk = <<d>> =>
           \A i \in Items, k \in Keys : fileBlind[i] \/ TrueRun(top[i], d[i], k)

LEMMA TopTyped ==
    ASSUME Types, NEW i \in Items, NEW m \in 1..MaxMinute, NEW k \in Keys
    PROVE  /\ top[i][m][k] \in Vals /\ top[i][m][k] \in Int /\ top[i][m][k] >= -1
           /\ \A v \in Vals : v \in Int
<1>1. top[i] \in [1..MaxMinute -> [Keys -> Vals]] BY DEF Types, StoreTypes
<1>2. top[i][m] \in [Keys -> Vals] BY <1>1
<1>3. top[i][m][k] \in Vals BY <1>2
<1>4. \A v \in Vals : v \in Int /\ v >= -1 BY RulesAssumption DEF Vals, Absent
<1>. QED BY <1>3, <1>4

\* The value of a sampler, typed.
LEMMA SmpTyped ==
    ASSUME Types, NEW i \in Items
    PROVE  /\ smp[i].pc \in {"idle", "read", "judge"} /\ smp[i].m \in 0..MaxMinute
           /\ smp[i].m \in Nat /\ smp[i].v \in [Keys -> Vals]
           /\ \A k \in Keys : smp[i].v[k] \in Vals /\ smp[i].v[k] \in Int
           /\ smp[i].pc # "idle" => smp[i].m \in 1..MaxMinute
<1>1. smp[i] \in [pc : {"idle", "read", "judge"}, m : 0..MaxMinute, v : [Keys -> Vals]]
      BY DEF Types, SmpTypes
<1>2. smp[i].pc \in {"idle", "read", "judge"} /\ smp[i].m \in 0..MaxMinute
      /\ smp[i].v \in [Keys -> Vals]
      BY <1>1
<1>3. \A v \in Vals : v \in Int BY RulesAssumption DEF Vals, Absent
<1>4. smp[i].pc # "idle" => smp[i].m # 0 BY DEF Types, SmpTypes
<1>. QED BY <1>2, <1>3, <1>4, BoundsAssumption

\* top is the highest value ever committed: it never falls.
LEMMA TopGrows ==
    ASSUME Types, [Next]_vars, NEW i \in Items, NEW x \in 1..MaxMinute, NEW k \in Keys
    PROVE  top[i][x][k] <= top'[i][x][k]
<1>0. top \in [Items -> [1..MaxMinute -> [Keys -> Vals]]] BY DEF Types, StoreTypes
<1>1. top[i][x][k] \in Int BY TopTyped
<1>2. CASE top' = top BY <1>1, <1>2
<1>3. ASSUME NEW j \in Items, NEW m \in 1..MaxMinute, NEW v \in [Keys -> Vals], Commit(j, m, v)
      PROVE  top[i][x][k] <= top'[i][x][k]
      <2>1. PICK g : g = [q \in Keys |-> IF v[q] > top[j][m][q] THEN v[q] ELSE top[j][m][q]]
            OBVIOUS
      <2>2. top' = [top EXCEPT ![j][m] = g] BY <1>3, <2>1 DEF Commit
      <2>3. CASE i = j /\ x = m
            <3>1. top'[i][x] = g BY <1>0, <2>2, <2>3
            <3>2. g[k] = IF v[k] > top[i][x][k] THEN v[k] ELSE top[i][x][k] BY <2>1, <2>3
            <3>3. v[k] \in Int
                  <4>1. v[k] \in Vals OBVIOUS
                  <4>. QED BY <4>1, TopTyped
            <3>. QED BY <1>1, <3>1, <3>2, <3>3
      <2>4. CASE ~ (i = j /\ x = m)
            <3>1. top'[i][x] = top[i][x] BY <1>0, <2>2, <2>4
            <3>. QED BY <1>1, <3>1
      <2>. QED BY <2>3, <2>4
<1>4. CASE ~ \E j \in Items, m \in 1..MaxMinute, v \in [Keys -> Vals] : Commit(j, m, v)
      <2>1. top' = top
            BY <1>4, NextCases
            DEF vars, store, Tick, ReadMinute, Judge, Recount, Resolve, RemoveItem, Prune,
                StepBack, Restart
      <2>. QED BY <1>2, <2>1
<1>. QED BY <1>3, <1>4

LEMMA TrueRunGrows ==
    ASSUME Types, [Next]_vars, NEW i \in Items, NEW k \in Keys, NEW s \in Good,
           TrueRun(top[i], s, k)
    PROVE  TrueRun(top'[i], s, k)
<1>1. s \in State /\ s.rules[k].th \in Nat BY GoodFields, RuleFields
<1>2. ASSUME NEW x \in (s.last - s.runs[k] + 1)..s.last
      PROVE  x \in 1..MaxMinute /\ top'[i][x][k] >= s.rules[k].th
      <2>1. x \in 1..MaxMinute /\ top[i][x][k] >= s.rules[k].th BY DEF TrueRun
      <2>2. top[i][x][k] <= top'[i][x][k] /\ top[i][x][k] \in Int BY <2>1, TopGrows, TopTyped
      <2>3. top'[i][x][k] \in Int
            <3>1. top' \in [Items -> [1..MaxMinute -> [Keys -> Vals]]]
                  BY TypesStep DEF Types, StoreTypes
            <3>2. top'[i] \in [1..MaxMinute -> [Keys -> Vals]] BY <3>1
            <3>3. top'[i][x] \in [Keys -> Vals] BY <2>1, <3>2
            <3>4. top'[i][x][k] \in Vals BY <3>3
            <3>. QED BY <2>1, <3>4, TopTyped
      <2>. QED BY <1>1, <2>1, <2>2, <2>3
<1>. QED BY <1>2 DEF TrueRun

LEMMA SeenStep == ASSUME Types, Seen, [Next]_vars PROVE Seen'
<1>0. /\ ring \in [Items -> RingType] /\ smp \in [Items -> [pc : {"idle", "read", "judge"},
                                                 m : 0..MaxMinute, v : [Keys -> Vals]]]
      BY DEF Types, StoreTypes, SmpTypes
<1>1. Types' BY TypesStep
<1>. SUFFICES ASSUME NEW i \in Items, NEW k \in Keys
              PROVE  /\ \A m \in DOMAIN ring'[i] : ring'[i][m][k] <= top'[i][m][k]
                     /\ smp'[i].pc = "judge" => smp'[i].v[k] <= top'[i][smp'[i].m][k]
     BY DEF Seen
<1>2. ASSUME ring'[i] = ring[i] \/ DOMAIN ring'[i] = {}, NEW m \in DOMAIN ring'[i]
      PROVE  ring'[i][m][k] <= top'[i][m][k]
      <2>1. m \in DOMAIN ring[i] /\ ring'[i][m] = ring[i][m] BY <1>2
      <2>2. m \in 1..MaxMinute /\ ring[i][m] \in [Keys -> Vals] BY <2>1, RingDomain DEF Types
      <2>3. ring[i][m][k] <= top[i][m][k] BY <2>1 DEF Seen
      <2>4. top[i][m][k] <= top'[i][m][k] BY <2>2, TopGrows
      <2>5. ring[i][m][k] \in Int /\ top[i][m][k] \in Int /\ top'[i][m][k] \in Int
            <3>1. ring[i][m][k] \in Vals BY <2>2
            <3>2. top' \in [Items -> [1..MaxMinute -> [Keys -> Vals]]]
                  BY <1>1 DEF Types, StoreTypes
            <3>3. top'[i] \in [1..MaxMinute -> [Keys -> Vals]] BY <3>2
            <3>4. top'[i][m] \in [Keys -> Vals] BY <2>2, <3>3
            <3>5. top'[i][m][k] \in Vals BY <3>4
            <3>. QED BY <2>2, <3>1, <3>5, TopTyped
      <2>. QED BY <2>1, <2>3, <2>4, <2>5
<1>3. ASSUME smp'[i] = smp[i] \/ smp'[i].pc # "judge", smp'[i].pc = "judge"
      PROVE  smp'[i].v[k] <= top'[i][smp'[i].m][k]
      <2>1. PICK m \in 1..MaxMinute : m = smp[i].m BY <1>3, SmpTyped
      <2>2. smp[i].v[k] <= top[i][m][k] BY <1>3, <2>1 DEF Seen
      <2>3. top[i][m][k] <= top'[i][m][k] BY TopGrows
      <2>4. smp[i].v[k] \in Int /\ top[i][m][k] \in Int /\ top'[i][m][k] \in Int
            <3>1. top' \in [Items -> [1..MaxMinute -> [Keys -> Vals]]]
                  BY <1>1 DEF Types, StoreTypes
            <3>2. top'[i] \in [1..MaxMinute -> [Keys -> Vals]] BY <3>1
            <3>3. top'[i][m] \in [Keys -> Vals] BY <3>2
            <3>4. top'[i][m][k] \in Vals BY <3>3
            <3>. QED BY <3>4, SmpTyped, TopTyped
      <2>. QED BY <1>3, <2>1, <2>2, <2>3, <2>4
<1>4. CASE \/ UNCHANGED vars \/ Tick \/ Prune \/ Restart
           \/ \E c \in 1..MaxMinute : StepBack(c)
           \/ \E j \in Items : Judge(j)
           \/ \E j \in Items : \E s : Recount(j, s)
           \/ \E j \in Items : Resolve(j)
           \/ \E j \in Items : RemoveItem(j)
      <2>1. ring'[i] = ring[i] \/ DOMAIN ring'[i] = {}
            <3>1. CASE \E j \in Items : RemoveItem(j)
                  <4>1. PICK j \in Items : ring' = [ring EXCEPT ![j] = <<>>]
                        BY <3>1 DEF RemoveItem
                  <4>2. DOMAIN <<>> = {} OBVIOUS
                  <4>. QED BY <1>0, <4>1, <4>2
            <3>2. CASE ~ \E j \in Items : RemoveItem(j)
                  BY <1>4, <3>2
                  DEF vars, store, Tick, Prune, Restart, StepBack, Judge, Recount, Resolve
            <3>. QED BY <3>1, <3>2
      <2>2. smp'[i] = smp[i] \/ smp'[i].pc # "judge"
            <3>1. smp' = smp \/ (\E j \in Items : smp' = [smp EXCEPT ![j] = Resting])
                             \/ smp' = [j \in Items |-> Resting]
                  BY <1>4
                  DEF vars, store, Tick, Prune, Restart, StepBack, Judge, Recount, Resolve, RemoveItem
            <3>2. smp'[i] = smp[i] \/ smp'[i] = Resting BY <1>0, <3>1
            <3>. QED BY <3>2, RestingLemma
      <2>. QED BY <1>2, <1>3, <2>1, <2>2
<1>5. ASSUME NEW j \in Items, NEW m \in 1..MaxMinute, NEW v \in [Keys -> Vals], Commit(j, m, v)
      PROVE  /\ \A n \in DOMAIN ring'[i] : ring'[i][n][k] <= top'[i][n][k]
             /\ smp'[i].pc = "judge" => smp'[i].v[k] <= top'[i][smp'[i].m][k]
      <2>1. /\ ring' = [ring EXCEPT ![j] = [x \in DOMAIN @ \cup {m} |-> IF x = m THEN v ELSE @[x]]]
            /\ smp' = [smp EXCEPT ![j] = [Resting EXCEPT !.pc = "read", !.m = m]]
            BY <1>5 DEF Commit
      <2>2. PICK g : g = [q \in Keys |-> IF v[q] > top[j][m][q] THEN v[q] ELSE top[j][m][q]]
            OBVIOUS
      <2>3. top' = [top EXCEPT ![j][m] = g] BY <1>5, <2>2 DEF Commit
      <2>4. CASE i # j
            <3>1. ring'[i] = ring[i] /\ smp'[i] = smp[i] BY <1>0, <2>1, <2>4
            <3>. QED BY <1>2, <1>3, <3>1
      <2>5. CASE i = j
            <3>1. smp'[i].pc # "judge"
                  <4>1. smp'[i] = [Resting EXCEPT !.pc = "read", !.m = m] BY <1>0, <2>1, <2>5
                  <4>. QED BY <4>1, RestingLemma
            <3>2. PICK f : f = [x \in DOMAIN ring[i] \cup {m} |-> IF x = m THEN v ELSE ring[i][x]]
                  OBVIOUS
            <3>3. ring'[i] = f BY <1>0, <2>1, <2>5, <3>2
            <3>4. ASSUME NEW n \in DOMAIN f PROVE f[n][k] <= top'[i][n][k]
                  <4>1. CASE n = m
                        <5>1. f[n] = v BY <3>2, <4>1
                        <5>2. top'[i][n] = g
                              <6>1. top \in [Items -> [1..MaxMinute -> [Keys -> Vals]]]
                                    BY DEF Types, StoreTypes
                              <6>. QED BY <2>3, <2>5, <4>1, <6>1
                        <5>3. g[k] = IF v[k] > top[i][m][k] THEN v[k] ELSE top[i][m][k]
                              BY <2>2, <2>5
                        <5>4. v[k] \in Int /\ top[i][m][k] \in Int
                              <6>1. v[k] \in Vals OBVIOUS
                              <6>. QED BY <6>1, TopTyped
                        <5>. QED BY <5>1, <5>2, <5>3, <5>4
                  <4>2. CASE n # m
                        <5>1. n \in DOMAIN ring[i] /\ f[n] = ring[i][n] BY <3>2, <4>2
                        <5>2. n \in 1..MaxMinute /\ ring[i][n] \in [Keys -> Vals]
                              BY <5>1, RingDomain DEF Types
                        <5>3. ring[i][n][k] <= top[i][n][k] BY <5>1 DEF Seen
                        <5>4. top'[i][n] = top[i][n]
                              <6>1. top \in [Items -> [1..MaxMinute -> [Keys -> Vals]]]
                                    BY DEF Types, StoreTypes
                              <6>. QED BY <2>3, <2>5, <4>2, <5>2, <6>1
                        <5>. QED BY <5>1, <5>3, <5>4
                  <4>. QED BY <4>1, <4>2
            <3>. QED BY <3>1, <3>3, <3>4
      <2>. QED BY <2>4, <2>5
<1>6. ASSUME NEW j \in Items, ReadMinute(j)
      PROVE  /\ \A n \in DOMAIN ring'[i] : ring'[i][n][k] <= top'[i][n][k]
             /\ smp'[i].pc = "judge" => smp'[i].v[k] <= top'[i][smp'[i].m][k]
      <2>1. ring' = ring /\ top' = top /\ smp[j].pc = "read" BY <1>6 DEF ReadMinute, store
      <2>2. CASE smp' = [smp EXCEPT ![j] = Resting]
            <3>1. smp'[i] = smp[i] \/ smp'[i] = Resting BY <1>0, <2>2
            <3>. QED BY <1>2, <1>3, <2>1, <3>1, RestingLemma
      <2>3. CASE smp' = [smp EXCEPT ![j].pc = "judge",
                                    ![j].v = [q \in Keys |-> Value(j, q, smp[j].m)]]
            <3>1. CASE i # j
                  <4>1. smp'[i] = smp[i] BY <1>0, <2>3, <3>1
                  <4>. QED BY <1>2, <1>3, <2>1, <4>1
            <3>2. CASE i = j
                  <4>1. smp'[i].m = smp[i].m /\ smp'[i].v[k] = Value(i, k, smp[i].m)
                        BY <1>0, <2>3, <3>2
                  <4>2. PICK m \in 1..MaxMinute : m = smp[i].m BY <2>1, <3>2, SmpTyped
                  <4>3. Value(i, k, m) <= top[i][m][k]
                        <5>1. CASE m \in DOMAIN ring[i] BY <5>1 DEF Seen, Value
                        <5>2. CASE m \notin DOMAIN ring[i]
                              <6>1. Value(i, k, m) = -1 BY <5>2 DEF Value, Absent
                              <6>. QED BY <6>1, TopTyped
                        <5>. QED BY <5>1, <5>2
                  <4>. QED BY <1>2, <2>1, <4>1, <4>2, <4>3
            <3>. QED BY <3>1, <3>2
      <2>. QED BY <1>6, <2>2, <2>3 DEF ReadMinute
<1>. QED BY <1>4, <1>5, <1>6, NextCases

LEMMA NoRun ==
    ASSUME NEW t, NEW s \in Good, NEW k \in Keys, s.runs[k] = 0
    PROVE  TrueRun(t, s, k)
<1>1. s.last \in Nat BY GoodFields, RuleFields
<1>2. (s.last - s.runs[k] + 1)..s.last = {} BY <1>1
<1>. QED BY <1>2 DEF TrueRun

\* A recount counts minutes of the ring.
LEMMA CountedTrue ==
    ASSUME Types, Seen, NEW i \in Items, NEW s, NEW t, NEW k \in Keys,
           Recount(i, s), Counted(i, s, t)
    PROVE  TrueRun(top[i], t, k)
<1>1. t \in Good /\ s \in State /\ t.rules = s.rules BY DEF Counted, Recount
<1>2. s.rules[k].en \in BOOLEAN /\ s.rules[k].th \in Nat /\ s.rules[k].min \in Nat
      BY <1>1, RuleFields
<1>3. PICK n : n = Walk(i, k, s.rules[k]) OBVIOUS
<1>4. /\ n \in Nat /\ n <= Newest(i)
      /\ \A x \in 0..(n - 1) : Value(i, k, Newest(i) - x) >= s.rules[k].th
      BY <1>2, <1>3, WalkLemma DEF Types
<1>5. t.runs[k] = n
      <2>1. Recounted(i, s, k).run = n BY <1>1, <1>3, RecountedLemma DEF Types
      <2>. QED BY <2>1 DEF Counted
<1>6. CASE n = 0 BY <1>1, <1>5, <1>6, NoRun
<1>7. CASE n # 0
      <2>1. t.last = Newest(i)
            <3>1. t.runs # None BY <1>5, <1>7 DEF None
            <3>. QED BY <3>1 DEF Counted
      <2>2. Newest(i) \in Nat BY NewestLemma DEF Types
      <2>3. ASSUME NEW x \in (t.last - t.runs[k] + 1)..t.last
            PROVE  x \in 1..MaxMinute /\ top[i][x][k] >= t.rules[k].th
            <3>1. x \in Int /\ x >= Newest(i) - n + 1 /\ x <= Newest(i)
                  BY <1>4, <1>5, <2>1, <2>2
            <3>2. PICK y \in 0..(n - 1) : Newest(i) - y = x BY <1>4, <2>2, <3>1
            <3>3. Value(i, k, x) >= s.rules[k].th BY <1>4, <3>2
            <3>4. x \in DOMAIN ring[i] /\ Value(i, k, x) = ring[i][x][k]
                  BY <1>2, <3>3, ValueLemma DEF Types
            <3>5. x \in 1..MaxMinute BY <3>4, RingDomain DEF Types
            <3>6. ring[i][x][k] <= top[i][x][k] BY <3>4 DEF Seen
            <3>7. top[i][x][k] \in Int /\ Value(i, k, x) \in Int
                  BY <3>5, TopTyped, ValueLemma DEF Types
            <3>. QED BY <1>1, <1>2, <3>3, <3>4, <3>5, <3>6, <3>7
      <2>. QED BY <2>3 DEF TrueRun
<1>. QED BY <1>6, <1>7

\* A minute that is judged adds to a true run, or begins one.
LEMMA JudgedTrue ==
    ASSUME Types, Seen, NEW i \in Items, NEW t \in Good, NEW k \in Keys,
           smp[i].pc = "judge", t.rules = st[i].rules, t.runs # None => t.last = smp[i].m,
           t.runs[k] = Judged(i, st[i], k, smp[i].m, smp[i].v[k]).run,
           smp[i].m = st[i].last + 1 => TrueRun(top[i], st[i], k)
    PROVE  TrueRun(top[i], t, k)
<1>1. PICK m \in 1..MaxMinute : m = smp[i].m BY SmpTyped
<1>2. PICK v \in Int : v = smp[i].v[k] BY SmpTyped
<1>3. PICK s \in Good : s = st[i] BY DEF Types
<1>4. PICK j : j = Judged(i, s, k, m, v) OBVIOUS
<1>5. /\ s \in State /\ s.rules[k].en \in BOOLEAN /\ s.rules[k].th \in Nat
      /\ s.runs[k] \in Nat /\ s.last \in Nat
      BY GoodFields, RuleFields
<1>6. t.runs[k] = j.run BY <1>1, <1>2, <1>3, <1>4
<1>7. CASE ~s.rules[k].en \/ v < s.rules[k].th
      <2>1. j.run = 0 BY <1>4, <1>7, JudgedLemma
      <2>. QED BY <1>6, <2>1, NoRun
<1>8. CASE s.rules[k].en /\ ~ (v < s.rules[k].th)
      <2>1. /\ j.run \in Nat /\ j.run >= 1
            /\ j.run <= IF m = s.last + 1 THEN s.runs[k] + 1 ELSE 1
            BY <1>4, <1>8, JudgedLemma, RulesAssumption
      <2>2. t.last = m
            <3>1. t.runs # None BY <1>6, <2>1 DEF None
            <3>. QED BY <1>1, <3>1
      <2>3. v <= top[i][m][k] BY <1>1, <1>2 DEF Seen
      <2>4. top[i][m][k] \in Int BY TopTyped
      <2>5. ASSUME NEW x \in (t.last - t.runs[k] + 1)..t.last
            PROVE  x \in 1..MaxMinute /\ top[i][x][k] >= t.rules[k].th
            <3>1. m \in Nat BY BoundsAssumption
            <3>2. x \in Int /\ x >= m - j.run + 1 /\ x <= m BY <1>6, <2>1, <2>2, <3>1
            <3>3. CASE x = m BY <1>3, <1>5, <1>8, <2>3, <2>4, <3>3
            <3>4. CASE x # m
                  <4>1. m = s.last + 1 /\ j.run <= s.runs[k] + 1 BY <2>1, <3>1, <3>2, <3>4
                  <4>2. x \in (s.last - s.runs[k] + 1)..s.last
                        <5>1. PICK a, n, g \in Nat : a = s.last /\ n = s.runs[k] /\ g = j.run
                              BY <1>5, <2>1
                        <5>2. x \in Int /\ x >= m - g + 1 /\ x <= m /\ x # m
                              BY <3>2, <3>4, <5>1
                        <5>3. m = a + 1 /\ g <= n + 1 BY <4>1, <5>1
                        <5>4. x \in (a - n + 1)..a BY ONLY <3>1, <5>1, <5>2, <5>3
                        <5>. QED BY <5>1, <5>4
                  <4>3. TrueRun(top[i], s, k) BY <1>1, <1>3, <4>1
                  <4>. QED BY <1>3, <4>2, <4>3 DEF TrueRun
            <3>. QED BY <3>3, <3>4
      <2>. QED BY <2>5 DEF TrueRun
<1>. QED BY <1>5, <1>7, <1>8

\* A step that saves the states keeps the file true if it keeps memory true.
LEMMA FileTrue ==
    ASSUME Types, TrueInv, [Next]_vars, NEW b, Save, Blinds(b),
           \A i \in Items, k \in Keys : blind'[i] \/ TrueRun(top'[i], st'[i], k)
    PROVE  TrueInv'
<1>1. ASSUME NEW d \in [Items -> Good], disk' = <<d>>, NEW i \in Items, NEW k \in Keys
      PROVE  fileBlind'[i] \/ TrueRun(top'[i], d[i], k)
      <2>1. saved' = disk' /\ saved = disk BY FileStep DEF Types, FileTypes
      <2>2. CASE saved' = <<st'>>
            <3>1. d = st' BY <1>1, <2>1, <2>2
            <3>2. fileBlind' = blind' BY <2>2 DEF Blinds
            <3>. QED BY <3>1, <3>2
      <2>3. CASE saved' # <<st'>>
            <3>1. disk' = disk /\ fileBlind' = fileBlind BY <2>3 DEF Save, Blinds
            <3>2. fileBlind[i] \/ TrueRun(top[i], d[i], k) BY <1>1, <3>1 DEF TrueInv
            <3>3. TrueRun(top[i], d[i], k) => TrueRun(top'[i], d[i], k)
                  <4>1. d[i] \in Good OBVIOUS
                  <4>. QED BY <4>1, TrueRunGrows
            <3>. QED BY <3>1, <3>2, <3>3
      <2>. QED BY <2>2, <2>3
<1>. QED BY <1>1 DEF TrueInv

LEMMA TrueStep == ASSUME Types, Seen, TrueInv, [Next]_vars PROVE TrueInv'
<1>0. /\ st \in [Items -> Good] /\ st' \in [Items -> Good]
      /\ blind \in [Items -> BOOLEAN] /\ fileBlind \in [Items -> BOOLEAN]
      BY StateTypes DEF Types, HistTypes
<1>1. ASSUME NEW i \in Items, NEW k \in Keys, NEW s \in Good
      PROVE  TrueRun(top[i], s, k) => TrueRun(top'[i], s, k)
      BY TrueRunGrows
<1>2. CASE UNCHANGED <<st, disk, blind, fileBlind>>
      <2>1. ASSUME NEW i \in Items, NEW k \in Keys
            PROVE  blind'[i] \/ TrueRun(top'[i], st'[i], k)
            <3>1. blind[i] \/ TrueRun(top[i], st[i], k) BY DEF TrueInv
            <3>2. st[i] \in Good BY <1>0
            <3>. QED BY <1>1, <1>2, <3>1, <3>2
      <2>2. ASSUME NEW d \in [Items -> Good], disk' = <<d>>, NEW i \in Items, NEW k \in Keys
            PROVE  fileBlind'[i] \/ TrueRun(top'[i], d[i], k)
            <3>1. fileBlind[i] \/ TrueRun(top[i], d[i], k) BY <1>2, <2>2 DEF TrueInv
            <3>2. d[i] \in Good OBVIOUS
            <3>. QED BY <1>1, <1>2, <3>1, <3>2
      <2>. QED BY <2>1, <2>2 DEF TrueInv
<1>3. CASE \/ UNCHANGED vars \/ Tick
           \/ \E i \in Items, m \in 1..MaxMinute, v \in [Keys -> Vals] : Commit(i, m, v)
           \/ \E i \in Items : ReadMinute(i)
           \/ \E i \in Items : RemoveItem(i)
           \/ \E c \in 1..MaxMinute : StepBack(c)
      <2>1. UNCHANGED <<st, disk, blind, fileBlind>>
            BY <1>3
            DEF vars, Nothing, sight, Tick, Commit, ReadMinute, RemoveItem, StepBack
      <2>. QED BY <1>2, <2>1
\* A step that changes the state of one item.
<1>4. ASSUME NEW i \in Items, NEW t \in Good, st' = [st EXCEPT ![i] = t], top' = top,
             NEW b, Save, Blinds(b), \A j \in Items \ {i} : b[j] = blind[j],
             \A k \in Keys : b[i] \/ TrueRun(top[i], t, k)
      PROVE  TrueInv'
      <2>1. ASSUME NEW j \in Items, NEW k \in Keys
            PROVE  blind'[j] \/ TrueRun(top'[j], st'[j], k)
            <3>1. blind' = b BY <1>4 DEF Blinds
            <3>2. CASE j = i
                  <4>1. st'[j] = t BY <1>0, <1>4, <3>2
                  <4>. QED BY <1>4, <3>1, <3>2, <4>1
            <3>3. CASE j # i
                  <4>1. st'[j] = st[j] BY <1>0, <1>4, <3>3
                  <4>2. blind[j] \/ TrueRun(top[j], st[j], k) BY DEF TrueInv
                  <4>. QED BY <1>4, <3>1, <3>3, <4>1, <4>2
            <3>. QED BY <3>2, <3>3
      <2>. QED BY <1>4, <2>1, FileTrue
<1>5. ASSUME NEW i \in Items, Judge(i) PROVE TrueInv'
      <2>1. CASE smp[i].m = st[i].last /\ Nothing /\ UNCHANGED sight
            <3>1. UNCHANGED <<st, disk, blind, fileBlind>> BY <2>1 DEF Nothing, sight
            <3>. QED BY <1>2, <3>1
      <2>2. CASE smp[i].m # st[i].last
            <3>1. PICK t \in Good :
                      /\ st' = [st EXCEPT ![i] = t] /\ Save
                      /\ t.rules = st[i].rules /\ (t.runs # None => t.last = smp[i].m)
                      /\ \A k \in Keys :
                             LET j == Judged(i, st[i], k, smp[i].m, smp[i].v[k])
                             IN  t.runs[k] = j.run /\ t.active[k] = j.active
                  BY <1>5, <2>2, JudgeLemma
            <3>2. PICK b : b = [blind EXCEPT ![i] = @ /\ smp[i].m = st[i].last + 1] OBVIOUS
            <3>3. Blinds(b) /\ top' = top /\ smp[i].pc = "judge"
                  BY <1>5, <2>2, <3>2 DEF Judge, store
            <3>4. /\ \A j \in Items \ {i} : b[j] = blind[j]
                  /\ b[i] <=> (blind[i] /\ smp[i].m = st[i].last + 1)
                  BY <1>0, <3>2
            <3>5. ASSUME NEW k \in Keys, ~b[i] PROVE TrueRun(top[i], t, k)
                  <4>1. blind[i] \/ TrueRun(top[i], st[i], k) BY DEF TrueInv
                  <4>2. smp[i].m = st[i].last + 1 => TrueRun(top[i], st[i], k)
                        BY <3>4, <3>5, <4>1
                  <4>3. t.runs[k] = Judged(i, st[i], k, smp[i].m, smp[i].v[k]).run BY <3>1
                  <4>. QED BY <3>1, <3>3, <4>2, <4>3, JudgedTrue
            <3>. QED BY <1>4, <3>1, <3>3, <3>4, <3>5
      <2>. QED BY <1>5, <2>1, <2>2 DEF Judge
<1>6. ASSUME NEW i \in Items, NEW s, Recount(i, s) PROVE TrueInv'
      <2>1. PICK b : b = blind' /\ Blinds(b) BY <1>6, RecountLemma
      <2>2. top' = top BY <1>6 DEF Recount, store
      <2>3. ASSUME NEW t, Counted(i, s, t) PROVE TrueInv'
            <3>1. t \in Good /\ st' = [st EXCEPT ![i] = t] /\ Save
                  /\ b = [blind EXCEPT ![i] = FALSE]
                  BY <2>1, <2>3 DEF Counted
            <3>2. \A j \in Items \ {i} : b[j] = blind[j] BY <1>0, <3>1
            <3>3. \A k \in Keys : TrueRun(top[i], t, k) BY <1>6, <2>3, CountedTrue
            <3>. QED BY <1>4, <2>1, <2>2, <3>1, <3>2, <3>3
      <2>4. ASSUME NEW t, Uncounted(i, s, t) PROVE TrueInv'
            <3>1. t \in Good /\ st' = [st EXCEPT ![i] = t] /\ Save
                  /\ b = [blind EXCEPT ![i] = @ \/ s.rules # st[i].rules]
                  /\ t.rules = s.rules /\ t.runs = st[i].runs /\ t.last = st[i].last
                  BY <2>1, <2>4 DEF Uncounted
            <3>2. /\ \A j \in Items \ {i} : b[j] = blind[j]
                  /\ b[i] <=> (blind[i] \/ s.rules # st[i].rules)
                  BY <1>0, <3>1
            <3>3. ASSUME NEW k \in Keys, ~b[i] PROVE TrueRun(top[i], t, k)
                  <4>1. TrueRun(top[i], st[i], k) BY <3>2, <3>3 DEF TrueInv
                  <4>2. t.rules = st[i].rules BY <3>1, <3>2, <3>3
                  <4>. QED BY <3>1, <4>1, <4>2 DEF TrueRun
            <3>. QED BY <1>4, <2>1, <2>2, <3>1, <3>2, <3>3
      <2>. QED BY <1>6, <2>3, <2>4, RecountLemma
<1>7. ASSUME NEW i \in Items, Resolve(i) PROVE TrueInv'
      <2>1. PICK t \in Good : st' = [st EXCEPT ![i] = t] /\ Save /\ t.runs = None
            BY <1>7, ResolveLemma
      <2>2. PICK b : b = [blind EXCEPT ![i] = FALSE] /\ Blinds(b) BY <1>7 DEF Resolve
      <2>3. top' = top BY <1>7 DEF Resolve, store
      <2>4. \A j \in Items \ {i} : b[j] = blind[j] BY <1>0, <2>2
      <2>5. \A k \in Keys : TrueRun(top[i], t, k) BY <2>1, NoRun DEF None
      <2>. QED BY <1>4, <2>1, <2>2, <2>3, <2>4, <2>5
<1>8. CASE Prune
      <2>1. PICK gone : gone = {i \in Items : DOMAIN ring[i] = {}} OBVIOUS
      <2>2. /\ st' = [i \in Items |-> IF i \in gone THEN Idle ELSE st[i]] /\ Save
            /\ Blinds([i \in Items |-> blind[i] /\ i \notin gone]) /\ top' = top
            BY <1>8, <2>1 DEF Prune, store
      <2>3. PICK b : b = [i \in Items |-> blind[i] /\ i \notin gone] /\ Blinds(b) BY <2>2
      <2>4. ASSUME NEW i \in Items, NEW k \in Keys
            PROVE  blind'[i] \/ TrueRun(top'[i], st'[i], k)
            <3>1. blind' = b BY <2>3 DEF Blinds
            <3>2. CASE i \in gone
                  <4>1. st'[i] = Idle BY <2>2, <3>2
                  <4>2. Idle.runs[k] = 0 BY IdleLemma DEF None
                  <4>. QED BY <4>1, <4>2, IdleLemma, NoRun
            <3>3. CASE i \notin gone
                  <4>1. st'[i] = st[i] /\ (b[i] <=> blind[i]) BY <2>2, <2>3, <3>3
                  <4>2. blind[i] \/ TrueRun(top[i], st[i], k) BY DEF TrueInv
                  <4>. QED BY <2>2, <3>1, <4>1, <4>2
            <3>. QED BY <3>2, <3>3
      <2>. QED BY <2>2, <2>3, <2>4, FileTrue
<1>9. CASE Restart
      <2>0. top' = top BY <1>9 DEF Restart
      <2>1. ASSUME NEW i \in Items, NEW k \in Keys PROVE TrueRun(top'[i], Idle, k)
            BY IdleLemma, NoRun DEF None
      <2>2. CASE disk = <<>> /\ st' = [i \in Items |-> Idle] /\ disk' = disk
            BY <2>1, <2>2, IdleLemma DEF TrueInv
      <2>3. CASE st' = [i \in Items |-> Idle] /\ disk' = <<>>
            BY <2>1, <2>3, IdleLemma DEF TrueInv
      <2>4. CASE /\ disk # <<>> /\ st' = disk[1] /\ disk' = disk
                 /\ blind' = fileBlind /\ fileBlind' = fileBlind
            <3>1. PICK d \in [Items -> Good] : disk = <<d>> BY <2>4 DEF Types, FileTypes
            <3>2. st' = d BY <2>4, <3>1
            <3>3. \A i \in Items, k \in Keys : fileBlind[i] \/ TrueRun(top[i], d[i], k)
                  BY <3>1 DEF TrueInv
            <3>4. \A e : disk' = <<e>> => e = d BY <2>4, <3>1
            <3>. QED BY <2>0, <2>4, <3>2, <3>3, <3>4 DEF TrueInv
      <2>. QED BY <1>9, <2>2, <2>3, <2>4 DEF Restart
<1>. QED BY <1>3, <1>5, <1>6, <1>7, <1>8, <1>9, NextCases

LEMMA TrueAlways == Spec => [](Types /\ Seen /\ TrueInv)
<1>1. ASSUME Init PROVE Seen /\ TrueInv
      <2>1. \A i \in Items : DOMAIN ring[i] = {} /\ smp[i].pc = "idle"
            BY <1>1, RestingLemma DEF Init
      <2>2. Seen BY <2>1 DEF Seen
      <2>3. \A i \in Items, k \in Keys : TrueRun(top[i], Idle, k)
            BY IdleLemma, NoRun DEF None
      <2>4. \A i \in Items : st[i] = Idle BY <1>1 DEF Init
      <2>5. disk = <<>> BY <1>1 DEF Init
      <2>. QED BY <2>2, <2>3, <2>4, <2>5 DEF TrueInv
<1>2. Types /\ Seen /\ TrueInv /\ [Next]_vars => Types' /\ Seen' /\ TrueInv'
      BY TypesStep, SeenStep, TrueStep
<1>. QED BY TypesInit, <1>1, <1>2, PTL DEF Spec

\* The minutes of a run were high for the rule in force, for any rules, values
\* and faults, whatever was interleaved with the reading of a minute, saved,
\* restarted or counted by a recount, unless the rules changed unread.
THEOREM RunsAreTrue == Spec => []RunsTrue
<1>1. ASSUME TrueInv PROVE RunsTrue
      BY <1>1 DEF TrueInv, TrueRun, RunsTrue, HighFor
<1>. QED BY TrueAlways, <1>1, PTL

-----------------------------------------------------------------------------
(* The events.                                                             *)

\* What the events es of key k tell of item i, whose state s becomes t.
KeySays(i, s, t, k, es) ==
    \/ es = <<>> /\ (s.active[k] = 0 <=> t.active[k] = 0)
    \/ /\ s.active[k] = 0 /\ t.active[k] # 0
       /\ t.rules[k].en /\ t.runs[k] >= t.rules[k].min
       /\ es = <<Event(i, k, "firing", t.last - t.runs[k] + 1)>>
    \/ /\ s.active[k] # 0 /\ t.active[k] = 0
       /\ es = <<Event(i, k, "resolved", s.active[k])>>

\* What one event tells.
Tells(i, s, t, e) ==
    /\ e.item = i /\ e.key \in Keys
    /\ \/ /\ e.state = "firing" /\ s.active[e.key] = 0 /\ t.active[e.key] # 0
          /\ t.rules[e.key].en /\ t.runs[e.key] >= t.rules[e.key].min
          /\ e.since = t.last - t.runs[e.key] + 1
       \/ e.state = "resolved" /\ s.active[e.key] # 0 /\ t.active[e.key] = 0

\* What the events es of all keys tell, and what their silence does.
Says(i, s, t, es) ==
    /\ \A n \in DOMAIN es : Tells(i, s, t, es[n])
    /\ \A k \in Keys : (\A n \in DOMAIN es : es[n].key # k)
                           => (s.active[k] = 0 <=> t.active[k] = 0)

LEMMA EventFields ==
    ASSUME NEW i, NEW k, NEW state, NEW since
    PROVE  LET e == Event(i, k, state, since)
           IN  e.item = i /\ e.key = k /\ e.state = state /\ e.since = since
BY DEF Event

LEMMA OneEvent == ASSUME NEW e PROVE Range(<<e>>) = {e}
<1>1. DOMAIN <<e>> = {1} /\ <<e>>[1] = e OBVIOUS
<1>. QED BY <1>1 DEF Range

LEMMA FlattenSays ==
    ASSUME NEW i \in Items, NEW s \in Good, NEW t \in Good, NEW q, DOMAIN q = Keys,
           q = [k \in Keys |-> q[k]], \A k \in Keys : KeySays(i, s, t, k, q[k])
    PROVE  Says(i, s, t, FlattenSeq(q))
<1>. DEFINE E == [item : Items, key : Keys, state : {"firing", "resolved"}, since : Int]
<1>0. \A k \in Keys : /\ s.active[k] \in Int /\ t.active[k] \in Int
                      /\ t.last \in Int /\ t.runs[k] \in Int
      BY GoodFields, RuleFields
<1>1. ASSUME NEW k \in Keys PROVE q[k] \in Seq(E)
      <2>1. PICK a, b : a = s.active[k] /\ b = t.last - t.runs[k] + 1 OBVIOUS
      <2>2. a \in Int /\ b \in Int BY <1>0, <2>1
      <2>3. Event(i, k, "firing", b) \in E /\ Event(i, k, "resolved", a) \in E
            BY <2>2 DEF Event
      <2>4. \/ q[k] = <<>> \/ q[k] = <<Event(i, k, "firing", b)>>
            \/ q[k] = <<Event(i, k, "resolved", a)>>
            BY <2>1 DEF KeySays
      <2>. HIDE DEF E
      <2>5. PICK e, f \in E : e = Event(i, k, "firing", b) /\ f = Event(i, k, "resolved", a)
            BY <2>3
      <2>6. <<>> \in Seq(E) /\ <<e>> \in Seq(E) /\ <<f>> \in Seq(E) OBVIOUS
      <2>7. q[k] = <<>> \/ q[k] = <<e>> \/ q[k] = <<f>> BY <2>4, <2>5
      <2>. QED BY <2>6, <2>7
<1>2. q \in Seq(Seq(E))
      <2>. HIDE DEF E
      <2>1. q \in [1..NKeys -> Seq(E)] BY <1>1 DEF Keys
      <2>. QED BY <2>1, BoundsAssumption
<1>. HIDE DEF E
<1>3. PICK es \in Seq(E) : es = FlattenSeq(q) BY <1>2, FlattenRange
<1>4. \A e : e \in Range(es) <=> \E k \in Keys : e \in Range(q[k])
      BY <1>2, <1>3, FlattenRange
<1>5. ASSUME NEW n \in DOMAIN es PROVE Tells(i, s, t, es[n])
      <2>1. PICK e : e = es[n] OBVIOUS
      <2>2. e \in Range(es) BY <2>1 DEF Range
      <2>3. PICK k \in Keys : e \in Range(q[k]) BY <1>4, <2>2
      <2>4. CASE q[k] = <<>>
            <3>1. Range(<<>>) = {} BY DEF Range
            <3>. QED BY <2>3, <2>4, <3>1
      <2>5. CASE /\ s.active[k] = 0 /\ t.active[k] # 0
                 /\ t.rules[k].en /\ t.runs[k] >= t.rules[k].min
                 /\ q[k] = <<Event(i, k, "firing", t.last - t.runs[k] + 1)>>
            <3>0. PICK f : f = Event(i, k, "firing", t.last - t.runs[k] + 1) OBVIOUS
            <3>1. e = f
                  <4>1. q[k] = <<f>> BY <2>5, <3>0
                  <4>. QED BY <2>3, <4>1, OneEvent
            <3>2. /\ e.item = i /\ e.key = k /\ e.state = "firing"
                  /\ e.since = t.last - t.runs[k] + 1
                  BY <3>0, <3>1, EventFields
            <3>. QED BY <2>1, <2>5, <3>2 DEF Tells
      <2>6. CASE /\ s.active[k] # 0 /\ t.active[k] = 0
                 /\ q[k] = <<Event(i, k, "resolved", s.active[k])>>
            <3>0. PICK f : f = Event(i, k, "resolved", s.active[k]) OBVIOUS
            <3>1. e = f
                  <4>1. q[k] = <<f>> BY <2>6, <3>0
                  <4>. QED BY <2>3, <4>1, OneEvent
            <3>2. e.item = i /\ e.key = k /\ e.state = "resolved" BY <3>0, <3>1, EventFields
            <3>. QED BY <2>1, <2>6, <3>2 DEF Tells
      <2>7. KeySays(i, s, t, k, q[k]) OBVIOUS
      <2>. QED BY <2>4, <2>5, <2>6, <2>7 DEF KeySays
<1>6. ASSUME NEW k \in Keys, \A n \in DOMAIN es : es[n].key # k
      PROVE  s.active[k] = 0 <=> t.active[k] = 0
      <2>1. ASSUME NEW state, NEW since, q[k] = <<Event(i, k, state, since)>> PROVE FALSE
            <3>1. PICK e : e = Event(i, k, state, since) OBVIOUS
            <3>2. e \in Range(q[k]) BY <2>1, <3>1, OneEvent
            <3>3. e \in Range(es) BY <1>4, <3>2
            <3>4. PICK n \in DOMAIN es : es[n] = e BY <3>3 DEF Range
            <3>5. e.key = k BY <3>1, EventFields
            <3>. QED BY <1>6, <3>4, <3>5
      <2>2. KeySays(i, s, t, k, q[k]) OBVIOUS
      <2>. QED BY <2>1, <2>2 DEF KeySays
<1>. QED BY <1>3, <1>5, <1>6 DEF Says

LEMMA EndedSays ==
    ASSUME NEW i, NEW s, NEW t, NEW k, t.active[k] = 0
    PROVE  KeySays(i, s, t, k, Ended(i, k, s.active[k]))
BY DEF KeySays, Ended

LEMMA JudgeSays ==
    ASSUME Types, NEW i \in Items, Judge(i), smp[i].m # st[i].last
    PROVE  Queued(i, evs') /\ Says(i, st[i], st'[i], evs')
<1>1. PICK t \in Good :
          /\ st' = [st EXCEPT ![i] = t]
          /\ t.rules = st[i].rules /\ (t.runs # None => t.last = smp[i].m)
          /\ \A k \in Keys :
                 LET j == Judged(i, st[i], k, smp[i].m, smp[i].v[k])
                 IN  t.runs[k] = j.run /\ t.active[k] = j.active
      BY JudgeLemma
<1>2. PICK s \in Good : s = st[i] BY DEF Types
<1>3. st'[i] = t BY <1>1 DEF Types
<1>4. PICK m \in 1..MaxMinute : m = smp[i].m BY SmpTyped DEF Judge
<1>5. PICK q : q = [k \in Keys |-> Judged(i, s, k, m, smp[i].v[k]).evs] OBVIOUS
<1>6. Queued(i, FlattenSeq(q))
      <2>1. PICK o : o = [k \in Keys |-> Judged(i, s, k, m, smp[i].v[k])] OBVIOUS
      <2>2. Queued(i, EventsOf(o)) BY <1>2, <1>4, <2>1 DEF Judge
      <2>3. q = [k \in Keys |-> o[k].evs] BY <1>5, <2>1
      <2>. QED BY <2>2, <2>3 DEF EventsOf
<1>7. evs' = FlattenSeq(q) BY <1>6 DEF Queued
<1>8. ASSUME NEW k \in Keys PROVE KeySays(i, s, t, k, q[k])
      <2>1. PICK v \in Int : v = smp[i].v[k] BY SmpTyped
      <2>2. PICK j : j = Judged(i, s, k, m, v) OBVIOUS
      <2>3. q[k] = j.evs BY <1>5, <2>1, <2>2
      <2>4. t.runs[k] = j.run /\ t.active[k] = j.active /\ t.rules = s.rules
            BY <1>1, <1>2, <1>4, <2>1, <2>2
      <2>5. /\ s \in State /\ s.rules[k].en \in BOOLEAN /\ s.rules[k].min \in Nat
            /\ s.rules[k].min >= 1
            BY GoodFields, RuleFields
      <2>6. CASE ~s.rules[k].en \/ v < s.rules[k].th
            <3>1. j.active = 0 /\ j.evs = Ended(i, k, s.active[k])
                  BY <2>2, <2>6, JudgedLemma
            <3>. QED BY <2>3, <2>4, <3>1, EndedSays
      <2>7. CASE s.rules[k].en /\ ~ (v < s.rules[k].th)
            <3>1. \/ /\ j.run >= s.rules[k].min /\ s.active[k] = 0
                     /\ j.active # 0
                     /\ j.evs = <<Event(i, k, "firing", m - j.run + 1)>>
                  \/ j.active = s.active[k] /\ j.evs = <<>>
                  BY <2>2, <2>7, JudgedLemma
            <3>2. j.run >= 1 BY <2>2, <2>7, JudgedLemma
            <3>3. t.last = m
                  <4>1. t.runs[k] # 0 BY <2>4, <3>2
                  <4>2. t.runs # None BY <4>1 DEF None
                  <4>. QED BY <1>1, <1>4, <4>2
            <3>. QED BY <2>3, <2>4, <2>7, <3>1, <3>3 DEF KeySays
      <2>. QED BY <2>5, <2>6, <2>7
<1>9. Says(i, s, t, FlattenSeq(q)) BY <1>5, <1>8, FlattenSays
<1>. QED BY <1>2, <1>3, <1>6, <1>7, <1>9

LEMMA CountedSays ==
    ASSUME Types, NEW i \in Items, NEW s, NEW t, Recount(i, s), Counted(i, s, t)
    PROVE  Queued(i, evs') /\ Says(i, st[i], t, evs')
<1>1. /\ s \in State /\ s.active = st[i].active /\ t \in Good /\ t.rules = s.rules
      /\ (t.runs # None => t.last = Newest(i))
      BY DEF Recount, Counted
<1>2. PICK u \in Good : u = st[i] BY DEF Types
<1>3. PICK q : q = [k \in Keys |-> Recounted(i, s, k).evs] OBVIOUS
<1>4. Queued(i, FlattenSeq(q))
      <2>1. PICK o : o = [k \in Keys |-> Recounted(i, s, k)] OBVIOUS
      <2>2. Queued(i, EventsOf(o)) BY <2>1 DEF Counted
      <2>3. q = [k \in Keys |-> o[k].evs] BY <1>3, <2>1
      <2>. QED BY <2>2, <2>3 DEF EventsOf
<1>5. evs' = FlattenSeq(q) BY <1>4 DEF Queued
<1>6. ASSUME NEW k \in Keys PROVE KeySays(i, u, t, k, q[k])
      <2>1. PICK j : j = Recounted(i, s, k) OBVIOUS
      <2>2. q[k] = j.evs /\ t.runs[k] = j.run /\ t.active[k] = j.active
            BY <1>3, <2>1 DEF Counted
      <2>3. PICK n : n = Walk(i, k, s.rules[k]) OBVIOUS
      <2>4. /\ s.rules[k].en \in BOOLEAN /\ s.rules[k].th \in Nat
            /\ s.rules[k].min \in Nat /\ s.rules[k].min >= 1
            BY <1>1, RuleFields
      <2>5. n \in Nat /\ (n >= 1 => s.rules[k].en)
            BY <2>3, <2>4, WalkLemma DEF Types
      <2>6. /\ j.run = n
            /\ n < s.rules[k].min => j.active = 0 /\ j.evs = Ended(i, k, s.active[k])
            /\ ~ (n < s.rules[k].min) =>
                   \/ /\ s.active[k] = 0 /\ j.active # 0
                      /\ j.evs = <<Event(i, k, "firing", Newest(i) - n + 1)>>
                   \/ s.active[k] # 0 /\ j.active = s.active[k] /\ j.evs = <<>>
            BY <1>1, <2>1, <2>3, RecountedLemma DEF Types
      <2>7. u.active[k] = s.active[k] BY <1>1, <1>2
      <2>8. CASE n < s.rules[k].min
            <3>1. t.active[k] = 0 /\ q[k] = Ended(i, k, u.active[k])
                  BY <2>2, <2>6, <2>7, <2>8
            <3>. QED BY <3>1, EndedSays
      <2>9. CASE ~ (n < s.rules[k].min)
            <3>1. t.last = Newest(i)
                  <4>1. t.runs[k] # 0 BY <2>2, <2>4, <2>5, <2>6, <2>9
                  <4>2. t.runs # None BY <4>1 DEF None
                  <4>. QED BY <1>1, <4>2
            <3>2. n >= s.rules[k].min /\ s.rules[k].en BY <2>4, <2>5, <2>9
            <3>. QED BY <1>1, <2>2, <2>6, <2>7, <2>9, <3>1, <3>2 DEF KeySays
      <2>. QED BY <2>8, <2>9
<1>7. Says(i, u, t, FlattenSeq(q)) BY <1>1, <1>3, <1>6, FlattenSays
<1>. QED BY <1>2, <1>4, <1>5, <1>7

LEMMA ResolveSays ==
    ASSUME Types, NEW i \in Items, Resolve(i)
    PROVE  Queued(i, evs') /\ Says(i, st[i], st'[i], evs') /\ st'[i].active = None
<1>1. PICK t \in Good : st' = [st EXCEPT ![i] = t] /\ t.active = None BY ResolveLemma
<1>2. PICK u \in Good : u = st[i] BY DEF Types
<1>3. st'[i] = t BY <1>1 DEF Types
<1>4. PICK q : q = [k \in Keys |-> Ended(i, k, u.active[k])] OBVIOUS
<1>5. Queued(i, FlattenSeq(q)) BY <1>2, <1>4 DEF Resolve
<1>6. evs' = FlattenSeq(q) BY <1>5 DEF Queued
<1>7. ASSUME NEW k \in Keys PROVE KeySays(i, u, t, k, q[k])
      <2>1. t.active[k] = 0 BY <1>1 DEF None
      <2>2. q[k] = Ended(i, k, u.active[k]) BY <1>4
      <2>. QED BY <2>1, <2>2, EndedSays
<1>8. Says(i, u, t, FlattenSeq(q)) BY <1>4, <1>7, FlattenSays
<1>. QED BY <1>1, <1>2, <1>3, <1>5, <1>6, <1>8

\* What the events told so far is what Active says.
ToldInv == \A i \in Items, k \in Keys : told[i][k] <=> st[i].active[k] # 0

\* The events of the step tell something new.
Alternate == \A n \in DOMAIN evs' :
                 told[evs'[n].item][evs'[n].key] <=> evs'[n].state = "resolved"

LEMMA SaysTold ==
    ASSUME Types, ToldInv, NEW i \in Items, NEW t \in Good, st' = [st EXCEPT ![i] = t],
           Queued(i, evs'), Says(i, st[i], t, evs')
    PROVE  ToldInv' /\ Alternate
<1>1. PICK es : es = evs' OBVIOUS
<1>2. PICK s : s = st[i] OBVIOUS
<1>3. \A n \in DOMAIN es : Tells(i, s, t, es[n]) BY <1>1, <1>2 DEF Says
<1>4. /\ told \in [Items -> [Keys -> BOOLEAN]] /\ st \in [Items -> Good]
      BY DEF Types, HistTypes
<1>5. PICK f : f = [k \in Keys |->
           IF \E n \in DOMAIN es : es[n].key = k
             THEN \E n \in DOMAIN es : es[n].key = k /\ es[n].state = "firing"
             ELSE told[i][k]]
      OBVIOUS
<1>6. told' = [told EXCEPT ![i] = f] BY <1>1, <1>5 DEF Queued
<1>7. ASSUME NEW k \in Keys PROVE f[k] <=> t.active[k] # 0
      <2>1. CASE \E n \in DOMAIN es : es[n].key = k
            <3>1. f[k] <=> \E n \in DOMAIN es : es[n].key = k /\ es[n].state = "firing"
                  BY <1>5, <2>1
            <3>2. PICK n \in DOMAIN es : es[n].key = k BY <2>1
            <3>3. CASE t.active[k] # 0
                  <4>1. es[n].state = "firing" BY <1>3, <3>2, <3>3 DEF Tells
                  <4>. QED BY <3>1, <3>2, <3>3, <4>1
            <3>4. CASE t.active[k] = 0
                  <4>1. \A x \in DOMAIN es : es[x].key = k => es[x].state = "resolved"
                        BY <1>3, <3>4 DEF Tells
                  <4>. QED BY <3>1, <3>4, <4>1
            <3>. QED BY <3>3, <3>4
      <2>2. CASE ~ \E n \in DOMAIN es : es[n].key = k
            <3>1. f[k] = told[i][k] BY <1>5, <2>2
            <3>2. s.active[k] = 0 <=> t.active[k] = 0 BY <1>1, <1>2, <2>2 DEF Says
            <3>3. told[i][k] <=> s.active[k] # 0 BY <1>2 DEF ToldInv
            <3>. QED BY <3>1, <3>2, <3>3
      <2>. QED BY <2>1, <2>2
<1>8. ASSUME NEW j \in Items, NEW k \in Keys PROVE told'[j][k] <=> st'[j].active[k] # 0
      <2>1. CASE j = i
            <3>1. told'[j] = f /\ st'[j] = t BY <1>4, <1>6, <2>1
            <3>. QED BY <1>7, <3>1
      <2>2. CASE j # i
            <3>1. told'[j] = told[j] /\ st'[j] = st[j] BY <1>4, <1>6, <2>2
            <3>. QED BY <3>1 DEF ToldInv
      <2>. QED BY <2>1, <2>2
<1>9. ASSUME NEW n \in DOMAIN es PROVE told[es[n].item][es[n].key] <=> es[n].state = "resolved"
      <2>1. PICK e : e = es[n] OBVIOUS
      <2>2. Tells(i, s, t, e) BY <1>3, <2>1
      <2>3. e.item = i /\ e.key \in Keys BY <2>2 DEF Tells
      <2>4. told[i][e.key] <=> s.active[e.key] # 0 BY <1>2, <2>3 DEF ToldInv
      <2>5. e.state = "resolved" <=> s.active[e.key] # 0 BY <2>2 DEF Tells
      <2>. QED BY <2>1, <2>3, <2>4, <2>5
<1>. QED BY <1>1, <1>8, <1>9 DEF ToldInv, Alternate

LEMMA ToldTrue ==
    ASSUME Types, ToldInv, [Next]_vars
    PROVE  ToldInv' /\ (Alternate \/ UNCHANGED vars)
<1>0. st \in [Items -> Good] BY DEF Types
<1>1. CASE UNCHANGED vars BY <1>1 DEF vars, ToldInv
<1>2. CASE evs' = <<>> /\ UNCHANGED <<st, told>> BY <1>2 DEF ToldInv, Alternate
<1>3. CASE \/ Tick
           \/ \E i \in Items, m \in 1..MaxMinute, v \in [Keys -> Vals] : Commit(i, m, v)
           \/ \E i \in Items : ReadMinute(i)
           \/ \E i \in Items : RemoveItem(i)
           \/ \E c \in 1..MaxMinute : StepBack(c)
      <2>1. evs' = <<>> /\ UNCHANGED <<st, told>>
            BY <1>3 DEF Nothing, Tick, Commit, ReadMinute, RemoveItem, StepBack
      <2>. QED BY <1>2, <2>1
<1>4. ASSUME NEW i \in Items, Judge(i) PROVE ToldInv' /\ Alternate
      <2>1. CASE smp[i].m # st[i].last
            <3>1. PICK t \in Good : st' = [st EXCEPT ![i] = t] BY <1>4, <2>1, JudgeLemma
            <3>2. st'[i] = t BY <1>0, <3>1
            <3>. QED BY <1>4, <2>1, <3>1, <3>2, JudgeSays, SaysTold
      <2>2. CASE smp[i].m = st[i].last
            <3>1. Nothing BY <1>4, <2>2 DEF Judge
            <3>. QED BY <3>1 DEF Nothing, ToldInv, Alternate
      <2>. QED BY <2>1, <2>2
<1>5. ASSUME NEW i \in Items, NEW s, Recount(i, s) PROVE ToldInv' /\ Alternate
      <2>1. ASSUME NEW t, Counted(i, s, t) PROVE ToldInv' /\ Alternate
            <3>1. t \in Good /\ st' = [st EXCEPT ![i] = t] BY <2>1 DEF Counted
            <3>2. Queued(i, evs') /\ Says(i, st[i], t, evs') BY <1>5, <2>1, CountedSays
            <3>. QED BY <3>1, <3>2, SaysTold
      <2>2. ASSUME NEW t, Uncounted(i, s, t) PROVE ToldInv' /\ Alternate
            <3>1. /\ t \in Good /\ st' = [st EXCEPT ![i] = t] /\ t.active = st[i].active
                  /\ Queued(i, <<>>)
                  BY <2>2 DEF Uncounted
            <3>2. evs' = <<>> BY <3>1 DEF Queued
            <3>3. Says(i, st[i], t, <<>>) BY <3>1 DEF Says
            <3>. QED BY <3>1, <3>2, <3>3, SaysTold
      <2>. QED BY <1>5, <2>1, <2>2, RecountLemma
<1>6. ASSUME NEW i \in Items, Resolve(i) PROVE ToldInv' /\ Alternate
      <2>1. PICK t \in Good : st' = [st EXCEPT ![i] = t] BY <1>6, ResolveLemma
      <2>2. st'[i] = t BY <1>0, <2>1
      <2>. QED BY <1>6, <2>1, <2>2, ResolveSays, SaysTold
<1>7. CASE Prune
      <2>1. PICK gone : gone = {i \in Items : DOMAIN ring[i] = {}} OBVIOUS
      <2>2. /\ st' = [i \in Items |-> IF i \in gone THEN Idle ELSE st[i]]
            /\ told' = [i \in Items |-> IF i \in gone THEN [k \in Keys |-> FALSE] ELSE told[i]]
            /\ evs' = <<>>
            BY <1>7, <2>1 DEF Prune
      <2>3. ASSUME NEW i \in Items, NEW k \in Keys PROVE told'[i][k] <=> st'[i].active[k] # 0
            <3>1. CASE i \in gone
                  <4>1. st'[i] = Idle /\ told'[i] = [x \in Keys |-> FALSE] BY <2>2, <3>1
                  <4>2. Idle.active[k] = 0 BY IdleLemma DEF None
                  <4>. QED BY <4>1, <4>2
            <3>2. CASE i \notin gone
                  <4>1. st'[i] = st[i] /\ told'[i] = told[i] BY <2>2, <3>2
                  <4>. QED BY <4>1 DEF ToldInv
            <3>. QED BY <3>1, <3>2
      <2>. QED BY <2>2, <2>3 DEF ToldInv, Alternate
<1>8. CASE Restart
      <2>1. /\ told' = [i \in Items |-> [k \in Keys |-> st'[i].active[k] # 0]]
            /\ evs' = <<>>
            BY <1>8 DEF Restart
      <2>2. ASSUME NEW i \in Items, NEW k \in Keys PROVE told'[i][k] <=> st'[i].active[k] # 0
            <3>1. told'[i] = [x \in Keys |-> st'[i].active[x] # 0] BY <2>1
            <3>. QED BY <3>1
      <2>. QED BY <2>1, <2>2 DEF ToldInv, Alternate
<1>. QED BY <1>1, <1>3, <1>4, <1>5, <1>6, <1>7, <1>8, NextCases

\* An alert fires only when it was not firing, resolves only when it was, and
\* the events of a step leave of every alert what Active says, however judging,
\* recounts, Resolve, Prune and restarts follow each other.
THEOREM EventsTellActive == Spec => EventsAlternate
<1>1. Init => ToldInv
      <2>. SUFFICES ASSUME Init, NEW i \in Items, NEW k \in Keys
                    PROVE  told[i][k] <=> st[i].active[k] # 0
           BY DEF ToldInv
      <2>1. st[i] = Idle /\ told[i] = [x \in Keys |-> FALSE] BY DEF Init
      <2>2. Idle.active[k] = 0 BY IdleLemma DEF None
      <2>. QED BY <2>1, <2>2
<1>2. Types /\ ToldInv /\ [Next]_vars => ToldInv' BY ToldTrue
<1>3. Types /\ ToldInv /\ [Next]_vars =>
          [/\ \A n \in DOMAIN evs' :
                  told[evs'[n].item][evs'[n].key] <=> evs'[n].state = "resolved"
           /\ \A i \in Items, k \in Keys : told'[i][k] <=> st'[i].active[k] # 0]_vars
      BY ToldTrue DEF ToldInv, Alternate
<1>. QED BY <1>1, <1>2, <1>3, TypesAlways, PTL DEF Spec, EventsAlternate

\* A firing event of the step names minutes that were high for a whole window.
Fires == \A n \in DOMAIN evs' : evs'[n].state = "firing" =>
             LET e == evs'[n]
                 r == st'[e.item].rules[e.key]
             IN  \/ blind[e.item]
                 \/ r.en /\ HighFor(e.item, e.key, e.since..(e.since + r.min - 1), r)

LEMMA SaysFires ==
    ASSUME Types, TrueInv', NEW i \in Items, NEW t \in Good, st' = [st EXCEPT ![i] = t],
           Says(i, st[i], t, evs'), top' = top, blind'[i] => blind[i]
    PROVE  Fires
<1>1. st'[i] = t BY DEF Types
<1>. SUFFICES ASSUME NEW n \in DOMAIN evs', evs'[n].state = "firing", ~blind[i]
              PROVE  LET e == evs'[n]
                         r == st'[e.item].rules[e.key]
                     IN  \/ blind[e.item]
                         \/ r.en /\ HighFor(e.item, e.key, e.since..(e.since + r.min - 1), r)
     <2>1. \A n \in DOMAIN evs' : evs'[n].item = i BY DEF Says, Tells
     <2>. QED BY <2>1 DEF Fires
<1>2. PICK e : e = evs'[n] OBVIOUS
<1>3. e.state = "firing" /\ Tells(i, st[i], t, e) BY <1>2 DEF Says
<1>4. PICK k \in Keys : k = e.key BY <1>3 DEF Tells
<1>5. PICK r : r = t.rules[k] OBVIOUS
<1>6. e.item = i /\ r.en /\ t.runs[k] >= r.min /\ e.since = t.last - t.runs[k] + 1
      BY <1>3, <1>4, <1>5 DEF Tells
<1>7. TrueRun(top[i], t, k) BY <1>1 DEF TrueInv
<1>8. PICK a, b, c \in Int : a = t.last /\ b = t.runs[k] /\ c = r.min
      BY <1>5, GoodFields, RuleFields
<1>9. ASSUME NEW x \in e.since..(e.since + r.min - 1)
      PROVE  x \in 1..MaxMinute /\ top[i][x][k] >= r.th
      <2>1. e.since = a - b + 1 /\ b >= c BY <1>6, <1>8
      <2>2. x \in (a - b + 1)..((a - b + 1) + c - 1) BY <1>8, <2>1
      <2>3. x \in (a - b + 1)..a BY <1>8, <2>1, <2>2
      <2>4. x \in (t.last - t.runs[k] + 1)..t.last BY <1>8, <2>3
      <2>. QED BY <1>5, <1>7, <2>4 DEF TrueRun
<1>10. r.en /\ HighFor(i, k, e.since..(e.since + r.min - 1), r) BY <1>6, <1>9 DEF HighFor
<1>. QED BY <1>1, <1>2, <1>4, <1>5, <1>6, <1>10

LEMMA FiresStep ==
    ASSUME Types, Seen, TrueInv, [Next]_vars
    PROVE  Fires \/ UNCHANGED vars
<1>0. /\ TrueInv' /\ st \in [Items -> Good] /\ blind \in [Items -> BOOLEAN]
      BY TrueStep DEF Types, HistTypes
<1>1. ASSUME evs' = <<>> PROVE Fires BY <1>1 DEF Fires
<1>2. CASE \/ Tick \/ Prune \/ Restart
           \/ \E i \in Items, m \in 1..MaxMinute, v \in [Keys -> Vals] : Commit(i, m, v)
           \/ \E i \in Items : ReadMinute(i)
           \/ \E i \in Items : RemoveItem(i)
           \/ \E c \in 1..MaxMinute : StepBack(c)
      <2>1. evs' = <<>>
            BY <1>2 DEF Nothing, Tick, Prune, Restart, Commit, ReadMinute, RemoveItem, StepBack
      <2>. QED BY <1>1, <2>1
<1>3. ASSUME NEW i \in Items, Judge(i) PROVE Fires
      <2>1. CASE smp[i].m # st[i].last
            <3>1. PICK t \in Good : st' = [st EXCEPT ![i] = t] BY <1>3, <2>1, JudgeLemma
            <3>2. st'[i] = t BY <1>0, <3>1
            <3>3. Says(i, st[i], t, evs') BY <1>3, <2>1, <3>2, JudgeSays
            <3>4. top' = top BY <1>3 DEF Judge, store
            <3>5. blind'[i] => blind[i]
                  <4>1. Blinds([blind EXCEPT ![i] = @ /\ smp[i].m = st[i].last + 1])
                        BY <1>3, <2>1 DEF Judge
                  <4>2. blind' = [blind EXCEPT ![i] = @ /\ smp[i].m = st[i].last + 1]
                        BY <4>1 DEF Blinds
                  <4>. QED BY <1>0, <4>2
            <3>. QED BY <1>0, <3>1, <3>3, <3>4, <3>5, SaysFires
      <2>2. CASE smp[i].m = st[i].last
            <3>1. evs' = <<>> BY <1>3, <2>2 DEF Judge, Nothing
            <3>. QED BY <1>1, <3>1
      <2>. QED BY <2>1, <2>2
<1>4. ASSUME NEW i \in Items, NEW s, Recount(i, s) PROVE Fires
      <2>1. ASSUME NEW t, Counted(i, s, t) PROVE Fires
            <3>1. /\ t \in Good /\ st' = [st EXCEPT ![i] = t]
                  /\ blind' = [blind EXCEPT ![i] = FALSE]
                  BY <2>1 DEF Counted
            <3>2. Says(i, st[i], t, evs') BY <1>4, <2>1, CountedSays
            <3>3. top' = top BY <1>4 DEF Recount, store
            <3>4. ~blind'[i] BY <1>0, <3>1
            <3>. QED BY <1>0, <3>1, <3>2, <3>3, <3>4, SaysFires
      <2>2. ASSUME NEW t, Uncounted(i, s, t) PROVE Fires
            <3>1. evs' = <<>> BY <2>2 DEF Uncounted, Queued
            <3>. QED BY <1>1, <3>1
      <2>. QED BY <1>4, <2>1, <2>2, RecountLemma
<1>5. ASSUME NEW i \in Items, Resolve(i) PROVE Fires
      <2>1. \A n \in DOMAIN evs' : Tells(i, st[i], st'[i], evs'[n])
            BY <1>5, ResolveSays DEF Says
      <2>2. ASSUME NEW n \in DOMAIN evs' PROVE evs'[n].state # "firing"
            <3>1. Tells(i, st[i], st'[i], evs'[n]) BY <2>1
            <3>2. PICK k \in Keys : k = evs'[n].key BY <3>1 DEF Tells
            <3>3. st'[i].active[k] = 0 BY <1>5, ResolveSays DEF None
            <3>. QED BY <3>1, <3>2, <3>3 DEF Tells
      <2>. QED BY <2>2 DEF Fires
<1>. QED BY <1>2, <1>3, <1>4, <1>5, NextCases

\* A firing event names a start from which on the value was high for the whole
\* window of an enabled rule in force, unless the rules had changed unread.
THEOREM FiringIsTrue == Spec => FiresOnFullRun
<1>1. Types /\ Seen /\ TrueInv /\ [Next]_vars =>
          [\A n \in DOMAIN evs' : evs'[n].state = "firing" =>
              LET e == evs'[n]
                  r == st'[e.item].rules[e.key]
              IN  \/ blind[e.item]
                  \/ r.en /\ HighFor(e.item, e.key, e.since..(e.since + r.min - 1), r)]_vars
      BY FiresStep DEF Fires
<1>. QED BY <1>1, TrueAlways, PTL DEF Spec, FiresOnFullRun

-----------------------------------------------------------------------------
(* Alerts are current.                                                     *)

ValueOf(R, k, m) == IF m \in DOMAIN R THEN R[m][k] ELSE Absent

\* The n minutes of ring R up to the newest are high for key k of state s, and
\* none is before f.
HighRun(R, s, k, f, n) ==
    /\ n \in 1..s.rules[k].min /\ NewestOf(R) - n + 1 >= f
    /\ \A x \in (NewestOf(R) - n + 1)..NewestOf(R) : ValueOf(R, k, x) >= s.rules[k].th

\* Sampler p has yet to judge a minute that state s does not know.
Pending(p, s) == p.pc # "idle" /\ p.m # s.last

\* The run of key k in state s counts the n minutes, up to the one judged last.
Counts(R, p, s, k, n) ==
    IF Pending(p, s) THEN n = 1 \/ (s.runs[k] >= n - 1 /\ s.last = NewestOf(R) - 1)
                     ELSE s.runs[k] >= n /\ s.last = NewestOf(R)

\* The alert of key k in state s is active only for a high newest minute, and
\* is if the run is as long as the window.
Right(R, s, k) ==
    /\ s.rules[k].en /\ s.runs[k] >= s.rules[k].min => s.active[k] # 0
    /\ s.active[k] # 0 => s.rules[k].en /\ ValueOf(R, k, NewestOf(R)) >= s.rules[k].th

\* State s is current with ring R and sampler p, if nothing disturbed the count
\* of the newest minute.
CurrentAt(R, s, p, f) ==
    NewestOf(R) >= f =>
        /\ p.pc # "idle" => p.m = NewestOf(R)
        /\ \A k \in Keys : s.rules[k].en =>
               \A n \in Nat : HighRun(R, s, k, f, n) => Counts(R, p, s, k, n)
        /\ ~Pending(p, s) => \A k \in Keys : Right(R, s, k)

\* A sampler about to judge knows what the ring holds, unless it is gone.
ReadAt(R, p) == p.pc = "judge" => \A k \in Keys : p.m \in DOMAIN R => p.v[k] = R[p.m][k]

Current == \A i \in Items : /\ CurrentAt(ring[i], st[i], smp[i], from[i])
                            /\ ReadAt(ring[i], smp[i])

LEMMA NewestEq ==
    ASSUME NEW i
    PROVE  Newest(i) = NewestOf(ring[i]) /\ \A k, m : Value(i, k, m) = ValueOf(ring[i], k, m)
BY DEF Newest, NewestOf, Value, ValueOf

LEMMA ValueOfLemma ==
    ASSUME NEW R \in RingType, NEW k \in Keys, NEW m
    PROVE  /\ ValueOf(R, k, m) \in Int
           /\ \A th \in Nat : ValueOf(R, k, m) >= th => m \in DOMAIN R
<1>1. PICK D \in SUBSET (1..MaxMinute) : R \in [D -> [Keys -> Vals]] BY DEF RingType
<1>2. Vals \subseteq Int BY RulesAssumption DEF Vals, Absent
<1>3. CASE m \in DOMAIN R
      <2>1. R[m] \in [Keys -> Vals] BY <1>1, <1>3
      <2>2. R[m][k] \in Int BY <1>2, <2>1
      <2>. QED BY <1>3, <2>2 DEF ValueOf
<1>4. CASE m \notin DOMAIN R
      <2>1. ValueOf(R, k, m) = -1 BY <1>4 DEF ValueOf, Absent
      <2>2. \A th \in Nat : ~ (-1 >= th) OBVIOUS
      <2>. QED BY <2>1, <2>2
<1>. QED BY <1>3, <1>4

LEMMA Disturbed ==
    ASSUME NEW R, NEW s, NEW p, NEW f \in Nat, NewestOf(R) \in Nat, f > NewestOf(R)
    PROVE  CurrentAt(R, s, p, f)
BY DEF CurrentAt

\* A minute newer than all extends the run of minutes that ends before it.
LEMMA CommitCurrent ==
    ASSUME NEW R \in RingType, NEW s \in Good, NEW p, NEW f \in Nat \ {0},
           CurrentAt(R, s, p, f), p.pc = "idle",
           NEW m \in 1..MaxMinute, NEW v \in [Keys -> Vals], m > NewestOf(R), m # s.last,
           NEW Q, Q = [x \in DOMAIN R \cup {m} |-> IF x = m THEN v ELSE R[x]],
           Q \in RingType, NewestOf(Q) = m, NEW q, q.pc = "read", q.m = m
    PROVE  CurrentAt(Q, s, q, f)
<1>1. m \in Nat BY BoundsAssumption
<1>2. NewestOf(R) \in Nat /\ \A x \in DOMAIN R : x <= NewestOf(R) BY NewestOfLemma
<1>3. Pending(q, s) BY DEF Pending
<1>4. ASSUME NEW k \in Keys, s.rules[k].en, NEW n \in Nat, HighRun(Q, s, k, f, n), n # 1
      PROVE  s.runs[k] >= n - 1 /\ s.last = m - 1
      <2>1. s.rules[k].th \in Nat /\ s.rules[k].min \in Nat BY GoodFields, RuleFields
      <2>2. /\ n \in 1..s.rules[k].min /\ m - n + 1 >= f
            /\ \A x \in (m - n + 1)..m : ValueOf(Q, k, x) >= s.rules[k].th
            BY <1>4 DEF HighRun
      <2>3. m - 1 \in (m - n + 1)..m BY <1>1, <1>4, <2>2
      <2>4. m - 1 \in DOMAIN Q BY <2>1, <2>2, <2>3, ValueOfLemma
      <2>5. m - 1 \in DOMAIN R BY <1>1, <2>4
      <2>6. NewestOf(R) = m - 1
            <3>1. m - 1 <= NewestOf(R) BY <1>2, <2>5
            <3>. QED BY <1>1, <1>2, <3>1
      <2>7. HighRun(R, s, k, f, n - 1)
            <3>1. n - 1 \in 1..s.rules[k].min BY <1>4, <2>1, <2>2
            <3>2. (m - 1) - (n - 1) + 1 = m - n + 1 BY <1>1
            <3>3. ASSUME NEW x \in (m - n + 1)..(m - 1) PROVE ValueOf(R, k, x) >= s.rules[k].th
                  <4>1. x \in (m - n + 1)..m /\ x # m BY <1>1
                  <4>2. ValueOf(Q, k, x) >= s.rules[k].th BY <2>2, <4>1
                  <4>3. ValueOf(Q, k, x) = ValueOf(R, k, x) BY <4>1 DEF ValueOf
                  <4>. QED BY <4>2, <4>3
            <3>. QED BY <2>2, <2>6, <3>1, <3>2, <3>3 DEF HighRun
      <2>8. NewestOf(R) >= f BY <1>1, <1>4, <2>2, <2>6
      <2>9. ~Pending(p, s) BY DEF Pending
      <2>10. n - 1 \in Nat BY <1>4, <2>2
      <2>11. Counts(R, p, s, k, n - 1) BY <1>4, <2>7, <2>8, <2>10 DEF CurrentAt
      <2>. QED BY <2>6, <2>9, <2>11 DEF Counts
<1>5. ASSUME NEW k \in Keys, s.rules[k].en, NEW n \in Nat, HighRun(Q, s, k, f, n)
      PROVE  Counts(Q, q, s, k, n)
      BY <1>3, <1>4, <1>5 DEF Counts
<1>. QED BY <1>3, <1>5 DEF CurrentAt

\* Judging the newest minute brings a run up to it.
LEMMA JudgeCurrent ==
    ASSUME NEW R \in RingType, NEW s \in Good, NEW t \in Good, NEW p, NEW q, NEW f \in Nat \ {0},
           CurrentAt(R, s, p, f), ReadAt(R, p), p.pc = "judge", p.m # s.last, q.pc = "idle",
           t.rules = s.rules, t.runs # None => t.last = p.m, NEW i,
           \A k \in Keys : LET j == Judged(i, s, k, p.m, p.v[k])
                           IN  t.runs[k] = j.run /\ t.active[k] = j.active
    PROVE  CurrentAt(R, t, q, f)
<1>. SUFFICES ASSUME NewestOf(R) >= f PROVE CurrentAt(R, t, q, f) BY DEF CurrentAt
<1>1. /\ NewestOf(R) \in Nat /\ NewestOf(R) \in 1..MaxMinute /\ NewestOf(R) \in DOMAIN R
      <2>1. NewestOf(R) \in 0..MaxMinute /\ NewestOf(R) \in Nat BY NewestOfLemma
      <2>2. NewestOf(R) # 0 BY <2>1
      <2>. QED BY <2>1, <2>2, NewestOfLemma, BoundsAssumption
<1>2. PICK m \in 1..MaxMinute : m = NewestOf(R) BY <1>1
<1>3. p.m = m /\ m \in Nat BY <1>1, <1>2 DEF CurrentAt
<1>4. Pending(p, s) /\ ~Pending(q, t) BY DEF Pending
<1>5. ASSUME NEW k \in Keys
      PROVE  /\ Right(R, t, k)
             /\ s.rules[k].en => \A n \in Nat : HighRun(R, t, k, f, n) => Counts(R, q, t, k, n)
      <2>1. PICK v \in Int : v = ValueOf(R, k, m) BY ValueOfLemma
      <2>2. p.v[k] = v BY <1>1, <1>2, <1>3, <2>1 DEF ReadAt, ValueOf
      <2>3. PICK j : j = Judged(i, s, k, m, v) OBVIOUS
      <2>4. t.runs[k] = j.run /\ t.active[k] = j.active BY <1>3, <2>2, <2>3
      <2>5. /\ s.rules[k].en \in BOOLEAN /\ s.rules[k].th \in Nat
            /\ s.rules[k].min \in 1..MaxRun /\ s.rules[k].min \in Nat /\ s.rules[k].min >= 1
            /\ s.runs[k] \in Nat /\ s.last \in Nat
            BY GoodFields, RuleFields
      <2>6. CASE ~s.rules[k].en \/ v < s.rules[k].th
            <3>1. j.run = 0 /\ j.active = 0 BY <2>3, <2>6, JudgedLemma
            <3>2. Right(R, t, k) BY <2>4, <2>5, <3>1 DEF Right
            <3>3. ASSUME s.rules[k].en, NEW n \in Nat, HighRun(R, t, k, f, n) PROVE FALSE
                  <4>1. /\ n \in 1..s.rules[k].min
                        /\ \A x \in (m - n + 1)..m : ValueOf(R, k, x) >= s.rules[k].th
                        BY <1>2, <3>3 DEF HighRun
                  <4>2. m \in (m - n + 1)..m BY <1>3, <4>1
                  <4>3. v >= s.rules[k].th BY <2>1, <4>1, <4>2
                  <4>. QED BY <2>5, <2>6, <3>3, <4>3
            <3>. QED BY <3>2, <3>3
      <2>7. CASE s.rules[k].en /\ ~ (v < s.rules[k].th)
            <3>1. /\ j.run >= 1
                  /\ \A n \in 1..MaxRun :
                         n = 1 \/ (m = s.last + 1 /\ s.runs[k] >= n - 1) => j.run >= n
                  /\ j.run >= s.rules[k].min => j.active # 0
                  BY <2>3, <2>7, JudgedLemma
            <3>2. v >= s.rules[k].th BY <2>5, <2>7
            <3>3. Right(R, t, k) BY <1>2, <2>1, <2>4, <2>7, <3>1, <3>2 DEF Right
            <3>4. t.last = m
                  <4>1. t.runs[k] # 0 BY <2>4, <3>1
                  <4>2. t.runs # None BY <4>1 DEF None
                  <4>. QED BY <1>3, <4>2
            <3>5. ASSUME NEW n \in Nat, HighRun(R, t, k, f, n) PROVE t.runs[k] >= n
                  <4>1. n \in 1..s.rules[k].min /\ HighRun(R, s, k, f, n) BY <3>5 DEF HighRun
                  <4>2. Counts(R, p, s, k, n) BY <2>7, <4>1 DEF CurrentAt
                  <4>3. n = 1 \/ (s.runs[k] >= n - 1 /\ s.last = m - 1)
                        BY <1>2, <1>4, <4>2 DEF Counts
                  <4>4. n \in 1..MaxRun BY <2>5, <4>1, RulesAssumption
                  <4>5. n = 1 \/ (s.runs[k] >= n - 1 /\ m = s.last + 1) BY <1>3, <2>5, <4>3
                  <4>6. j.run >= n BY <3>1, <4>4, <4>5
                  <4>. QED BY <2>4, <4>6
            <3>. QED BY <1>2, <1>4, <3>3, <3>4, <3>5 DEF Counts
      <2>. QED BY <2>5, <2>6, <2>7
<1>. QED BY <1>4, <1>5 DEF CurrentAt, Pending

\* A recount of a fresh ring whose newest minute is the sampler's, too.
LEMMA RecountCurrent ==
    ASSUME Types, NEW i \in Items, NEW s, NEW t, Recount(i, s), Counted(i, s, t),
           Fresh(i), InStep(i)
    PROVE  CurrentAt(ring[i], t, smp[i], 1)
<1>1. PICK R \in RingType : R = ring[i] BY DEF Types, StoreTypes
<1>2. PICK m \in Nat : m = Newest(i) /\ m = NewestOf(R) /\ m > 0
      <2>1. Newest(i) \in Nat /\ Newest(i) > 0 BY NewestLemma DEF Types, Fresh
      <2>. QED BY <1>1, <2>1, NewestEq
<1>3. t \in Good /\ s \in State /\ t.rules = s.rules /\ (t.runs # None => t.last = m)
      BY <1>2 DEF Counted, Recount
<1>4. PICK p : p = smp[i] OBVIOUS
<1>5. p.pc # "idle" => p.m = m BY <1>2, <1>4, SmpTyped DEF InStep
<1>6. ASSUME NEW k \in Keys
      PROVE  /\ Right(R, t, k)
             /\ t.rules[k].en => \A n \in Nat : HighRun(R, t, k, 1, n) => Counts(R, p, t, k, n)
      <2>1. PICK r : r = s.rules[k] OBVIOUS
      <2>2. /\ r.en \in BOOLEAN /\ r.th \in Nat /\ r.min \in Nat /\ r.min >= 1
            /\ t.runs[k] \in Nat /\ t.rules[k] = r
            BY <1>3, <2>1, RuleFields, GoodFields
      <2>3. PICK w : w = Walk(i, k, r) OBVIOUS
      <2>4. /\ w \in Nat /\ (w >= 1 => r.en)
            /\ \A x \in 0..(w - 1) : Value(i, k, m - x) >= r.th
            /\ r.en => \A n \in 0..r.min :
                          (\A x \in 0..(n - 1) : Value(i, k, m - x) >= r.th) => n <= w
            <3>1. /\ Walk(i, k, r) \in 0..r.min
                  /\ Walk(i, k, r) >= 1 => r.en
                  /\ \A x \in 0..(Walk(i, k, r) - 1) : Value(i, k, Newest(i) - x) >= r.th
                  /\ r.en /\ Fresh(i) =>
                         \A n \in 0..r.min :
                             (\A x \in 0..(n - 1) : Value(i, k, Newest(i) - x) >= r.th)
                                 => n <= Walk(i, k, r)
                  BY <2>2, WalkLemma DEF Types
            <3>2. w \in Nat BY <2>2, <2>3, <3>1
            <3>. QED BY <1>2, <2>3, <3>1, <3>2, Zenon
      <2>5. PICK j : j = Recounted(i, s, k) OBVIOUS
      <2>6. /\ j.run = w
            /\ w < r.min => j.active = 0
            /\ ~ (w < r.min) => j.active # 0
            BY <1>3, <2>1, <2>3, <2>5, RecountedLemma DEF Types
      <2>7. t.runs[k] = w /\ t.active[k] = j.active BY <2>5, <2>6 DEF Counted
      <2>8. Right(R, t, k)
            <3>1. t.active[k] # 0 => w >= r.min /\ w >= 1 BY <2>2, <2>4, <2>6, <2>7
            <3>2. w >= 1 => Value(i, k, m) >= r.th
                  <4>1. w >= 1 => 0 \in 0..(w - 1) BY <2>4
                  <4>2. m - 0 = m OBVIOUS
                  <4>. QED BY <2>4, <4>1, <4>2
            <3>3. Value(i, k, m) = ValueOf(R, k, NewestOf(R)) BY <1>1, <1>2, NewestEq
            <3>4. t.runs[k] >= r.min => t.active[k] # 0 BY <2>2, <2>4, <2>6, <2>7
            <3>. QED BY <2>2, <2>4, <3>1, <3>2, <3>3, <3>4 DEF Right
      <2>9. ASSUME r.en, NEW n \in Nat, HighRun(R, t, k, 1, n) PROVE Counts(R, p, t, k, n)
            <3>1. /\ n \in 1..r.min
                  /\ \A x \in (m - n + 1)..m : Value(i, k, x) >= r.th
                  BY <1>1, <1>2, <2>2, <2>9, NewestEq DEF HighRun
            <3>2. \A x \in 0..(n - 1) : m - x \in (m - n + 1)..m BY <3>1
            <3>3. n \in 0..r.min /\ \A x \in 0..(n - 1) : Value(i, k, m - x) >= r.th
                  BY <3>1, <3>2
            <3>4. n <= w BY <2>4, <2>9, <3>3
            <3>5. t.runs[k] >= n /\ t.runs[k] # 0 BY <2>4, <2>7, <3>1, <3>4
            <3>6. t.last = m
                  <4>1. t.runs # None BY <3>5 DEF None
                  <4>. QED BY <1>3, <4>1
            <3>7. ~Pending(p, t) BY <1>5, <3>6 DEF Pending
            <3>. QED BY <1>2, <3>5, <3>6, <3>7 DEF Counts
      <2>. QED BY <2>2, <2>8, <2>9
<1>7. CurrentAt(R, t, p, 1) BY <1>2, <1>5, <1>6 DEF CurrentAt
<1>. QED BY <1>1, <1>4, <1>7

\* A state that nothing but its place in memory distinguishes is the same.
LEMMA SameState ==
    ASSUME NEW s \in Good, NEW t \in Good, t.rules = s.rules, t.runs = s.runs,
           t.active = s.active, t.last = s.last
    PROVE  t = s
<1>1. s \in State /\ t \in State BY GoodFields
<1>2. /\ s = [rules |-> s.rules, active |-> s.active, runs |-> s.runs, last |-> s.last]
      /\ t = [rules |-> t.rules, active |-> t.active, runs |-> t.runs, last |-> t.last]
      BY <1>1 DEF State
<1>. QED BY <1>2

LEMMA CurrentFrame ==
    ASSUME Current, NEW j \in Items, ring'[j] = ring[j], st'[j] = st[j], smp'[j] = smp[j],
           from'[j] = from[j]
    PROVE  CurrentAt(ring'[j], st'[j], smp'[j], from'[j]) /\ ReadAt(ring'[j], smp'[j])
BY DEF Current

\* Of item i, the ring and the sampler stay, the state and from change.
LEMMA CurrentChange ==
    ASSUME Types, Current, NEW i \in Items, NEW t, NEW f, st' = [st EXCEPT ![i] = t],
           UNCHANGED <<ring, smp>>, from' = [from EXCEPT ![i] = f],
           CurrentAt(ring[i], t, smp[i], f)
    PROVE  Current'
<1>1. st \in [Items -> Good] /\ from \in [Items -> Nat \ {0}] BY DEF Types, HistTypes
<1>2. ASSUME NEW j \in Items
      PROVE  CurrentAt(ring'[j], st'[j], smp'[j], from'[j]) /\ ReadAt(ring'[j], smp'[j])
      <2>1. CASE j = i
            <3>1. st'[j] = t /\ from'[j] = f BY <1>1, <2>1
            <3>. QED BY <2>1, <3>1 DEF Current
      <2>2. CASE j # i
            <3>1. st'[j] = st[j] /\ from'[j] = from[j] BY <1>1, <2>2
            <3>. QED BY <3>1, CurrentFrame
      <2>. QED BY <2>1, <2>2
<1>. QED BY <1>2 DEF Current

LEMMA CurrentCommit ==
    ASSUME Types, Current, NEW i \in Items, NEW m \in 1..MaxMinute,
           NEW v \in [Keys -> Vals], Commit(i, m, v), [Next]_vars
    PROVE  Current'
<1>0. /\ ring \in [Items -> RingType] /\ st \in [Items -> Good]
      /\ from \in [Items -> Nat \ {0}] /\ smp[i].pc = "idle"
      /\ ring' \in [Items -> RingType] /\ st' = st
      /\ DOMAIN smp = Items
      BY StoreStep DEF Types, StoreTypes, SmpTypes, HistTypes, Commit, Nothing
<1>1. PICK R \in RingType : R = ring[i] BY <1>0
<1>2. PICK Q : Q = [x \in DOMAIN R \cup {m} |-> IF x = m THEN v ELSE R[x]] OBVIOUS
<1>3. ring' = [ring EXCEPT ![i] = Q] BY <1>1, <1>2 DEF Commit
<1>4. ring'[i] = Q /\ Q \in RingType BY <1>0, <1>3
<1>5. PICK q : q = [Resting EXCEPT !.pc = "read", !.m = m] OBVIOUS
<1>6. smp' = [smp EXCEPT ![i] = q] BY <1>5 DEF Commit
<1>7. q.pc = "read" /\ q.m = m
      <2>1. DOMAIN Resting = {"pc", "m", "v"} BY DEF Resting
      <2>. QED BY <1>5, <2>1
<1>8. PICK a \in Nat : a = NewestOf(R) /\ a = Newest(i) BY <1>1, NewestOfLemma, NewestEq
<1>9. PICK g \in Nat \ {0} : g = from[i] BY <1>0
<1>10. PICK f : f = IF m <= a \/ m = st[i].last THEN Max({a, m}) + 1 ELSE g OBVIOUS
<1>11. from' = [from EXCEPT ![i] = f] BY <1>8, <1>9, <1>10 DEF Commit
<1>12. m \in Nat /\ \A x \in DOMAIN R : x <= a
       <2>1. \A x \in DOMAIN R : x <= NewestOf(R) BY NewestOfLemma
       <2>2. m \in Nat BY BoundsAssumption
       <2>. QED BY <1>8, <2>1, <2>2
<1>13. PICK b \in Nat : b = NewestOf(Q) /\ b \in DOMAIN Q /\ b >= m
       <2>1. m \in DOMAIN Q BY <1>2
       <2>2. NewestOf(Q) \in Nat /\ m <= NewestOf(Q)
             /\ (NewestOf(Q) # 0 => NewestOf(Q) \in DOMAIN Q)
             BY <1>4, <2>1, NewestOfLemma
       <2>3. NewestOf(Q) # 0 BY <1>12, <2>2
       <2>. QED BY <1>12, <2>2, <2>3
<1>14. b = m \/ b <= a BY <1>2, <1>12, <1>13
<1>15. CurrentAt(Q, st[i], q, f)
       <2>1. CASE m <= a \/ m = st[i].last
             <3>1. a <= Max({a, m}) /\ m <= Max({a, m}) /\ Max({a, m}) \in Nat
                   BY <1>12, MaxOfTwo
             <3>2. f = Max({a, m}) + 1 BY <1>10, <2>1
             <3>3. PICK z \in Nat : z = Max({a, m}) BY <3>1
             <3>4. f \in Nat /\ f > b BY <1>12, <1>13, <1>14, <3>1, <3>2, <3>3
             <3>. QED BY <1>13, <3>4, Disturbed
       <2>2. CASE ~ (m <= a) /\ m # st[i].last
             <3>1. b = m /\ m > a BY <1>12, <1>13, <1>14, <2>2
             <3>2. f = g BY <1>10, <2>2
             <3>3. CurrentAt(R, st[i], smp[i], g) BY <1>1, <1>9 DEF Current
             <3>4. PICK s \in Good : s = st[i] BY <1>0
             <3>5. PICK p : p = smp[i] OBVIOUS
             <3>6. CurrentAt(R, s, p, g) /\ p.pc = "idle" BY <1>0, <3>3, <3>4, <3>5
             <3>7. m > NewestOf(R) /\ m # s.last /\ NewestOf(Q) = m
                   BY <1>8, <1>13, <2>2, <3>1, <3>4
             <3>8. CurrentAt(Q, s, q, g) BY <1>2, <1>4, <1>7, <3>6, <3>7, CommitCurrent
             <3>. QED BY <3>2, <3>4, <3>8
       <2>. QED BY <2>1, <2>2
<1>16. ASSUME NEW j \in Items
       PROVE  CurrentAt(ring'[j], st'[j], smp'[j], from'[j]) /\ ReadAt(ring'[j], smp'[j])
       <2>1. CASE j = i
             <3>1. /\ ring'[j] = Q /\ st'[j] = st[i] /\ smp'[j] = q /\ from'[j] = f
                   BY <1>0, <1>4, <1>6, <1>11, <2>1
             <3>2. ReadAt(Q, q) BY <1>7 DEF ReadAt
             <3>. QED BY <1>15, <3>1, <3>2
       <2>2. CASE j # i
             <3>1. /\ ring'[j] = ring[j] /\ st'[j] = st[j] /\ smp'[j] = smp[j]
                   /\ from'[j] = from[j]
                   BY <1>0, <1>3, <1>6, <1>11, <2>2
             <3>. QED BY <3>1, CurrentFrame
       <2>. QED BY <2>1, <2>2
<1>. QED BY <1>16 DEF Current

LEMMA CurrentRead ==
    ASSUME Types, Current, NEW i \in Items, ReadMinute(i)
    PROVE  Current'
<1>0. /\ from \in [Items -> Nat \ {0}] /\ smp[i].pc = "read" /\ DOMAIN smp = Items
      /\ ring' = ring /\ st' = st
      BY DEF Types, SmpTypes, HistTypes, ReadMinute, Nothing, store
<1>1. PICK R \in RingType : R = ring[i] BY DEF Types, StoreTypes
<1>2. PICK p : p = smp[i] OBVIOUS
<1>3. PICK m \in Nat : m = p.m BY <1>2, SmpTyped
<1>4. PICK g \in Nat \ {0} : g = from[i] BY <1>0
<1>5. CurrentAt(R, st[i], p, g) BY <1>1, <1>2, <1>4 DEF Current
<1>6. NewestOf(R) \in Nat BY NewestOfLemma
<1>7. ASSUME NEW q, NEW f, smp' = [smp EXCEPT ![i] = q], from' = [from EXCEPT ![i] = f],
             CurrentAt(R, st[i], q, f), ReadAt(R, q)
      PROVE  Current'
      <2>1. ASSUME NEW j \in Items
            PROVE  CurrentAt(ring'[j], st'[j], smp'[j], from'[j]) /\ ReadAt(ring'[j], smp'[j])
            <3>1. CASE j = i
                  <4>1. smp'[j] = q /\ from'[j] = f /\ ring'[j] = R /\ st'[j] = st[i]
                        BY <1>0, <1>1, <1>7, <3>1
                  <4>. QED BY <1>7, <4>1
            <3>2. CASE j # i
                  <4>1. /\ ring'[j] = ring[j] /\ st'[j] = st[j] /\ smp'[j] = smp[j]
                        /\ from'[j] = from[j]
                        BY <1>0, <1>7, <3>2
                  <4>. QED BY <4>1, CurrentFrame
            <3>. QED BY <3>1, <3>2
      <2>. QED BY <2>1 DEF Current
<1>8. CASE /\ smp' = [smp EXCEPT ![i].pc = "judge", ![i].v = [k \in Keys |-> Value(i, k, smp[i].m)]]
           /\ from' = from
      <2>1. PICK v : v = [k \in Keys |-> Value(i, k, m)] OBVIOUS
      <2>2. PICK q : q = [p EXCEPT !.pc = "judge", !.v = v] OBVIOUS
      <2>3. q.pc = "judge" /\ q.m = m /\ q.v = v
            <3>1. p \in [pc : {"idle", "read", "judge"}, m : 0..MaxMinute, v : [Keys -> Vals]]
                  BY <1>2 DEF Types, SmpTypes
            <3>. QED BY <1>3, <2>2, <3>1
      <2>4. smp' = [smp EXCEPT ![i] = q] BY <1>0, <1>2, <1>3, <1>8, <2>1, <2>2
      <2>5. from' = [from EXCEPT ![i] = g] BY <1>0, <1>4, <1>8
      <2>6. ReadAt(R, q)
            <3>1. ASSUME NEW k \in Keys, m \in DOMAIN R PROVE v[k] = R[m][k]
                  BY <1>1, <2>1, <3>1 DEF Value
            <3>. QED BY <2>3, <3>1 DEF ReadAt
      <2>7. Pending(q, st[i]) <=> Pending(p, st[i]) BY <1>0, <1>2, <1>3, <2>3 DEF Pending
      <2>8. CurrentAt(R, st[i], q, g)
            <3>1. p.pc # "idle" /\ q.pc # "idle" /\ q.m = p.m BY <1>0, <1>2, <1>3, <2>3
            <3>. QED BY <1>5, <2>7, <3>1 DEF CurrentAt, Counts
      <2>. QED BY <1>7, <2>4, <2>5, <2>6, <2>8
<1>9. CASE /\ smp' = [smp EXCEPT ![i] = Resting]
           /\ from' = [from EXCEPT ![i] = Max({@, smp[i].m + 1})]
      <2>1. PICK f : f = Max({g, m + 1}) OBVIOUS
      <2>2. f \in Nat /\ g <= f /\ m + 1 <= f
            <3>1. m + 1 \in Nat OBVIOUS
            <3>. QED BY <2>1, <3>1, MaxOfTwo
      <2>3. from' = [from EXCEPT ![i] = f] BY <1>2, <1>3, <1>4, <1>9, <2>1
      <2>4. CurrentAt(R, st[i], Resting, f)
            <3>1. CASE NewestOf(R) >= f
                  <4>1. NewestOf(R) >= g BY <1>6, <2>2, <3>1
                  <4>2. p.pc # "idle" BY <1>0, <1>2
                  <4>3. m = NewestOf(R) BY <1>3, <1>5, <4>1, <4>2 DEF CurrentAt
                  <4>. QED BY <2>2, <3>1, <4>3
            <3>2. CASE ~ (NewestOf(R) >= f) BY <3>2 DEF CurrentAt
            <3>. QED BY <3>1, <3>2
      <2>5. ReadAt(R, Resting) BY RestingLemma DEF ReadAt
      <2>. QED BY <1>7, <1>9, <2>3, <2>4, <2>5
<1>. QED BY <1>8, <1>9 DEF ReadMinute

LEMMA CurrentJudge ==
    ASSUME Types, Current, NEW i \in Items, Judge(i)
    PROVE  Current'
<1>0. /\ ring' = ring /\ from' = from /\ smp' = [smp EXCEPT ![i] = Resting]
      /\ st \in [Items -> Good] /\ smp[i].pc = "judge" /\ DOMAIN smp = Items
      BY DEF Judge, store, Types, SmpTypes
<1>1. PICK R \in RingType : R = ring[i] BY DEF Types, StoreTypes
<1>2. PICK p : p = smp[i] OBVIOUS
<1>3. PICK s \in Good : s = st[i] BY <1>0
<1>4. PICK g \in Nat \ {0} : g = from[i] BY DEF Types, HistTypes
<1>5. CurrentAt(R, s, p, g) /\ ReadAt(R, p) /\ p.pc = "judge"
      BY <1>0, <1>1, <1>2, <1>3, <1>4 DEF Current
<1>6. ASSUME NEW t, st' = [st EXCEPT ![i] = t], CurrentAt(R, t, Resting, g)
      PROVE  Current'
      <2>1. ASSUME NEW j \in Items
            PROVE  CurrentAt(ring'[j], st'[j], smp'[j], from'[j]) /\ ReadAt(ring'[j], smp'[j])
            <3>1. CASE j = i
                  <4>1. smp'[j] = Resting /\ from'[j] = g /\ ring'[j] = R /\ st'[j] = t
                        BY <1>0, <1>1, <1>4, <1>6, <3>1
                  <4>2. ReadAt(R, Resting) BY RestingLemma DEF ReadAt
                  <4>. QED BY <1>6, <4>1, <4>2
            <3>2. CASE j # i
                  <4>1. /\ ring'[j] = ring[j] /\ st'[j] = st[j] /\ smp'[j] = smp[j]
                        /\ from'[j] = from[j]
                        BY <1>0, <1>6, <3>2
                  <4>. QED BY <4>1, CurrentFrame
            <3>. QED BY <3>1, <3>2
      <2>. QED BY <2>1 DEF Current
<1>7. CASE p.m # s.last
      <2>1. PICK t \in Good :
                /\ st' = [st EXCEPT ![i] = t]
                /\ t.rules = st[i].rules /\ (t.runs # None => t.last = smp[i].m)
                /\ \A k \in Keys :
                       LET j == Judged(i, st[i], k, smp[i].m, smp[i].v[k])
                       IN  t.runs[k] = j.run /\ t.active[k] = j.active
            BY <1>2, <1>3, <1>7, JudgeLemma
      <2>2. \A k \in Keys : LET j == Judged(i, s, k, p.m, p.v[k])
                            IN  t.runs[k] = j.run /\ t.active[k] = j.active
            BY <1>2, <1>3, <2>1
      <2>3. t.rules = s.rules /\ (t.runs # None => t.last = p.m) BY <1>2, <1>3, <2>1
      <2>4. PICK q : q = Resting OBVIOUS
      <2>5. q.pc = "idle" BY <2>4, RestingLemma
      <2>6. CurrentAt(R, t, q, g) BY <1>5, <1>7, <2>2, <2>3, <2>5, JudgeCurrent
      <2>. QED BY <1>6, <2>1, <2>4, <2>6
<1>8. CASE p.m = s.last
      <2>1. st' = st BY <1>2, <1>3, <1>8 DEF Judge, Nothing
      <2>2. st' = [st EXCEPT ![i] = s] BY <1>0, <1>3, <2>1
      <2>3. ~Pending(p, s) /\ ~Pending(Resting, s) /\ Resting.pc = "idle"
            BY <1>8, RestingLemma DEF Pending
      <2>4. CurrentAt(R, s, Resting, g) BY <1>5, <2>3 DEF CurrentAt, Counts
      <2>. QED BY <1>6, <2>2, <2>4
<1>. QED BY <1>7, <1>8

LEMMA CurrentRestart ==
    ASSUME Types, Current, Restart
    PROVE  Current'
<1>0. /\ ring' = ring /\ smp' = [i \in Items |-> Resting]
      /\ from' = [i \in Items |-> IF st'[i] = st[i] /\ smp[i].pc = "idle"
                                    THEN from[i] ELSE Newest(i) + 1]
      BY DEF Restart
<1>1. ASSUME NEW j \in Items
      PROVE  CurrentAt(ring'[j], st'[j], smp'[j], from'[j]) /\ ReadAt(ring'[j], smp'[j])
      <2>1. PICK R \in RingType : R = ring[j] BY DEF Types, StoreTypes
      <2>2. PICK a \in Nat : a = NewestOf(R) /\ a = Newest(j) BY <2>1, NewestOfLemma, NewestEq
      <2>3. ring'[j] = R /\ smp'[j] = Resting BY <1>0, <2>1
      <2>4. ReadAt(R, Resting) BY RestingLemma DEF ReadAt
      <2>5. CASE st'[j] = st[j] /\ smp[j].pc = "idle"
            <3>1. from'[j] = from[j] BY <1>0, <2>5
            <3>2. PICK s, p, f : s = st[j] /\ p = smp[j] /\ f = from[j] OBVIOUS
            <3>3. CurrentAt(R, s, p, f) BY <2>1, <3>2 DEF Current
            <3>4. ~Pending(p, s) /\ ~Pending(Resting, s) /\ Resting.pc = "idle"
                  BY <2>5, <3>2, RestingLemma DEF Pending
            <3>5. CurrentAt(R, s, Resting, f) BY <3>3, <3>4 DEF CurrentAt, Counts
            <3>. QED BY <2>3, <2>4, <2>5, <3>1, <3>2, <3>5
      <2>6. CASE ~ (st'[j] = st[j] /\ smp[j].pc = "idle")
            <3>1. from'[j] = a + 1 BY <1>0, <2>2, <2>6
            <3>2. PICK s, f : s = st'[j] /\ f = from'[j] OBVIOUS
            <3>3. f \in Nat /\ f > NewestOf(R) /\ NewestOf(R) \in Nat BY <2>2, <3>1, <3>2
            <3>4. CurrentAt(R, s, Resting, f) BY <3>3, Disturbed
            <3>. QED BY <2>3, <2>4, <3>2, <3>4
      <2>. QED BY <2>5, <2>6
<1>. QED BY <1>1 DEF Current

LEMMA CurrentRecount ==
    ASSUME Types, Current, NEW i \in Items, NEW s, Recount(i, s)
    PROVE  Current'
<1>0. UNCHANGED <<ring, smp>> /\ st \in [Items -> Good] /\ from \in [Items -> Nat \ {0}]
      BY DEF Recount, store, Types, HistTypes
<1>1. PICK a \in Nat : a = Newest(i) /\ a = NewestOf(ring[i])
      BY NewestLemma, NewestEq DEF Types
<1>2. ASSUME NEW t PROVE CurrentAt(ring[i], t, smp[i], a + 1)
      BY <1>1, Disturbed
<1>3. ASSUME NEW t, Counted(i, s, t) PROVE Current'
      <2>1. /\ st' = [st EXCEPT ![i] = t]
            /\ from' = [from EXCEPT ![i] = IF Fresh(i) /\ InStep(i) THEN 1 ELSE a + 1]
            BY <1>1, <1>3 DEF Counted
      <2>2. CASE Fresh(i) /\ InStep(i)
            <3>1. CurrentAt(ring[i], t, smp[i], 1) BY <1>3, <2>2, RecountCurrent
            <3>2. from' = [from EXCEPT ![i] = 1] BY <2>1, <2>2
            <3>. QED BY <1>0, <2>1, <3>1, <3>2, CurrentChange
      <2>3. CASE ~ (Fresh(i) /\ InStep(i))
            <3>1. from' = [from EXCEPT ![i] = a + 1] BY <2>1, <2>3
            <3>. QED BY <1>0, <1>2, <2>1, <3>1, CurrentChange
      <2>. QED BY <2>2, <2>3
<1>4. ASSUME NEW t, Uncounted(i, s, t) PROVE Current'
      <2>1. /\ t \in Good /\ st' = [st EXCEPT ![i] = t] /\ t.rules = s.rules
            /\ t.runs = st[i].runs /\ t.active = st[i].active /\ t.last = st[i].last
            /\ from' = [from EXCEPT ![i] = IF s.rules # st[i].rules THEN a + 1 ELSE @]
            BY <1>1, <1>4 DEF Uncounted
      <2>2. CASE s.rules # st[i].rules
            <3>1. from' = [from EXCEPT ![i] = a + 1] BY <2>1, <2>2
            <3>. QED BY <1>0, <1>2, <2>1, <3>1, CurrentChange
      <2>3. CASE s.rules = st[i].rules
            <3>1. PICK u \in Good : u = st[i] BY <1>0
            <3>2. t = u BY <2>1, <2>3, <3>1, SameState
            <3>3. PICK f : f = from[i] OBVIOUS
            <3>4. from' = [from EXCEPT ![i] = f] BY <2>1, <2>3, <3>3
            <3>5. CurrentAt(ring[i], t, smp[i], f) BY <3>1, <3>2, <3>3 DEF Current
            <3>. QED BY <1>0, <2>1, <3>4, <3>5, CurrentChange
      <2>. QED BY <2>2, <2>3
<1>. QED BY <1>3, <1>4, RecountLemma

LEMMA CurrentStep == ASSUME Types, Current, [Next]_vars PROVE Current'
<1>0. /\ ring \in [Items -> RingType] /\ from \in [Items -> Nat \ {0}]
      BY DEF Types, StoreTypes, HistTypes
<1>1. CASE UNCHANGED <<ring, st, smp, from>> BY <1>1 DEF Current
<1>2. CASE UNCHANGED vars \/ Tick
      <2>1. UNCHANGED <<ring, st, smp, from>> BY <1>2 DEF vars, Tick, Nothing
      <2>. QED BY <1>1, <2>1
<1>3. ASSUME NEW i \in Items, NEW m \in 1..MaxMinute, NEW v \in [Keys -> Vals], Commit(i, m, v)
      PROVE  Current'
      BY <1>3, CurrentCommit
<1>4. ASSUME NEW i \in Items, ReadMinute(i) PROVE Current' BY <1>4, CurrentRead
<1>5. ASSUME NEW i \in Items, Judge(i) PROVE Current' BY <1>5, CurrentJudge
<1>6. ASSUME NEW i \in Items, NEW s, Recount(i, s) PROVE Current' BY <1>6, CurrentRecount
<1>7. ASSUME NEW i \in Items, Resolve(i) PROVE Current'
      <2>1. PICK t \in Good : st' = [st EXCEPT ![i] = t] BY <1>7, ResolveLemma
      <2>2. PICK a \in Nat : a = Newest(i) /\ a = NewestOf(ring[i])
            BY NewestLemma, NewestEq DEF Types
      <2>3. UNCHANGED <<ring, smp>> /\ from' = [from EXCEPT ![i] = a + 1]
            BY <1>7, <2>2 DEF Resolve, store
      <2>4. CurrentAt(ring[i], t, smp[i], a + 1) BY <2>2, Disturbed
      <2>. QED BY <2>1, <2>3, <2>4, CurrentChange
<1>8. ASSUME NEW i \in Items, RemoveItem(i) PROVE Current'
      <2>1. ring' = [ring EXCEPT ![i] = <<>>] /\ UNCHANGED <<st, smp, from>>
            BY <1>8 DEF RemoveItem, Nothing
      <2>2. ASSUME NEW j \in Items
            PROVE  CurrentAt(ring'[j], st'[j], smp'[j], from'[j]) /\ ReadAt(ring'[j], smp'[j])
            <3>1. CASE j = i
                  <4>1. PICK R : R = ring'[j] OBVIOUS
                  <4>2. R = <<>> BY <1>0, <2>1, <3>1, <4>1
                  <4>3. DOMAIN R = {} BY <4>2
                  <4>4. NewestOf(R) = 0 BY <4>3 DEF NewestOf
                  <4>5. PICK f \in Nat \ {0} : f = from[j] BY <1>0
                  <4>6. \A s, p : CurrentAt(R, s, p, f) BY <4>4, <4>5, Disturbed
                  <4>7. \A p : ReadAt(R, p) BY <4>3 DEF ReadAt
                  <4>. QED BY <2>1, <4>1, <4>5, <4>6, <4>7
            <3>2. CASE j # i
                  <4>1. ring'[j] = ring[j] BY <1>0, <2>1, <3>2
                  <4>. QED BY <2>1, <4>1, CurrentFrame
            <3>. QED BY <3>1, <3>2
      <2>. QED BY <2>2 DEF Current
<1>9. CASE Prune
      <2>1. PICK gone : gone = {i \in Items : DOMAIN ring[i] = {}} OBVIOUS
      <2>2. /\ st' = [i \in Items |-> IF i \in gone THEN Idle ELSE st[i]]
            /\ UNCHANGED <<ring, smp, from>>
            BY <1>9, <2>1 DEF Prune, store
      <2>3. ASSUME NEW j \in Items
            PROVE  CurrentAt(ring'[j], st'[j], smp'[j], from'[j]) /\ ReadAt(ring'[j], smp'[j])
            <3>1. CASE j \in gone
                  <4>1. NewestOf(ring[j]) = 0 BY <2>1, <3>1 DEF NewestOf
                  <4>2. PICK f \in Nat \ {0} : f = from[j] BY <1>0
                  <4>3. \A s, p : CurrentAt(ring[j], s, p, f) BY <4>1, <4>2, Disturbed
                  <4>4. ReadAt(ring[j], smp[j]) BY DEF Current
                  <4>. QED BY <2>2, <4>2, <4>3, <4>4
            <3>2. CASE j \notin gone
                  <4>1. st'[j] = st[j] BY <2>2, <3>2
                  <4>. QED BY <2>2, <4>1, CurrentFrame
            <3>. QED BY <3>1, <3>2
      <2>. QED BY <2>3 DEF Current
<1>10. ASSUME NEW c \in 1..MaxMinute, StepBack(c) PROVE Current'
      <2>1. /\ UNCHANGED <<ring, st, smp>> /\ from' = [i \in Items |-> Newest(i) + 1]
            BY <1>10 DEF StepBack, Nothing
      <2>2. ASSUME NEW j \in Items
            PROVE  CurrentAt(ring'[j], st'[j], smp'[j], from'[j]) /\ ReadAt(ring'[j], smp'[j])
            <3>1. PICK a \in Nat : a = Newest(j) /\ a = NewestOf(ring[j])
                  BY NewestLemma, NewestEq DEF Types
            <3>2. from'[j] = a + 1 BY <2>1, <3>1
            <3>3. \A s, p : CurrentAt(ring[j], s, p, a + 1) BY <3>1, Disturbed
            <3>4. ReadAt(ring[j], smp[j]) BY DEF Current
            <3>. QED BY <2>1, <3>2, <3>3, <3>4
      <2>. QED BY <2>2 DEF Current
<1>11. CASE Restart BY <1>11, CurrentRestart
<1>. QED BY <1>2, <1>3, <1>4, <1>5, <1>6, <1>7, <1>8, <1>9, <1>10, <1>11, NextCases

\* Once the newest minute is judged, a rule whose window is full of high minutes
\* is firing, and an active alert is one this minute is high for: no alert is
\* missed and none outlives its cause, unless what the documentation excepts came
\* between the minutes.
THEOREM AlertsAreCurrent == Spec => []AlertsCurrent
<1>1. ASSUME Init PROVE Current
      <2>1. ASSUME NEW i \in Items
            PROVE  CurrentAt(ring[i], st[i], smp[i], from[i]) /\ ReadAt(ring[i], smp[i])
            <3>1. ring[i] = <<>> /\ from[i] = 1 /\ smp[i] = Resting BY <1>1 DEF Init
            <3>2. DOMAIN ring[i] = {} BY <3>1
            <3>3. NewestOf(ring[i]) = 0 BY <3>2 DEF NewestOf
            <3>4. CurrentAt(ring[i], st[i], smp[i], from[i]) BY <3>1, <3>3, Disturbed
            <3>. QED BY <3>2, <3>4 DEF ReadAt
      <2>. QED BY <2>1 DEF Current
<1>2. ASSUME Types, Current PROVE AlertsCurrent
      <2>. SUFFICES ASSUME NEW i \in Items, NEW k \in Keys, smp[i].pc = "idle"
                    PROVE  LET r    == st[i].rules[k]
                               since == Newest(i) - r.min + 1
                               isHigh(x) == Value(i, k, x) >= r.th
                           IN  /\ (r.en /\ since >= from[i] /\ \A x \in since..Newest(i) : isHigh(x))
                                     => st[i].active[k] # 0
                               /\ (Newest(i) >= from[i] /\ st[i].active[k] # 0)
                                     => r.en /\ isHigh(Newest(i))
           BY DEF AlertsCurrent
      <2>1. PICK R, s, p, r : R = ring[i] /\ s = st[i] /\ p = smp[i] /\ r = s.rules[k] OBVIOUS
      <2>2. PICK a, f \in Nat : a = NewestOf(R) /\ a = Newest(i) /\ f = from[i]
            <3>1. Newest(i) \in Nat /\ from[i] \in Nat
                  BY <1>2, NewestLemma DEF Types, HistTypes
            <3>. QED BY <2>1, <3>1, NewestEq
      <2>3. r.min \in Nat /\ r.min >= 1 /\ s \in Good
            BY <1>2, <2>1, GoodFields, RuleFields DEF Types
      <2>4. CurrentAt(R, s, p, f) /\ ~Pending(p, s)
            BY <1>2, <2>1, <2>2 DEF Current, Pending
      <2>5. a >= f => Right(R, s, k) BY <2>2, <2>4 DEF CurrentAt
      <2>6. \A x : Value(i, k, x) = ValueOf(R, k, x) BY <2>1, NewestEq
      <2>7. ASSUME r.en, a - r.min + 1 >= f,
                   \A x \in (a - r.min + 1)..a : Value(i, k, x) >= r.th
            PROVE  s.active[k] # 0
            <3>1. a >= f BY <2>2, <2>3, <2>7
            <3>2. HighRun(R, s, k, f, r.min) BY <2>1, <2>2, <2>3, <2>6, <2>7 DEF HighRun
            <3>3. Counts(R, p, s, k, r.min) BY <2>1, <2>2, <2>3, <2>4, <2>7, <3>1, <3>2 DEF CurrentAt
            <3>4. s.runs[k] >= r.min BY <2>4, <3>3 DEF Counts
            <3>. QED BY <2>1, <2>5, <2>7, <3>1, <3>4 DEF Right
      <2>8. ASSUME a >= f, s.active[k] # 0 PROVE r.en /\ Value(i, k, a) >= r.th
            BY <2>1, <2>2, <2>5, <2>6, <2>8 DEF Right
      <2>. QED BY <2>1, <2>2, <2>7, <2>8
<1>3. Types /\ Current /\ [Next]_vars => Current' BY CurrentStep
<1>. QED BY TypesAlways, <1>1, <1>2, <1>3, PTL DEF Spec
=============================================================================
