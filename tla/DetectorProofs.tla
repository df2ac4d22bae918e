--------------------------- MODULE DetectorProofs ---------------------------
(***************************************************************************)
(* Proofs about the alerts of the detector, for any rules, any lines and   *)
(* any trained model: exactly the alerts that are deserved are written,    *)
(* once, in order and before the next line is read.                        *)
(*                                                                         *)
(* First the verdicts of the two layers, for every rule, event, corpus and *)
(* threshold: what SigmaMatcher.match computes is what the rule means, and *)
(* what the scaling of anomaly.py comes to.  Sets of natural numbers take  *)
(* the place of predicates in the inductions: a set without a least        *)
(* element is empty.                                                       *)
(*                                                                         *)
(* Then the process.  IInv is about the order of the alerts alone.  JInv   *)
(* is about what is alerted, and rests on the verdicts.                    *)
(***************************************************************************)
EXTENDS Detector, TLAPS, WellFoundedInduction, FiniteSetTheorems

-----------------------------------------------------------------------------
(* Sequences and induction.                                                *)

\* A sequence that grows by one element.
LEMMA AppendFacts ==
    ASSUME NEW S, NEW s \in Seq(S), NEW e \in S
    PROVE  /\ Append(s, e) \in Seq(S)
           /\ Len(s) \in Nat /\ Len(Append(s, e)) = Len(s) + 1
           /\ \A i \in 1..Len(s) : Append(s, e)[i] = s[i]
           /\ Append(s, e)[Len(s) + 1] = e
  OBVIOUS

\* A set of natural numbers that is not empty has a least element.
LEMMA Least ==
    ASSUME NEW T \in SUBSET Nat, T # {}
    PROVE  \E x \in T : \A y \in T : x =< y
  <1> DEFINE R == OpToRel(<, Nat)
  <1>1. IsWellFoundedOn(R, Nat)
    BY NatLessThanWellFounded
  <1> SUFFICES ASSUME NEW less, less = R PROVE \E x \in T : \A y \in T : x =< y
    OBVIOUS
  <1>2. \A x, y \in Nat : <<x, y>> \in less <=> x < y
    BY DEF OpToRel
  <1> HIDE DEF R
  <1>3. PICK x \in T : \A y \in T : ~ (<<y, x>> \in less)
    BY <1>1, WFMin
  <1>4. ASSUME NEW y \in T PROVE x =< y
    <2>1. x \in Nat /\ y \in Nat /\ ~ (y < x)
      BY <1>2, <1>3
    <2> QED
      BY <2>1
  <1> QED
    BY <1>4

\* A set that holds a number whenever it holds all smaller ones holds all.
LEMMA SetInduction ==
    ASSUME NEW S, \A n \in Nat : (\A m \in 0..n-1 : m \in S) => n \in S
    PROVE  \A n \in Nat : n \in S
  <1> SUFFICES ASSUME Nat \ S # {} PROVE FALSE
    OBVIOUS
  <1>1. PICK x \in Nat \ S : \A y \in Nat \ S : x =< y
    BY Least
  <1>2. \A m \in 0..x-1 : m \in S
    BY <1>1
  <1> QED
    BY <1>1, <1>2

-----------------------------------------------------------------------------
(* The two recursions of _eval_condition.                                  *)

TermStep(f, t, s, p) ==
    IF p > Len(t) \/ t[p] \in Operators THEN Fault
    ELSE IF t[p] = "not" THEN Negated(f[p + 1])
    ELSE IF t[p] \in DOMAIN s THEN [ok |-> TRUE, value |-> s[t[p]], next |-> p + 1]
    ELSE Fault

\* There is a function as Terms defines it: from the end of the tokens on, one
\* position after the other.
LEMMA TermsDef ==
    ASSUME NEW t, Len(t) \in Nat, NEW s
    PROVE  \A p \in 1..Len(t)+1 : Terms(t, s)[p] = TermStep(Terms(t, s), t, s, p)
  <1> SUFFICES ASSUME NEW n \in Nat, n = Len(t)
               PROVE  \A p \in 1..n+1 : Terms(t, s)[p] = TermStep(Terms(t, s), t, s, p)
    OBVIOUS
  <1> DEFINE Ok(m) == \E f : f = [p \in n+1-m..n+1 |-> TermStep(f, t, s, p)]
             S == {m \in Nat : Ok(m)}
  <1>1. Ok(0)
    <2> DEFINE f == [p \in n+1..n+1 |-> Fault]
    <2>1. f = [p \in n+1..n+1 |-> TermStep(f, t, s, p)]
      BY DEF TermStep
    <2>2. n + 1 - 0 = n + 1
      OBVIOUS
    <2> HIDE DEF f
    <2> QED
      BY <2>1, <2>2
  <1>2. ASSUME NEW m \in Nat, Ok(m)
        PROVE  Ok(m + 1)
    <2>1. PICK f : f = [p \in n+1-m..n+1 |-> TermStep(f, t, s, p)]
      BY <1>2
    <2> DEFINE k == n+1-(m+1)
               g == [p \in k..n+1 |-> IF p = k THEN TermStep(f, t, s, p) ELSE f[p]]
    <2>2. ASSUME NEW p \in k..n+1
          PROVE  g[p] = TermStep(g, t, s, p)
      <3>1. CASE p > n
        <4>1. g[p] = IF p = k THEN Fault ELSE f[p]
          BY <3>1 DEF TermStep
        <4>2. p # k => f[p] = Fault
          BY <2>1, <3>1 DEF TermStep
        <4> QED
          BY <3>1, <4>1, <4>2 DEF TermStep
      <3>2. CASE ~ (p > n)
        <4>1. p + 1 \in k..n+1 /\ p + 1 # k
          BY <3>2
        <4>2. g[p + 1] = f[p + 1]
          BY <4>1
        <4>3. g[p] = TermStep(f, t, s, p)
          BY <2>1
        <4> QED
          BY <4>2, <4>3 DEF TermStep
      <3> QED
        BY <3>1, <3>2
    <2>3. g = [p \in k..n+1 |-> TermStep(g, t, s, p)]
      BY <2>2
    <2> QED
      BY <2>3
  <1> HIDE DEF Ok
  <1>3. ASSUME NEW m \in Nat, \A i \in 0..m-1 : i \in S
        PROVE  m \in S
    <2>1. CASE m = 0
      BY <1>1, <2>1
    <2>2. CASE m # 0
      <3>1. m - 1 \in Nat /\ m - 1 \in S /\ m - 1 + 1 = m
        BY <1>3, <2>2
      <3> QED
        BY <1>2, <3>1
    <2> QED
      BY <2>1, <2>2
  <1>4. Ok(n)
    <2> HIDE DEF S
    <2>1. n \in S
      BY <1>3, SetInduction
    <2> QED
      BY <2>1 DEF S
  <1> DEFINE P(f) == f = [p \in 1..n+1 |-> TermStep(f, t, s, p)]
  <1>5. \E f : P(f)
    <2>1. n + 1 - n = 1
      OBVIOUS
    <2> QED
      BY <1>4, <2>1 DEF Ok
  <1>6. Terms(t, s) = CHOOSE f : P(f)
    BY DEF Terms, TermStep
  <1> HIDE DEF P
  <1>7. P(Terms(t, s))
    BY <1>5, <1>6
  <1> USE DEF P
  <1> QED
    BY <1>7

-----------------------------------------------------------------------------
(* Terms.  t: the tokens; s: the outcome of each selection.                *)

\* The selections that tokens can name.
Named(s) == DOMAIN s \ (Operators \cup {"not"})

\* From p on: any number of "not", then a name at e.
IsTerm(t, s, p, e) ==
    /\ e \in p..Len(t)
    /\ \A i \in p..e-1 : t[i] = "not"
    /\ t[e] \in Named(s)

Even(k) == k % 2 = 0

\* Terms finds the term that starts at p, its end and its value.
TermFound(t, s, p) ==
    LET r == Terms(t, s)[p] IN
    /\ r.ok \in BOOLEAN
    /\ r.ok => \E e \in p..Len(t) :
                  /\ IsTerm(t, s, p, e)
                  /\ r \in [ok : BOOLEAN, value : BOOLEAN, next : {e + 1}]
                  /\ r.value <=> (s[t[e]] <=> Even(e - p))
    /\ ~r.ok => \A e \in p..Len(t) : ~IsTerm(t, s, p, e)

\* A term ends at the first name.
LEMMA OneEnd ==
    ASSUME NEW t, Len(t) \in Nat, NEW s, NEW p \in 1..Len(t)+1,
           NEW d \in p..Len(t), IsTerm(t, s, p, d), NEW e \in p..Len(t), IsTerm(t, s, p, e)
    PROVE  d = e
  <1>1. d < e => d \in p..e-1
    OBVIOUS
  <1>2. e < d => e \in p..d-1
    OBVIOUS
  <1>3. t[d] # "not" /\ t[e] # "not"
    BY DEF IsTerm, Named
  <1> QED
    BY <1>1, <1>2, <1>3 DEF IsTerm

\* A "not" in front of a term is part of it and negates it.
LEMMA NotTerm ==
    ASSUME NEW t, NEW n \in Nat, n = Len(t), NEW s, s \in [DOMAIN s -> BOOLEAN], NEW p \in 1..n,
           t[p] = "not", TermFound(t, s, p + 1)
    PROVE  TermFound(t, s, p)
  <1> DEFINE r == Terms(t, s)[p + 1]
  <1>1. "not" \notin Operators
    BY DEF Operators
  <1>2. Terms(t, s)[p] = Negated(r)
    <2>1. p \in 1..n+1 /\ ~(p > n)
      OBVIOUS
    <2>2. Terms(t, s)[p] = TermStep(Terms(t, s), t, s, p)
      BY <2>1, TermsDef
    <2> QED
      BY <1>1, <2>1, <2>2 DEF TermStep
  <1>3. \A e \in p+1..n : IsTerm(t, s, p + 1, e) => IsTerm(t, s, p, e)
    BY DEF IsTerm
  <1>4. \A e \in p..n : IsTerm(t, s, p, e) => e \in p+1..n /\ IsTerm(t, s, p + 1, e)
    BY DEF IsTerm, Named
  <1>5. CASE r.ok
    <2>1. PICK e \in p+1..n : /\ IsTerm(t, s, p + 1, e)
                              /\ r \in [ok : BOOLEAN, value : BOOLEAN, next : {e + 1}]
                              /\ r.value <=> (s[t[e]] <=> Even(e - (p + 1)))
      BY <1>5 DEF TermFound
    <2> DEFINE q == Terms(t, s)[p]
    <2>2. q.ok /\ q \in [ok : BOOLEAN, value : BOOLEAN, next : {e + 1}] /\ (q.value <=> ~r.value)
      <3>1. q = [r EXCEPT !.value = ~r.value]
        BY <1>2, <1>5 DEF Negated
      <3> HIDE DEF r, q
      <3>2. q \in [ok : BOOLEAN, value : BOOLEAN, next : {e + 1}]
        BY <2>1, <3>1
      <3>3. q.ok
        BY <1>5, <2>1, <3>1
      <3>4. q.value <=> ~r.value
        BY <2>1, <3>1
      <3> QED
        BY <3>2, <3>3, <3>4
    <2>3. Even(e - p) <=> ~Even(e - (p + 1))
      BY DEF Even
    <2>4. IsTerm(t, s, p, e) /\ e \in p..n
      BY <1>3, <2>1
    <2> HIDE DEF r, q
    <2>5. (q.value <=> (s[t[e]] <=> Even(e - p)))
      BY <2>1, <2>2, <2>3
    <2> USE DEF q
    <2> QED
      BY <2>2, <2>4, <2>5 DEF TermFound
  <1>6. CASE ~r.ok
    <2>1. Terms(t, s)[p] = r
      BY <1>2, <1>6 DEF Negated
    <2> QED
      BY <1>4, <1>6, <2>1 DEF TermFound
  <1>7. r.ok \in BOOLEAN
    BY DEF TermFound
  <1> QED
    BY <1>5, <1>6, <1>7

\* Terms finds the term at every position, and none where there is none.
LEMMA TermsFound ==
    ASSUME NEW t, Len(t) \in Nat, NEW s, s \in [DOMAIN s -> BOOLEAN]
    PROVE  \A p \in 1..Len(t)+1 : TermFound(t, s, p)
  <1> SUFFICES ASSUME NEW n \in Nat, n = Len(t)
               PROVE  \A p \in 1..n+1 : TermFound(t, s, p)
    OBVIOUS
  <1>1. ASSUME NEW p \in 1..n+1, p = n + 1 \/ TermFound(t, s, p + 1)
        PROVE  TermFound(t, s, p)
    <2>1. Terms(t, s)[p] = TermStep(Terms(t, s), t, s, p)
      BY TermsDef
    <2>2. CASE p > n
      <3>1. ~ Terms(t, s)[p].ok /\ Terms(t, s)[p].ok \in BOOLEAN
        BY <2>1, <2>2 DEF TermStep, Fault
      <3>2. p..Len(t) = {}
        BY <2>2
      <3> QED
        BY <3>1, <3>2 DEF TermFound
    <2>3. CASE ~ (p > n) /\ t[p] = "not"
      BY <1>1, <2>3, NotTerm
    <2>4. CASE ~ (p > n) /\ t[p] # "not" /\ t[p] \in Named(s)
      <3>1. IsTerm(t, s, p, p) /\ p \in p..n
        BY <2>4 DEF IsTerm
      <3>2. Terms(t, s)[p] = [ok |-> TRUE, value |-> s[t[p]], next |-> p + 1]
        BY <2>1, <2>4 DEF TermStep, Named
      <3>3. Even(p - p) /\ s[t[p]] \in BOOLEAN
        BY <2>4 DEF Even, Named
      <3> QED
        BY <3>1, <3>2, <3>3 DEF TermFound
    <2>5. CASE ~ (p > n) /\ t[p] # "not" /\ t[p] \notin Named(s)
      <3>1. \A e \in p..n : ~IsTerm(t, s, p, e)
        BY <2>5 DEF IsTerm
      <3>2. Terms(t, s)[p] = Fault
        BY <2>1, <2>5 DEF TermStep, Named
      <3> QED
        BY <3>1, <3>2 DEF TermFound, Fault
    <2> QED
      BY <2>2, <2>3, <2>4, <2>5
  <1> DEFINE S == {m \in Nat : m =< n => TermFound(t, s, n + 1 - m)}
  <1>2. ASSUME NEW m \in Nat, \A i \in 0..m-1 : i \in S
        PROVE  m \in S
    <2> SUFFICES ASSUME m =< n PROVE TermFound(t, s, n + 1 - m)
      OBVIOUS
    <2>1. n + 1 - m \in 1..n+1
      OBVIOUS
    <2>2. CASE m = 0
      BY <1>1, <2>1, <2>2
    <2>3. CASE m # 0
      <3>1. m - 1 \in S /\ m - 1 \in Nat /\ m - 1 =< n
        BY <1>2, <2>3
      <3>2. n + 1 - (m - 1) = n + 1 - m + 1
        OBVIOUS
      <3>3. TermFound(t, s, n + 1 - m + 1)
        BY <3>1, <3>2
      <3> QED
        BY <1>1, <2>1, <3>3
    <2> QED
      BY <2>2, <2>3
  <1>3. \A m \in Nat : m \in S
    <2> HIDE DEF S
    <2> QED
      BY <1>2, SetInduction
  <1>4. ASSUME NEW p \in 1..n+1 PROVE TermFound(t, s, p)
    <2>1. n + 1 - p \in S /\ n + 1 - p =< n /\ n + 1 - p \in Nat
      BY <1>3
    <2>2. n + 1 - (n + 1 - p) = p
      OBVIOUS
    <2> QED
      BY <2>1, <2>2
  <1> QED
    BY <1>4

\* A term ends behind its beginning.
LEMMA TermMoves ==
    ASSUME NEW t, NEW n \in Nat, n = Len(t), NEW s, s \in [DOMAIN s -> BOOLEAN],
           NEW p \in 1..n+1, Terms(t, s)[p].ok
    PROVE  Terms(t, s)[p].next \in p+1..n+1 /\ Terms(t, s)[p].value \in BOOLEAN
  <1>1. TermFound(t, s, p)
    BY TermsFound
  <1> DEFINE r == Terms(t, s)[p]
  <1>2. PICK e \in p..n : r \in [ok : BOOLEAN, value : BOOLEAN, next : {e + 1}]
    BY <1>1 DEF TermFound
  <1> HIDE DEF r
  <1>3. r.next \in p+1..n+1 /\ r.value \in BOOLEAN
    BY <1>2
  <1> QED
    BY <1>3 DEF r

RestStep(f, t, s, p) ==
    [left \in BOOLEAN |->
        IF p > Len(t) THEN Bool(left)
        ELSE IF t[p] \notin Operators \/ ~Terms(t, s)[p + 1].ok THEN "raise"
        ELSE f[Terms(t, s)[p + 1].next][Combine(t[p], left, Terms(t, s)[p + 1].value)]]

\* There is a function as Rests defines it.
LEMMA RestsDef ==
    ASSUME NEW t, Len(t) \in Nat, NEW s, s \in [DOMAIN s -> BOOLEAN]
    PROVE  \A p \in 1..Len(t)+1 : Rests(t, s)[p] = RestStep(Rests(t, s), t, s, p)
  <1> SUFFICES ASSUME NEW n \in Nat, n = Len(t)
               PROVE  \A p \in 1..n+1 : Rests(t, s)[p] = RestStep(Rests(t, s), t, s, p)
    OBVIOUS
  \* RestStep looks only at later positions.
  <1>1. ASSUME NEW f, NEW g, NEW p \in 1..n+1, \A q \in p+1..n+1 : f[q] = g[q]
        PROVE  RestStep(f, t, s, p) = RestStep(g, t, s, p)
    <2>1. CASE p > n
      BY <2>1 DEF RestStep
    <2>2. CASE ~ (p > n) /\ ~Terms(t, s)[p + 1].ok
      BY <2>2 DEF RestStep
    <2>3. CASE ~ (p > n) /\ Terms(t, s)[p + 1].ok
      <3>1. p + 1 \in 1..n+1
        BY <2>3
      <3>2. Terms(t, s)[p + 1].next \in p+1..n+1
        BY <2>3, <3>1, TermMoves
      <3>3. f[Terms(t, s)[p + 1].next] = g[Terms(t, s)[p + 1].next]
        BY <1>1, <3>2
      <3> QED
        BY <3>3 DEF RestStep
    <2> QED
      BY <2>1, <2>2, <2>3
  <1> DEFINE Ok(m) == \E f : f = [p \in n+1-m..n+1 |-> RestStep(f, t, s, p)]
             S == {m \in Nat : m =< n => Ok(m)}
  <1>2. Ok(0)
    <2> DEFINE f == [p \in n+1..n+1 |-> [left \in BOOLEAN |-> Bool(left)]]
    <2>1. f = [p \in n+1..n+1 |-> RestStep(f, t, s, p)]
      BY DEF RestStep
    <2>2. n + 1 - 0 = n + 1
      OBVIOUS
    <2> HIDE DEF f
    <2> QED
      BY <2>1, <2>2
  <1>3. ASSUME NEW m \in Nat, m + 1 =< n, Ok(m)
        PROVE  Ok(m + 1)
    <2>1. PICK f : f = [p \in n+1-m..n+1 |-> RestStep(f, t, s, p)]
      BY <1>3
    <2> DEFINE k == n+1-(m+1)
               g == [p \in k..n+1 |-> IF p = k THEN RestStep(f, t, s, p) ELSE f[p]]
    <2>2. ASSUME NEW p \in k..n+1
          PROVE  g[p] = RestStep(g, t, s, p)
      <3>1. p \in 1..n+1
        BY <1>3
      <3>2. ASSUME NEW q \in p+1..n+1 PROVE f[q] = g[q]
        <4>1. q \in k..n+1 /\ q # k
          BY <3>1
        <4> QED
          BY <4>1
      <3>3. RestStep(f, t, s, p) = RestStep(g, t, s, p)
        <4> HIDE DEF g
        <4> QED
          BY <1>1, <3>1, <3>2
      <3>4. g[p] = RestStep(f, t, s, p)
        <4>1. p # k => p \in n+1-m..n+1
          OBVIOUS
        <4>2. p # k => f[p] = RestStep(f, t, s, p)
          BY <2>1, <4>1
        <4> QED
          BY <4>2
      <3> QED
        BY <3>3, <3>4
    <2>3. g = [p \in k..n+1 |-> RestStep(g, t, s, p)]
      BY <2>2
    <2> QED
      BY <2>3
  <1> HIDE DEF Ok
  <1>4. ASSUME NEW m \in Nat, \A i \in 0..m-1 : i \in S
        PROVE  m \in S
    <2>1. CASE m = 0
      BY <1>2, <2>1
    <2>2. CASE m # 0
      <3>1. m - 1 \in Nat /\ m - 1 \in S /\ m - 1 + 1 = m
        BY <1>4, <2>2
      <3> QED
        BY <1>3, <3>1
    <2> QED
      BY <2>1, <2>2
  <1>5. Ok(n)
    <2> HIDE DEF S
    <2>1. n \in S
      BY <1>4, SetInduction
    <2> QED
      BY <2>1 DEF S
  <1> DEFINE P(f) == f = [p \in 1..n+1 |-> RestStep(f, t, s, p)]
  <1>6. \E f : P(f)
    <2>1. n + 1 - n = 1
      OBVIOUS
    <2> QED
      BY <1>5, <2>1 DEF Ok
  <1>7. Rests(t, s) = CHOOSE f : P(f)
    BY DEF Rests, RestStep
  <1> HIDE DEF P
  <1>8. P(Rests(t, s))
    BY <1>6, <1>7
  <1> USE DEF P
  <1> QED
    BY <1>8

-----------------------------------------------------------------------------
(* Conditions: _eval_condition against Means and WellFormed.               *)

Vocabulary(s) == Named(s) \cup Operators \cup {"not"}

\* From p on the tokens are terms with operators between them.
Linked(t, s, p) ==
    /\ p =< Len(t)
    /\ \A i \in p..Len(t) : t[i] \in Vocabulary(s)
    /\ t[p] \notin Operators /\ t[Len(t)] \in Named(s)
    /\ \A i \in p..Len(t)-1 : t[i] \in Named(s) <=> t[i + 1] \in Operators

\* What may follow a term: nothing, or an operator and terms.
Continued(t, s, p) == p = Len(t) + 1 \/ (p =< Len(t) /\ t[p] \in Operators /\ Linked(t, s, p + 1))

\* Tokens are linked from p on exactly if there is a term at p and what may
\* follow a term behind it.
LEMMA TermThenRest ==
    ASSUME NEW t, NEW n \in Nat, n = Len(t), NEW s, NEW p \in 1..n+1,
           NEW e \in p..n, IsTerm(t, s, p, e)
    PROVE  Linked(t, s, p) <=> Continued(t, s, e + 1)
  <1>1. \A i \in p..e : t[i] \in Vocabulary(s) /\ t[i] \notin Operators
    <2>1. "not" \notin Operators /\ \A i \in p..e : i \in p..e-1 \/ i = e
      BY DEF Operators
    <2> QED
      BY <2>1 DEF IsTerm, Vocabulary, Named
  <1>2. \A i \in p..e-1 : t[i] \notin Named(s)
    BY DEF IsTerm, Named
  <1>3. t[e] \in Named(s) /\ t[e] \notin Operators
    BY DEF IsTerm, Named
  <1>4. p \in p..e
    OBVIOUS
  <1>5. CASE e = n
    <2>1. \A i \in p..n-1 : i \in p..e-1 /\ i + 1 \in p..e
      BY <1>5
    <2>2. Linked(t, s, p)
      BY <1>1, <1>2, <1>3, <1>4, <1>5, <2>1 DEF Linked
    <2> QED
      BY <1>5, <2>2 DEF Continued
  <1>6. CASE e < n
    <2>1. ASSUME Linked(t, s, p) PROVE Continued(t, s, e + 1)
      <3>1. e \in p..n-1 /\ t[e + 1] \in Operators
        BY <1>3, <1>6, <2>1 DEF Linked
      <3>2. t[n] \in Named(s) /\ t[n] \notin Operators
        BY <2>1 DEF Linked, Named
      <3>3. e + 2 =< n
        BY <1>6, <3>1, <3>2
      <3>4. t[e + 1] \notin Named(s) /\ e + 1 \in p..n-1
        BY <3>1, <3>3 DEF Named
      <3>5. t[e + 2] \notin Operators
        <4>1. t[e + 1] \in Named(s) <=> t[e + 1 + 1] \in Operators
          BY <2>1, <3>4 DEF Linked
        <4> QED
          BY <3>4, <4>1
      <3>6. \A i \in e+2..n : i \in p..n /\ (i \in e+2..n-1 => i \in p..n-1)
        OBVIOUS
      <3>7. Linked(t, s, e + 1 + 1)
        BY <2>1, <3>2, <3>3, <3>5, <3>6 DEF Linked
      <3> QED
        BY <3>1, <3>3, <3>7 DEF Continued
    <2>2. ASSUME Continued(t, s, e + 1) PROVE Linked(t, s, p)
      <3>1. t[e + 1] \in Operators /\ Linked(t, s, e + 1 + 1)
        BY <1>6, <2>2 DEF Continued
      <3>2. e + 2 =< n
        BY <3>1 DEF Linked
      <3>3. t[e + 1] \notin Named(s) /\ t[e + 1] \in Vocabulary(s) /\ t[e + 2] \notin Operators
        BY <3>1, <3>2 DEF Named, Vocabulary, Linked
      <3>4. \A i \in p..n : i \in p..e \/ i = e + 1 \/ i \in e+2..n
        OBVIOUS
      <3>5. \A i \in p..n : t[i] \in Vocabulary(s)
        <4>1. \A i \in e+2..n : t[i] \in Vocabulary(s)
          BY <3>1 DEF Linked
        <4> QED
          BY <1>1, <3>3, <3>4, <4>1
      <3>6. ASSUME NEW i \in p..n-1 PROVE t[i] \in Named(s) <=> t[i + 1] \in Operators
        <4>1. CASE i \in p..e-1
          <5>1. i + 1 \in p..e
            BY <4>1
          <5> QED
            BY <1>1, <1>2, <4>1, <5>1
        <4>2. CASE i = e
          BY <1>3, <3>1, <4>2
        <4>3. CASE i = e + 1
          BY <3>3, <4>3
        <4>4. CASE i \in e+2..n-1
          BY <3>1, <4>4 DEF Linked
        <4> QED
          BY <4>1, <4>2, <4>3, <4>4
      <3> QED
        BY <1>1, <1>4, <3>1, <3>5, <3>6 DEF Linked
    <2> QED
      BY <2>1, <2>2
  <1> QED
    BY <1>5, <1>6

\* Where tokens are linked there is a term.
LEMMA LinkedTerm ==
    ASSUME NEW t, NEW n \in Nat, n = Len(t), NEW s, NEW p \in 1..n+1, Linked(t, s, p)
    PROVE  \E e \in p..n : IsTerm(t, s, p, e)
  <1> DEFINE T == {i \in p..n : t[i] # "not"}
  <1>1. p =< n /\ t[n] \in Named(s) /\ n \in T
    BY DEF Linked, Named
  <1>2. T # {} /\ T \subseteq Nat
    BY <1>1
  <1>3. PICK e \in T : \A i \in T : e =< i
    <2> HIDE DEF T
    <2> QED
      BY <1>2, Least
  <1>4. \A i \in p..e-1 : t[i] = "not"
    BY <1>3
  <1>5. t[e] \notin Operators
    <2>1. CASE e = p
      BY <2>1 DEF Linked
    <2>2. CASE e # p
      <3>1. e - 1 \in p..n-1 /\ e - 1 \in p..e-1
        BY <1>3, <2>2
      <3>2. t[e - 1] \notin Named(s)
        BY <1>4, <3>1 DEF Named
      <3>3. t[e - 1] \in Named(s) <=> t[e - 1 + 1] \in Operators
        BY <3>1 DEF Linked
      <3> QED
        BY <3>2, <3>3
    <2> QED
      BY <2>1, <2>2
  <1>6. t[e] \in Named(s)
    BY <1>3, <1>5 DEF Linked, Vocabulary
  <1> QED
    BY <1>3, <1>4, <1>6 DEF IsTerm

\* The "not"s before the end of a term are those of the term, and the operator
\* before it is the token before the term.
LEMMA TermPrefix ==
    ASSUME NEW t, NEW n \in Nat, n = Len(t), NEW s, NEW p \in 1..n,
           NEW e \in p..n, IsTerm(t, s, p, e), p > 1 => t[p - 1] # "not"
    PROVE  /\ Cardinality(NotsBefore(t, e)) = e - p
           /\ OperatorBefore(t, e) = IF p = 1 THEN "or" ELSE t[p - 1]
  <1>1. NotsBefore(t, e) \subseteq p..e-1
    <2>1. ASSUME NEW i \in NotsBefore(t, e), i < p PROVE FALSE
      <3>1. i \in 1..e-1 /\ \A j \in i..e-1 : t[j] = "not"
        BY DEF NotsBefore
      <3>2. p - 1 \in i..e-1 /\ p > 1
        BY <2>1, <3>1
      <3> QED
        BY <3>1, <3>2
    <2> QED
      BY <2>1 DEF NotsBefore
  <1>2. p..e-1 \subseteq NotsBefore(t, e)
    <2>1. ASSUME NEW i \in p..e-1 PROVE i \in NotsBefore(t, e)
      <3>1. i \in 1..e-1 /\ \A j \in i..e-1 : j \in p..e-1
        OBVIOUS
      <3>2. \A j \in i..e-1 : t[j] = "not"
        BY <3>1 DEF IsTerm
      <3> QED
        BY <3>1, <3>2 DEF NotsBefore
    <2> QED
      BY <2>1
  <1>3. Cardinality(p..e-1) = e - p
    <2>1. p \in Int /\ e - 1 \in Int /\ (p > e - 1 <=> e - p = 0) /\ e - 1 - p + 1 = e - p
      OBVIOUS
    <2> QED
      BY <2>1, FS_Interval
  <1>4. Cardinality(NotsBefore(t, e)) = e - p
    BY <1>1, <1>2, <1>3
  <1>5. e - (e - p) - 1 = p - 1 /\ (p - 1 = 0 <=> p = 1)
    OBVIOUS
  <1> QED
    BY <1>4, <1>5 DEF OperatorBefore

Ends(t, s) == {k \in 1..Len(t) : t[k] \in Named(s)}

\* The term that ends at k is true.
Holds(t, s, k) == s[t[k]] <=> Even(Cardinality(NotsBefore(t, k)))

\* No "and" behind k takes back what is true at k.
Stays(t, s, k) ==
    \A j \in Ends(t, s) : j > k /\ OperatorBefore(t, j) = "and" => Holds(t, s, j)

\* Some term from p on is true, stands behind an "or" and is not taken back.
Comes(t, s, p) ==
    \E k \in Ends(t, s) :
        k >= p /\ OperatorBefore(t, k) = "or" /\ Holds(t, s, k) /\ Stays(t, s, k)

\* One term more: what is true so far stays true behind an "and" if the term
\* is, and a true term makes it true behind an "or".
LEMMA OneTerm ==
    ASSUME NEW t, NEW n \in Nat, n = Len(t), NEW s, NEW p \in 1..n,
           NEW e \in p..n, IsTerm(t, s, p, e), p > 1 => t[p - 1] \in Operators,
           NEW v \in BOOLEAN, v <=> (s[t[e]] <=> Even(e - p)),
           NEW op, op = IF p = 1 THEN "or" ELSE t[p - 1]
    PROVE  /\ Stays(t, s, p - 1) <=> ((op = "and" => v) /\ Stays(t, s, e))
           /\ Comes(t, s, p) <=> ((op = "or" /\ v /\ Stays(t, s, e)) \/ Comes(t, s, e + 1))
  <1>1. OperatorBefore(t, e) = op /\ (Holds(t, s, e) <=> v)
    <2>1. p > 1 => t[p - 1] # "not"
      BY DEF Operators
    <2>2. Cardinality(NotsBefore(t, e)) = e - p /\ OperatorBefore(t, e) = op
      BY <2>1, TermPrefix
    <2> QED
      BY <2>2 DEF Holds
  <1>2. e \in Ends(t, s)
    BY DEF Ends, IsTerm
  <1>3. ASSUME NEW k \in Ends(t, s), k >= p PROVE k = e \/ k > e
    <2>1. k \in 1..n /\ t[k] # "not"
      BY DEF Ends, Named
    <2>2. k \notin p..e-1
      BY <2>1 DEF IsTerm
    <2> QED
      BY <1>3, <2>1, <2>2
  <1>4. \A k \in Ends(t, s) : /\ k > p - 1 <=> k >= p
                              /\ k > e <=> k >= e + 1
                              /\ k > e => k > p - 1
                              /\ k = e => k > p - 1
    BY DEF Ends
  <1>5. Stays(t, s, p - 1) <=> ((op = "and" => v) /\ Stays(t, s, e))
    <2>1. ASSUME Stays(t, s, p - 1) PROVE (op = "and" => v) /\ Stays(t, s, e)
      BY <1>1, <1>2, <1>4, <2>1 DEF Stays
    <2>2. ASSUME op = "and" => v, Stays(t, s, e) PROVE Stays(t, s, p - 1)
      <3>1. \A k \in Ends(t, s) : k > p - 1 => k = e \/ k > e
        BY <1>3, <1>4
      <3> QED
        BY <1>1, <2>2, <3>1 DEF Stays
    <2> QED
      BY <2>1, <2>2
  <1>6. Comes(t, s, p) <=> ((op = "or" /\ v /\ Stays(t, s, e)) \/ Comes(t, s, e + 1))
    <2>1. ASSUME Comes(t, s, p) PROVE (op = "or" /\ v /\ Stays(t, s, e)) \/ Comes(t, s, e + 1)
      <3>1. PICK k \in Ends(t, s) : /\ k >= p /\ OperatorBefore(t, k) = "or"
                                    /\ Holds(t, s, k) /\ Stays(t, s, k)
        BY <2>1 DEF Comes
      <3>2. CASE k = e
        BY <1>1, <3>1, <3>2
      <3>3. CASE k > e
        <4>1. k >= e + 1
          BY <1>4, <3>3
        <4> QED
          BY <3>1, <4>1 DEF Comes
      <3> QED
        BY <1>3, <3>1, <3>2, <3>3
    <2>2. ASSUME op = "or" /\ v /\ Stays(t, s, e) PROVE Comes(t, s, p)
      <3>1. e >= p
        OBVIOUS
      <3> QED
        BY <1>1, <1>2, <2>2, <3>1 DEF Comes
    <2>3. ASSUME Comes(t, s, e + 1) PROVE Comes(t, s, p)
      <3>1. \A k \in Ends(t, s) : k >= e + 1 => k >= p
        BY <1>4
      <3> QED
        BY <2>3, <3>1 DEF Comes
    <2> QED
      BY <2>1, <2>2, <2>3
  <1> QED
    BY <1>5, <1>6

\* What the tokens from p on make of the value so far.
ValueFrom(t, s, p, left) == (left /\ Stays(t, s, p - 1)) \/ Comes(t, s, p)

\* What Rests computes behind a term.
RestMeans(t, s, p) ==
    \A left \in BOOLEAN :
        Rests(t, s)[p][left] =
            IF Continued(t, s, p) THEN Bool(ValueFrom(t, s, p, left)) ELSE "raise"

\* At the end of the tokens the value stays as it is.
LEMMA RestAtEnd ==
    ASSUME NEW t, NEW n \in Nat, n = Len(t), NEW s, s \in [DOMAIN s -> BOOLEAN]
    PROVE  RestMeans(t, s, n + 1)
  <1>1. \A k \in Ends(t, s) : ~(k >= n + 1) /\ ~(k > n + 1 - 1)
    BY DEF Ends
  <1>2. Stays(t, s, n + 1 - 1) /\ ~Comes(t, s, n + 1)
    BY <1>1 DEF Stays, Comes
  <1>3. \A left \in BOOLEAN : ValueFrom(t, s, n + 1, left) <=> left
    BY <1>2 DEF ValueFrom
  <1>4. Continued(t, s, n + 1)
    BY DEF Continued
  <1>5. n + 1 \in 1..n+1 /\ n + 1 > n
    OBVIOUS
  <1>6. Rests(t, s)[n + 1] = RestStep(Rests(t, s), t, s, n + 1)
    BY <1>5, RestsDef
  <1>7. \A left \in BOOLEAN : Rests(t, s)[n + 1][left] = Bool(left)
    BY <1>5, <1>6 DEF RestStep
  <1> QED
    BY <1>3, <1>4, <1>7 DEF RestMeans, Bool

\* An operator and a term before that.
LEMMA RestStepMeans ==
    ASSUME NEW t, NEW n \in Nat, n = Len(t), NEW s, s \in [DOMAIN s -> BOOLEAN],
           NEW p \in 1..n, \A q \in p+1..n+1 : RestMeans(t, s, q)
    PROVE  RestMeans(t, s, p)
  <1> DEFINE r == Terms(t, s)[p + 1]
  <1>1. p \in 1..n+1 /\ ~(p > n) /\ p + 1 \in 1..n+1 /\ p # n + 1 /\ p =< n
    OBVIOUS
  <1>2. Rests(t, s)[p] = RestStep(Rests(t, s), t, s, p)
    BY <1>1, RestsDef
  <1>3. TermFound(t, s, p + 1)
    BY <1>1, TermsFound
  <1>4. Continued(t, s, p) <=> t[p] \in Operators /\ Linked(t, s, p + 1)
    BY <1>1 DEF Continued
  <1>5. CASE t[p] \notin Operators \/ ~r.ok
    <2>1. \A left \in BOOLEAN : Rests(t, s)[p][left] = "raise"
      BY <1>1, <1>2, <1>5 DEF RestStep
    <2>2. ~r.ok => ~Linked(t, s, p + 1)
      BY <1>1, <1>3, LinkedTerm DEF TermFound
    <2> QED
      BY <1>4, <1>5, <2>1, <2>2 DEF RestMeans
  <1>6. CASE t[p] \in Operators /\ r.ok
    <2>1. PICK e \in p+1..n : /\ IsTerm(t, s, p + 1, e)
                              /\ r \in [ok : BOOLEAN, value : BOOLEAN, next : {e + 1}]
                              /\ r.value <=> (s[t[e]] <=> Even(e - (p + 1)))
      BY <1>3, <1>6 DEF TermFound
    <2> SUFFICES ASSUME NEW left \in BOOLEAN,
                        NEW v \in BOOLEAN, v = r.value
                 PROVE  Rests(t, s)[p][left] =
                           IF Continued(t, s, p) THEN Bool(ValueFrom(t, s, p, left)) ELSE "raise"
      BY <2>1 DEF RestMeans
    <2>2. Rests(t, s)[p][left] = Rests(t, s)[e + 1][Combine(t[p], left, v)]
      <3>1. r.next = e + 1
        BY <2>1
      <3> QED
        BY <1>1, <1>2, <1>6, <3>1 DEF RestStep
    <2>3. Combine(t[p], left, v) \in BOOLEAN
      BY DEF Combine
    <2>4. e + 1 \in p+1..n+1 /\ e \in 1..n
      OBVIOUS
    <2>5. Rests(t, s)[e + 1][Combine(t[p], left, v)] =
             IF Continued(t, s, e + 1) THEN Bool(ValueFrom(t, s, e + 1, Combine(t[p], left, v)))
             ELSE "raise"
      BY <2>3, <2>4 DEF RestMeans
    <2>6. Continued(t, s, p) <=> Continued(t, s, e + 1)
      BY <1>1, <1>4, <1>6, <2>1, TermThenRest
    <2>7. ValueFrom(t, s, p, left) <=> ValueFrom(t, s, e + 1, Combine(t[p], left, v))
      <3>1. p + 1 \in 1..n /\ p + 1 # 1 /\ p + 1 - 1 = p /\ e + 1 - 1 = e
        OBVIOUS
      <3>2. /\ Stays(t, s, p) <=> ((t[p] = "and" => v) /\ Stays(t, s, e))
            /\ Comes(t, s, p + 1) <=> ((t[p] = "or" /\ v /\ Stays(t, s, e)) \/ Comes(t, s, e + 1))
        <4>1. v <=> (s[t[e]] <=> Even(e - (p + 1)))
          BY <2>1
        <4> HIDE DEF r
        <4> DEFINE m == p + 1
        <4>2. /\ m \in 1..n /\ e \in m..n /\ m > 1 => t[m - 1] \in Operators
              /\ t[p] = IF m = 1 THEN "or" ELSE t[m - 1]
              /\ m - 1 = p /\ m = p + 1
          BY <1>6, <3>1
        <4>3. v <=> (s[t[e]] <=> Even(e - m))
          BY <4>1
        <4>4. IsTerm(t, s, m, e)
          BY <2>1
        <4> HIDE DEF m
        <4>5. /\ Stays(t, s, m - 1) <=> ((t[p] = "and" => v) /\ Stays(t, s, e))
              /\ Comes(t, s, m) <=> ((t[p] = "or" /\ v /\ Stays(t, s, e)) \/ Comes(t, s, e + 1))
          BY <4>2, <4>3, <4>4, OneTerm
        <4> QED
          BY <4>2, <4>5
      <3>3. \A k \in Ends(t, s) : (k > p - 1 <=> k > p) /\ (k >= p <=> k >= p + 1)
        BY <1>6 DEF Ends, Named
      <3>4. Stays(t, s, p - 1) <=> Stays(t, s, p)
        BY <3>3 DEF Stays
      <3>5. Comes(t, s, p) <=> Comes(t, s, p + 1)
        BY <3>3 DEF Comes
      <3>6. CASE t[p] = "and"
        BY <3>1, <3>2, <3>4, <3>5, <3>6 DEF ValueFrom, Combine
      <3>7. CASE t[p] = "or"
        BY <3>1, <3>2, <3>4, <3>5, <3>7 DEF ValueFrom, Combine
      <3> QED
        BY <1>6, <3>6, <3>7 DEF Operators
    <2> QED
      BY <2>2, <2>5, <2>6, <2>7 DEF Bool
  <1> QED
    BY <1>5, <1>6

\* What Rests computes from every position on.
LEMMA RestsMeans ==
    ASSUME NEW t, NEW n \in Nat, n = Len(t), NEW s, s \in [DOMAIN s -> BOOLEAN]
    PROVE  \A p \in 1..n+1 : RestMeans(t, s, p)
  <1> DEFINE S == {m \in Nat : m =< n => RestMeans(t, s, n + 1 - m)}
  <1>1. ASSUME NEW m \in Nat, \A i \in 0..m-1 : i \in S
        PROVE  m \in S
    <2> SUFFICES ASSUME m =< n PROVE RestMeans(t, s, n + 1 - m)
      OBVIOUS
    <2>1. CASE m = 0
      BY <2>1, RestAtEnd
    <2>2. CASE m # 0
      <3>1. n + 1 - m \in 1..n
        BY <2>2
      <3>2. ASSUME NEW q \in n+1-m+1..n+1 PROVE RestMeans(t, s, q)
        <4>1. n + 1 - q \in 0..m-1 /\ n + 1 - q =< n /\ n + 1 - (n + 1 - q) = q
          BY <3>1
        <4>2. n + 1 - q \in S
          BY <1>1, <4>1
        <4> QED
          BY <4>1, <4>2
      <3> HIDE DEF S
      <3> QED
        BY <3>1, <3>2, RestStepMeans
    <2> QED
      BY <2>1, <2>2
  <1>2. \A m \in Nat : m \in S
    <2> HIDE DEF S
    <2> QED
      BY <1>1, SetInduction
  <1>3. ASSUME NEW p \in 1..n+1 PROVE RestMeans(t, s, p)
    <2>1. n + 1 - p \in S /\ n + 1 - p =< n /\ n + 1 - (n + 1 - p) = p
      BY <1>2
    <2> QED
      BY <2>1
  <1> QED
    BY <1>3

\* _eval_condition raises exactly if the tokens do not fit together, and says
\* otherwise whether some term comes true and stays so.
LEMMA ConditionMeans ==
    ASSUME NEW t, NEW n \in Nat, n = Len(t), NEW s, s \in [DOMAIN s -> BOOLEAN]
    PROVE  EvalCondition(t, s) = IF Linked(t, s, 1) THEN Bool(Comes(t, s, 1)) ELSE "raise"
  <1> DEFINE r == Terms(t, s)[1]
  <1>1. 1 \in 1..n+1
    OBVIOUS
  <1>2. TermFound(t, s, 1)
    BY <1>1, TermsFound
  <1>3. CASE ~r.ok
    <2>1. ~Linked(t, s, 1)
      BY <1>1, <1>2, <1>3, LinkedTerm DEF TermFound
    <2> QED
      BY <1>3, <2>1 DEF EvalCondition
  <1>4. CASE r.ok
    <2>1. PICK e \in 1..n : /\ IsTerm(t, s, 1, e)
                            /\ r \in [ok : BOOLEAN, value : BOOLEAN, next : {e + 1}]
                            /\ r.value <=> (s[t[e]] <=> Even(e - 1))
      BY <1>2, <1>4 DEF TermFound
    <2> SUFFICES ASSUME NEW v \in BOOLEAN, v = r.value
                 PROVE  EvalCondition(t, s) =
                           IF Linked(t, s, 1) THEN Bool(Comes(t, s, 1)) ELSE "raise"
      BY <2>1
    <2>2. EvalCondition(t, s) = Rests(t, s)[e + 1][v]
      <3>1. r.next = e + 1
        BY <2>1
      <3> QED
        BY <1>4, <3>1 DEF EvalCondition
    <2>3. RestMeans(t, s, e + 1)
      BY RestsMeans
    <2>4. Linked(t, s, 1) <=> Continued(t, s, e + 1)
      BY <1>1, <2>1, TermThenRest
    <2>5. v <=> (s[t[e]] <=> Even(e - 1))
      BY <2>1
    <2>6. Comes(t, s, 1) <=> ((v /\ Stays(t, s, e)) \/ Comes(t, s, e + 1))
      <3>1. 1 \in 1..n /\ ~(1 > 1)
        OBVIOUS
      <3> HIDE DEF r
      <3>2. Comes(t, s, 1) <=> (("or" = "or" /\ v /\ Stays(t, s, e)) \/ Comes(t, s, e + 1))
        BY <2>1, <2>5, <3>1, OneTerm
      <3> QED
        BY <3>2
    <2>7. e + 1 - 1 = e
      OBVIOUS
    <2> QED
      BY <2>2, <2>3, <2>4, <2>6, <2>7 DEF RestMeans, ValueFrom, Bool
  <1> QED
    BY <1>3, <1>4

-----------------------------------------------------------------------------
(* Selections: _field_matches and _selection_matches.                      *)

\* Until is the first outcome that is not the neutral one.
LEMMA UntilFirst ==
    ASSUME NEW n \in Nat, NEW o, DOMAIN o = 1..n, Len(o) = n, NEW neutral
    PROVE  \/ Until(o, neutral) = neutral /\ \A i \in 1..n : o[i] = neutral
           \/ \E i \in 1..n : Until(o, neutral) = o[i] /\ o[i] # neutral
  <1> DEFINE I == {i \in 1..n : o[i] # neutral}
  <1>1. SelectInSeq(o, LAMBDA x : x # neutral) = IF I # {} THEN Min(I) ELSE 0
    BY DEF SelectInSeq
  <1>2. CASE I = {}
    BY <1>1, <1>2 DEF Until
  <1>3. CASE I # {}
    <2>1. Min(I) \in I
      <3> SUFFICES ASSUME NEW J, J = I PROVE Min(J) \in J
        OBVIOUS
      <3>1. J \subseteq Nat /\ J # {}
        BY <1>3
      <3> HIDE DEF I
      <3>2. \E x \in J : \A y \in J : x =< y
        BY <3>1, Least
      <3> QED
        BY <3>2 DEF Min
    <2>2. Min(I) # 0 /\ Min(I) \in 1..n
      BY <2>1
    <2>3. Until(o, neutral) = o[Min(I)]
      BY <1>1, <1>3, <2>2 DEF Until
    <2> QED
      BY <2>1, <2>3
  <1> QED
    BY <1>2, <1>3

Verdicts == {"yes", "no", "raise"}

\* One comparison says what Fits says, unless it raises.
LEMMA CompareFits ==
    ASSUME NEW actual, NEW modifier, NEW v
    PROVE  /\ Compare(actual, modifier, v) \in Verdicts
           /\ Compare(actual, modifier, v) = "yes" => Fits(actual, modifier, v)
           /\ Compare(actual, modifier, v) = "no" => ~Fits(actual, modifier, v)
  <1> DEFINE c == Compare(actual, modifier, v)
  <1>1. CASE actual = Null
    <2>1. c = "no" /\ ~Fits(actual, modifier, v)
      BY <1>1 DEF Compare, Fits
    <2> QED
      BY <2>1 DEF Verdicts
  <1>2. CASE actual # Null /\ modifier = ""
    <2>1. c = Bool(actual = v) /\ (Fits(actual, modifier, v) <=> actual = v)
      BY <1>2 DEF Compare, Fits, TextModifiers
    <2> QED
      BY <2>1 DEF Bool, Verdicts
  <1>3. CASE actual # Null /\ modifier \in TextModifiers
    <2> DEFINE B == actual.str /\ v.str /\ <<modifier, actual.atom, v.atom>> \in Related
    <2>1. modifier # "" /\ modifier \notin {"gte", "ge", "lte", "le"}
      BY <1>3 DEF TextModifiers
    <2>2. c = Bool(B)
      BY <1>3, <2>1 DEF Compare
    <2>3. Fits(actual, modifier, v) <=> B
      BY <1>3, <2>1 DEF Fits
    <2> HIDE DEF B, c
    <2>4. c \in Verdicts /\ (c = "yes" => B) /\ (c = "no" => ~B)
      BY <2>2 DEF Bool, Verdicts
    <2> QED
      BY <2>3, <2>4 DEF c
  <1>4. CASE actual # Null /\ modifier \in {"gte", "ge"}
    <2> DEFINE B == actual.num >= v.num
    <2>1. modifier # "" /\ modifier \notin TextModifiers \cup {"lte", "le"}
      BY <1>4 DEF TextModifiers
    <2>2. c = IF ~actual.numeric THEN "no" ELSE IF v.numeric THEN Bool(B) ELSE "raise"
      BY <1>4, <2>1 DEF Compare
    <2>3. Fits(actual, modifier, v) <=> (actual.numeric /\ v.numeric /\ B)
      BY <1>4, <2>1 DEF Fits
    <2> HIDE DEF B, c
    <2>4. /\ c \in Verdicts
          /\ c = "yes" => (actual.numeric /\ v.numeric /\ B)
          /\ c = "no" => ~(actual.numeric /\ v.numeric /\ B)
      BY <2>2 DEF Bool, Verdicts
    <2> QED
      BY <2>3, <2>4 DEF c
  <1>5. CASE actual # Null /\ modifier \in {"lte", "le"}
    <2> DEFINE B == actual.num =< v.num
    <2>1. modifier # "" /\ modifier \notin TextModifiers \cup {"gte", "ge"}
      BY <1>5 DEF TextModifiers
    <2>2. c = IF ~actual.numeric THEN "no" ELSE IF v.numeric THEN Bool(B) ELSE "raise"
      BY <1>5, <2>1 DEF Compare
    <2>3. Fits(actual, modifier, v) <=> (actual.numeric /\ v.numeric /\ B)
      BY <1>5, <2>1 DEF Fits
    <2> HIDE DEF B, c
    <2>4. /\ c \in Verdicts
          /\ c = "yes" => (actual.numeric /\ v.numeric /\ B)
          /\ c = "no" => ~(actual.numeric /\ v.numeric /\ B)
      BY <2>2 DEF Bool, Verdicts
    <2> QED
      BY <2>3, <2>4 DEF c
  <1>6. CASE actual # Null /\ modifier \notin {"", "gte", "ge", "lte", "le"} \cup TextModifiers
    <2>1. c = "raise"
      BY <1>6 DEF Compare
    <2> QED
      BY <2>1 DEF Verdicts
  <1> QED
    BY <1>1, <1>2, <1>3, <1>4, <1>5, <1>6

\* An entry accepts the event if one of its values fits, unless it raises.
LEMMA FieldFits ==
    ASSUME NEW event, NEW entry, Len(entry.values) \in Nat,
           NEW c, c = FieldMatches(event, entry),
           NEW fits, fits = \E j \in 1..Len(entry.values) :
                               Fits(Lookup(event, entry.field), entry.modifier, entry.values[j])
    PROVE  c \in Verdicts /\ (c = "yes" => fits) /\ (c = "no" => ~fits)
  <1> SUFFICES ASSUME NEW n \in Nat, n = Len(entry.values)
               PROVE  c \in Verdicts /\ (c = "yes" => fits) /\ (c = "no" => ~fits)
    OBVIOUS
  <1> DEFINE o == [i \in 1..n |->
                      Compare(Lookup(event, entry.field), entry.modifier, entry.values[i])]
  <1>1. DOMAIN o = 1..n /\ Len(o) = n
    OBVIOUS
  <1>2. c = Until(o, "no")
    BY DEF FieldMatches, AnyOf
  <1>3. \A i \in 1..n :
           /\ o[i] \in Verdicts
           /\ o[i] = "yes" => Fits(Lookup(event, entry.field), entry.modifier, entry.values[i])
           /\ o[i] = "no" => ~Fits(Lookup(event, entry.field), entry.modifier, entry.values[i])
    BY CompareFits
  <1> HIDE DEF o
  <1>4. \/ c = "no" /\ \A i \in 1..n : o[i] = "no"
        \/ \E i \in 1..n : c = o[i] /\ o[i] # "no"
    BY <1>1, <1>2, UntilFirst
  <1> QED
    BY <1>3, <1>4 DEF Verdicts

\* A selection holds if each of its entries accepts the event, unless it raises.
LEMMA SelectionSelects ==
    ASSUME NEW event, NEW selection, Len(selection) \in Nat,
           \A i \in 1..Len(selection) : Len(selection[i].values) \in Nat,
           NEW c, c = SelectionMatches(selection, event)
    PROVE  /\ c \in Verdicts
           /\ c = "yes" => Selects(selection, event)
           /\ c = "no" => ~Selects(selection, event)
  <1> SUFFICES ASSUME NEW n \in Nat, n = Len(selection)
               PROVE  /\ c \in Verdicts
                      /\ c = "yes" => Selects(selection, event)
                      /\ c = "no" => ~Selects(selection, event)
    OBVIOUS
  <1> DEFINE o == [i \in 1..n |-> FieldMatches(event, selection[i])]
             fits(i) == \E j \in 1..Len(selection[i].values) :
                           Fits(Lookup(event, selection[i].field), selection[i].modifier,
                                selection[i].values[j])
  <1>1. DOMAIN o = 1..n /\ Len(o) = n
    OBVIOUS
  <1>2. c = Until(o, "yes")
    BY DEF SelectionMatches
  <1>3. ASSUME NEW i \in 1..n
        PROVE  o[i] \in Verdicts /\ (o[i] = "yes" => fits(i)) /\ (o[i] = "no" => ~fits(i))
    BY FieldFits
  <1>4. Selects(selection, event) <=> \A i \in 1..n : fits(i)
    BY DEF Selects
  <1> HIDE DEF o, fits
  <1>5. \/ c = "yes" /\ \A i \in 1..n : o[i] = "yes"
        \/ \E i \in 1..n : c = o[i] /\ o[i] # "yes"
    BY <1>1, <1>2, UntilFirst
  <1> QED
    BY <1>3, <1>4, <1>5 DEF Verdicts

\* No entry of a sound rule raises.
LEMMA SoundSelection ==
    ASSUME NEW rule, Sound(rule), IsRule(rule), NEW event, NEW x \in DOMAIN rule.selections
    PROVE  SelectionMatches(rule.selections[x], event) # "raise"
  <1> SUFFICES ASSUME NEW selection, selection = rule.selections[x],
                      NEW n \in Nat, n = Len(selection)
               PROVE  SelectionMatches(selection, event) # "raise"
    BY DEF IsRule
  <1>1. ASSUME NEW i \in 1..n
        PROVE  FieldMatches(event, selection[i]) # "raise"
    <2> SUFFICES ASSUME NEW entry, entry = selection[i],
                        NEW m \in Nat, m = Len(entry.values)
                 PROVE  FieldMatches(event, entry) # "raise"
      BY DEF IsRule
    <2>1. /\ entry.modifier \in Modifiers
          /\ entry.modifier \in Modifiers \ (TextModifiers \cup {""}) =>
                \A j \in 1..m : entry.values[j].numeric
      <3>1. \A k \in 1..Len(rule.selections[x]) :
               /\ rule.selections[x][k].modifier \in Modifiers
               /\ rule.selections[x][k].modifier \in Modifiers \ (TextModifiers \cup {""}) =>
                     \A j \in 1..Len(rule.selections[x][k].values) :
                        rule.selections[x][k].values[j].numeric
        BY DEF Sound
      <3>2. i \in 1..Len(rule.selections[x]) /\ rule.selections[x][i] = entry
        OBVIOUS
      <3> HIDE DEF Sound
      <3> QED
        BY <3>1, <3>2
    <2> DEFINE o == [j \in 1..m |->
                        Compare(Lookup(event, entry.field), entry.modifier, entry.values[j])]
    <2>2. ASSUME NEW j \in 1..m, NEW actual, NEW v, v = entry.values[j]
          PROVE  Compare(actual, entry.modifier, v) # "raise"
      <3> SUFFICES ASSUME NEW modifier, modifier = entry.modifier
                   PROVE  Compare(actual, modifier, v) # "raise"
        OBVIOUS
      <3>1. CASE actual = Null \/ modifier = "" \/ modifier \in TextModifiers
        <4>1. \/ Compare(actual, modifier, v) = "no"
              \/ \E b : Compare(actual, modifier, v) = Bool(b)
          BY <3>1 DEF Compare, TextModifiers
        <4> QED
          BY <4>1 DEF Bool
      <3>2. CASE actual # Null /\ modifier \in {"gte", "ge"}
        <4>1. modifier \in Modifiers \ (TextModifiers \cup {""})
          BY <3>2 DEF Modifiers, TextModifiers
        <4>2. v.numeric
          BY <2>1, <2>2, <4>1
        <4>3. \/ Compare(actual, modifier, v) = "no"
              \/ \E b : Compare(actual, modifier, v) = Bool(b)
          BY <3>2, <4>1, <4>2 DEF Compare
        <4> QED
          BY <4>3 DEF Bool
      <3>3. CASE actual # Null /\ modifier \in {"lte", "le"}
        <4>1. modifier \in Modifiers \ (TextModifiers \cup {""}) /\ modifier \notin {"gte", "ge"}
          BY <3>3 DEF Modifiers, TextModifiers
        <4>2. v.numeric
          BY <2>1, <2>2, <4>1
        <4>3. \/ Compare(actual, modifier, v) = "no"
              \/ \E b : Compare(actual, modifier, v) = Bool(b)
          BY <3>3, <4>1, <4>2 DEF Compare
        <4> QED
          BY <4>3 DEF Bool
      <3> QED
        BY <2>1, <3>1, <3>2, <3>3 DEF Modifiers
    <2>3. DOMAIN o = 1..m /\ Len(o) = m /\ \A j \in 1..m : o[j] # "raise"
      <3>1. ASSUME NEW j \in 1..m PROVE o[j] # "raise"
        <4>1. Compare(Lookup(event, entry.field), entry.modifier, entry.values[j]) # "raise"
          BY <2>2
        <4> QED
          BY <4>1
      <3>2. DOMAIN o = 1..m /\ Len(o) = m
        OBVIOUS
      <3> HIDE DEF o
      <3> QED
        BY <3>1, <3>2
    <2>4. FieldMatches(event, entry) = Until(o, "no")
      BY DEF FieldMatches, AnyOf
    <2> HIDE DEF o
    <2> QED
      BY <2>3, <2>4, UntilFirst
  <1> DEFINE o == [i \in 1..n |-> FieldMatches(event, selection[i])]
  <1>2. DOMAIN o = 1..n /\ Len(o) = n /\ \A i \in 1..n : o[i] # "raise"
    BY <1>1
  <1>3. SelectionMatches(selection, event) = Until(o, "yes")
    BY DEF SelectionMatches
  <1> HIDE DEF o
  <1> QED
    BY <1>2, <1>3, UntilFirst

-----------------------------------------------------------------------------
(* Rules: SigmaMatcher.match.                                              *)

\* Match raises for every rule whose condition does not fit together; where it
\* does not raise it says yes exactly if the rule, by its meaning, holds of the
\* event; and a sound rule never makes it raise.
THEOREM MatchMeans ==
    ASSUME NEW rule, IsRule(rule), NEW event
    PROVE  /\ Match(rule, event) \in Verdicts
           /\ Match(rule, event) # "raise" => WellFormed(rule)
           /\ Match(rule, event) # "raise" => (Match(rule, event) = "yes" <=> Means(rule, event))
           /\ Sound(rule) => Match(rule, event) # "raise"
  <1> DEFINE sel == [x \in DOMAIN rule.selections |-> SelectionMatches(rule.selections[x], event)]
             s == [x \in DOMAIN sel |-> sel[x] = "yes"]
             t == Tokens(rule)
             n == Len(rule.condition)
  <1>1. n \in Nat /\ n = Len(t)
    BY DEF IsRule, Tokens
  <1>2. \A x \in DOMAIN rule.selections :
           /\ sel[x] \in Verdicts
           /\ sel[x] = "yes" => Selects(rule.selections[x], event)
           /\ sel[x] = "no" => ~Selects(rule.selections[x], event)
    BY SelectionSelects DEF IsRule
  <1>3. DOMAIN s = DOMAIN rule.selections /\ s \in [DOMAIN s -> BOOLEAN]
    OBVIOUS
  <1>4. Match(rule, event) = IF \E x \in DOMAIN rule.selections : sel[x] = "raise" THEN "raise"
                             ELSE EvalCondition(t, s)
    BY DEF Match
  <1>5. EvalCondition(t, s) = IF Linked(t, s, 1) THEN Bool(Comes(t, s, 1)) ELSE "raise"
    <2> HIDE DEF s, t, n
    <2> QED
      BY <1>1, <1>3, ConditionMeans
  <1>6. Named(s) = Names(rule)
    BY <1>3 DEF Named, Names
  <1>7. Linked(t, s, 1) <=> WellFormed(rule)
    <2> SUFFICES ASSUME NEW u, u = s PROVE Linked(t, u, 1) <=> WellFormed(rule)
      OBVIOUS
    <2>1. Named(u) = Names(rule)
      BY <1>6
    <2>2. 1 =< Len(t) <=> Len(t) > 0
      BY <1>1
    <2> QED
      BY <2>1, <2>2 DEF Linked, WellFormed, Vocabulary
  <1>8. ASSUME \A x \in DOMAIN rule.selections : sel[x] # "raise"
        PROVE  Comes(t, s, 1) <=> Means(rule, event)
    <2>1. \A x \in DOMAIN rule.selections : s[x] <=> Selects(rule.selections[x], event)
      BY <1>2, <1>8 DEF Verdicts
    <2> SUFFICES ASSUME NEW u, u = s, NEW v, v = t
                 PROVE  Comes(v, u, 1) <=> Means(rule, event)
      OBVIOUS
    <2> HIDE DEF s, t
    <2>2. \A k \in Ends(v, u) : /\ k >= 1
                                /\ Holds(v, u, k) <=> TermHolds(rule, event, v, k)
      <3>1. \A k \in Ends(v, u) : v[k] \in DOMAIN rule.selections
        BY <1>3 DEF Ends, Named
      <3> QED
        BY <1>1, <2>1, <3>1 DEF Ends, Holds, TermHolds, Even
    <2>3. Ends(v, u) = {k \in 1..Len(v) : v[k] \in Names(rule)}
      BY <1>6 DEF Ends
    <2> DEFINE E == Ends(v, u)
    <2>4. Means(rule, event) <=>
             \E k \in E : /\ OperatorBefore(v, k) = "or"
                          /\ TermHolds(rule, event, v, k)
                          /\ \A j \in E : (j > k /\ OperatorBefore(v, j) = "and") =>
                                              TermHolds(rule, event, v, j)
      BY <2>3 DEF Means, t
    <2> QED
      BY <2>2, <2>4 DEF Comes, Stays
  <1>9. Sound(rule) => WellFormed(rule) /\ \A x \in DOMAIN rule.selections : sel[x] # "raise"
    BY SoundSelection DEF Sound
  <1> HIDE DEF sel, s, t, n
  <1> QED
    BY <1>4, <1>5, <1>7, <1>8, <1>9 DEF Bool, Verdicts

-----------------------------------------------------------------------------
(* The anomaly model: IsAnomaly follows anomaly.py, StandsOut is what the  *)
(* detector and the seeder are held against.                               *)

\* The range of the decisions is never empty, so the division in score is
\* safe, even when all training events look alike.
LEMMA SpanPositive ==
    ASSUME NEW fit \in Trained
    PROVE  /\ Bottom(fit) \in Int /\ Top(fit) \in Int
           /\ Span(fit) \in Nat \ {0}
           /\ Span(fit) = Top(fit) - Bottom(fit)
  <1>1. fit[1] \in Int /\ fit[2] \in Int /\ fit[1] =< fit[2]
    BY DEF Trained
  <1>2. /\ Bottom(fit) \in Int /\ Top(fit) \in Int
        /\ Top(fit) - Bottom(fit) \in Nat \ {0}
    BY <1>1 DEF Bottom, Top, One
  <1> QED
    BY <1>2 DEF Span

\* A threshold times a range, compared with the ends of the scale.
LEMMA Scaled ==
    ASSUME NEW s \in Nat \ {0}, NEW percent \in Int
    PROVE  /\ percent * s \in Int
           /\ percent =< 0 => percent * s =< 0
           /\ percent > 0 => percent * s > 0
           /\ percent =< 100 => percent * s =< 100 * s
           /\ percent > 100 => percent * s > 100 * s
  <1>1. percent * s \in Int
    OBVIOUS
  <1>2. percent =< 0 => percent * s =< 0
    OBVIOUS
  <1>3. percent > 0 => percent * s > 0
    OBVIOUS
  <1>4. percent =< 100 => percent * s =< 100 * s
    OBVIOUS
  <1>5. percent > 100 => percent * s > 100 * s
    OBVIOUS
  <1> QED
    BY <1>1, <1>2, <1>3, <1>4, <1>5

\* A score is between 0 and 1 whatever the forest says of an event, one far
\* outside the training events included.
THEOREM ScoreInRange ==
    ASSUME NEW fit \in Trained, NEW df \in Int
    PROVE  Norm(fit, df) \in 0..Span(fit)
  BY SpanPositive DEF Norm, Clamp

\* The verdict of Score: an event raises an anomaly exactly if its decision is
\* as far below the highest one of the training events as the threshold says;
\* turning the scale round and clamping it change no verdict.
THEOREM AnomalyMeans ==
    ASSUME NEW fit \in Trained, NEW df \in Int, NEW percent \in Int
    PROVE  IsAnomaly(fit, df, percent) <=> StandsOut(fit, df, percent)
  <1> SUFFICES ASSUME NEW s \in Nat \ {0}, s = Span(fit),
                      NEW d \in Int, d = Top(fit) - df,
                      NEW m \in Int, m = percent * s
               PROVE  IsAnomaly(fit, df, percent) <=> StandsOut(fit, df, percent)
    BY SpanPositive, Scaled
  <1>1. s - (df - Bottom(fit)) = d
    BY SpanPositive
  <1>2. IsAnomaly(fit, df, percent) <=> 100 * Clamp(d, 0, s) >= m
    BY <1>1 DEF IsAnomaly, Norm
  <1>3. StandsOut(fit, df, percent) <=> (percent =< 0 \/ (percent =< 100 /\ 100 * d >= m))
    BY DEF StandsOut
  <1>4. /\ percent =< 0 => m =< 0
        /\ percent > 0 => m > 0
        /\ percent =< 100 => m =< 100 * s
        /\ percent > 100 => m > 100 * s
    BY Scaled
  <1>5. 100 * Clamp(d, 0, s) >= m <=> (percent =< 0 \/ (percent =< 100 /\ 100 * d >= m))
    BY <1>4 DEF Clamp
  <1> QED
    BY <1>2, <1>3, <1>5

-----------------------------------------------------------------------------
(* The detector.                                                           *)

Alerts == [event : Nat, by : Nat]

Typed ==
    /\ rules \in Directories
    /\ input \in Seq(Lines(rules))
    /\ turn \in Nat \ {0}
    /\ buffer \in Seq(Alerts) /\ out \in Seq(Alerts)

\* Alerts come in the order of the events and for one event in the order of
\* the rules, the model last; so none comes twice.
InOrder == \A k, m \in 1..Len(Written) : k < m => Before(Written[k], Written[m])

\* Every alert so far comes before the next one that can be raised.
Behind == \A k \in 1..Len(Written) : Before(Written[k], [event |-> Len(input), by |-> turn])

Idle == pc \in {"load", "read"} => buffer = <<>>

IInv == Typed /\ InOrder /\ Behind /\ Idle

-----------------------------------------------------------------------------
(* Sequences.                                                              *)

\* An alert that goes from the buffer into the pipe stays where it is.
LEMMA DrainMoves ==
    ASSUME NEW S, NEW p \in Seq(S), NEW b \in Seq(S), b # <<>>
    PROVE  /\ Append(p, Head(b)) \in Seq(S) /\ Tail(b) \in Seq(S)
           /\ Append(p, Head(b)) \o Tail(b) = p \o b
  OBVIOUS

\* An alert that goes into the buffer comes last.
LEMMA EmitAppends ==
    ASSUME NEW S, NEW p \in Seq(S), NEW b \in Seq(S), NEW a \in S
    PROVE  /\ Append(b, a) \in Seq(S)
           /\ p \o Append(b, a) = Append(p \o b, a)
           /\ p \o b \in Seq(S)
  OBVIOUS

-----------------------------------------------------------------------------
(* The inductive invariant.                                                *)

\* There is no alert at the start.
LEMMA InitIInv == Init => IInv
  <1> SUFFICES ASSUME Init PROVE IInv
    OBVIOUS
  <1>1. /\ rules \in Directories /\ input = <<>> /\ turn = 1
        /\ buffer = <<>> /\ out = <<>>
    BY DEF Init
  <1>2. Len(Written) = 0
    BY <1>1 DEF Written
  <1> QED
    BY <1>1, <1>2 DEF IInv, Typed, InOrder, Behind, Idle

\* A verdict adds at most one alert, and the turn passes on.
LEMMA EmitKeeps ==
    ASSUME IInv, pc = "match", NEW verdict, Emit(turn, verdict),
           UNCHANGED <<rules, input, out>>
    PROVE  IInv'
  <1>1. /\ rules \in Directories /\ input \in Seq(Lines(rules)) /\ Len(input) \in Nat
        /\ turn \in Nat \ {0} /\ buffer \in Seq(Alerts) /\ out \in Seq(Alerts)
    BY DEF IInv, Typed
  <1>2. Idle'
    BY DEF Emit, Raise, Idle
  <1>3. Written \in Seq(Alerts) /\ Len(Written) \in Nat
    BY <1>1 DEF Written
  <1>4. \A k \in 1..Len(Written) : Written[k] \in Alerts
    BY <1>3
  <1>5. CASE UNCHANGED buffer /\ (UNCHANGED turn \/ turn' = turn + 1)
    <2>1. Written' = Written
      BY <1>5 DEF Written
    <2>2. Typed'
      BY <1>1, <1>5 DEF Typed
    <2>3. Behind'
      BY <1>1, <1>4, <1>5, <2>1 DEF IInv, Behind, Before, Alerts
    <2>4. InOrder'
      BY <2>1 DEF IInv, InOrder
    <2> QED
      BY <1>2, <2>2, <2>3, <2>4 DEF IInv
  <1>6. CASE buffer' = Append(buffer, Alert(turn)) /\ turn' = turn + 1
    <2> SUFFICES ASSUME NEW a, a = Alert(turn), NEW n \in Nat, n = Len(Written)
                 PROVE  IInv'
      BY <1>3
    <2>1. a \in Alerts /\ a.event = Len(input) /\ a.by = turn
      BY <1>1 DEF Alert, Alerts
    <2>2. buffer' \in Seq(Alerts) /\ Written' = Append(Written, a)
      BY <1>1, <1>6, <2>1, EmitAppends DEF Written
    <2>3. /\ Len(Written') = n + 1
          /\ \A k \in 1..n : Written'[k] = Written[k]
          /\ Written'[n + 1] = a
      BY <1>3, <2>1, <2>2, AppendFacts
    <2>4. \A k \in 1..n+1 : k \in 1..n \/ k = n + 1
      OBVIOUS
    <2>5. \A k \in 1..n : Before(Written[k], a)
      BY <2>1 DEF IInv, Behind, Before
    <2>6. Typed'
      BY <1>1, <1>6, <2>2 DEF Typed
    <2>7. InOrder'
      <3>1. ASSUME NEW k \in 1..n+1, NEW m \in 1..n+1, k < m
            PROVE  Before(Written'[k], Written'[m])
        <4>1. k \in 1..n
          BY <3>1
        <4>2. CASE m \in 1..n
          BY <2>3, <3>1, <4>1, <4>2 DEF IInv, InOrder
        <4>3. CASE m = n + 1
          BY <2>3, <2>5, <4>1, <4>3
        <4> QED
          BY <2>4, <4>2, <4>3
      <3> QED
        BY <2>3, <3>1 DEF InOrder, Before
    <2>8. Behind'
      <3>1. ASSUME NEW k \in 1..n+1
            PROVE  Before(Written'[k], [event |-> Len(input), by |-> turn + 1])
        <4>1. CASE k \in 1..n
          <5>1. Written'[k] \in Alerts /\ Before(Written'[k], a)
            BY <1>4, <2>3, <2>5, <4>1
          <5> QED
            BY <1>1, <2>1, <5>1 DEF Before, Alerts
        <4>2. CASE k = n + 1
          BY <1>1, <2>1, <2>3, <4>2 DEF Before
        <4> QED
          BY <2>4, <4>1, <4>2
      <3> QED
        BY <1>6, <2>3, <3>1 DEF Behind, Before
    <2> QED
      BY <1>2, <2>6, <2>7, <2>8 DEF IInv
  <1> QED
    BY <1>5, <1>6 DEF Emit

\* The pipe takes the oldest alert of the buffer.
LEMMA DrainKeeps ==
    ASSUME IInv, Drain
    PROVE  IInv'
  <1>1. /\ UNCHANGED <<rules, input, turn, pc>> /\ buffer # <<>>
        /\ out' = Append(out, Head(buffer)) /\ buffer' = Tail(buffer)
        /\ buffer \in Seq(Alerts) /\ out \in Seq(Alerts)
    BY DEF Drain, MustDrain, IInv, Typed
  <1>2. out' \in Seq(Alerts) /\ buffer' \in Seq(Alerts) /\ Written' = Written
    BY <1>1, DrainMoves DEF Written
  <1>3. Typed'
    BY <1>1, <1>2 DEF IInv, Typed
  <1>4. InOrder' /\ Behind'
    BY <1>1, <1>2 DEF IInv, InOrder, Behind
  <1>5. Idle'
    BY <1>1 DEF IInv, Idle
  <1> QED
    BY <1>3, <1>4, <1>5 DEF IInv

\* The next line is later than every alert.
LEMMA ReadKeeps ==
    ASSUME IInv, ReadLine
    PROVE  IInv'
  <1>1. PICK l \in Lines(rules) : input' = Append(input, l)
    BY DEF ReadLine
  <1>2. /\ turn' = 1 /\ UNCHANGED <<rules, buffer, out>> /\ pc = "read"
        /\ input \in Seq(Lines(rules)) /\ turn \in Nat
        /\ buffer \in Seq(Alerts) /\ out \in Seq(Alerts)
    BY DEF ReadLine, IInv, Typed
  <1>3. input' \in Seq(Lines(rules)) /\ Len(input') = Len(input) + 1 /\ Len(input) \in Nat
    BY <1>1, <1>2, AppendFacts
  <1>4. Written' = Written /\ \A k \in 1..Len(Written) : Written[k] \in Alerts
    BY <1>2 DEF Written
  <1>5. Behind'
    <2>1. ASSUME NEW k \in 1..Len(Written)
          PROVE  Written[k].event < Len(input) + 1
      <3>1. Written[k].event \in Nat
        BY <1>4 DEF Alerts
      <3>2. Written[k].event =< Len(input)
        BY <1>3, <3>1 DEF IInv, Behind, Before
      <3> QED
        BY <1>3, <3>1, <3>2
    <2> QED
      BY <1>3, <1>4, <2>1 DEF Behind, Before
  <1>6. Typed'
    BY <1>2, <1>3 DEF IInv, Typed
  <1>7. InOrder' /\ Idle'
    BY <1>2, <1>4 DEF IInv, InOrder, Idle
  <1> QED
    BY <1>5, <1>6, <1>7 DEF IInv

\* The other steps raise no alert, and go back to stdin with an empty buffer.
LEMMA QuietKeeps ==
    ASSUME IInv,
           \/ Load \/ EndOfInput \/ ReadFails \/ StartFlush \/ Flushed \/ BrokenPipe
           \/ Exit \/ Kill \/ TakeAlert \/ ReaderDies \/ UNCHANGED vars
    PROVE  IInv'
  <1>1. UNCHANGED <<rules, input, turn, buffer, out>>
    BY DEF Load, EndOfInput, ReadFails, StartFlush, Flushed, BrokenPipe, Exit, Kill,
           TakeAlert, ReaderDies, vars
  <1>2. pc' \in {"load", "read"} => pc \in {"load", "read"} \/ buffer = <<>>
    BY DEF Load, EndOfInput, ReadFails, Raise, StartFlush, Flushed, BrokenPipe, Exit, Kill,
           TakeAlert, ReaderDies, vars
  <1>3. Idle'
    BY <1>1, <1>2 DEF IInv, Idle
  <1>4. Typed'
    BY <1>1 DEF IInv, Typed
  <1>5. Written' = Written
    BY <1>1 DEF Written
  <1>6. InOrder' /\ Behind'
    BY <1>1, <1>5 DEF IInv, InOrder, Behind
  <1> QED
    BY <1>3, <1>4, <1>6 DEF IInv

\* IInv always holds.
LEMMA Inductive == Spec => []IInv
  <1>1. ASSUME IInv, [Next]_vars PROVE IInv'
    <2>1. CASE MatchRule
      BY <1>1, <2>1, EmitKeeps DEF MatchRule
    <2>2. CASE Score
      <3>1. turn = Model /\ pc = "match"
        BY <2>2 DEF Score
      <3> QED
        BY <1>1, <2>2, <3>1, EmitKeeps DEF Score
    <2>3. CASE ReadLine \/ Drain
      BY <1>1, <2>3, ReadKeeps, DrainKeeps
    <2>4. CASE \/ Load \/ EndOfInput \/ ReadFails \/ StartFlush \/ Flushed \/ BrokenPipe
               \/ Exit \/ Kill \/ TakeAlert \/ ReaderDies \/ UNCHANGED vars
      BY <1>1, <2>4, QuietKeeps
    <2> QED
      BY <1>1, <2>1, <2>2, <2>3, <2>4 DEF Next
  <1> QED
    BY <1>1, InitIInv, PTL DEF Spec

-----------------------------------------------------------------------------
(* The buffer.                                                             *)

\* While the loop of cli.py waits for stdin, no alert sits in the buffer of
\* sys.stdout.
THEOREM FlushedPerEvent == Spec => []NothingHeldBack
  <1>1. IInv => NothingHeldBack
    BY DEF IInv, Idle, NothingHeldBack
  <1> QED
    BY <1>1, Inductive, PTL

-----------------------------------------------------------------------------
(* What is alerted: the verdicts of the rules and of the model, shown      *)
(* above to be their meaning.                                              *)

\* Nothing is being done with a line of stdin.
AtRest == input = <<>> \/ ~Parses(Current) \/ turn > Model

\* Where in the loop the detector is, and what it has looked at by then.
Position ==
    /\ pc \in {"load", "read", "match", "flush", "exit", "ended", "killed"}
    /\ code \in {0, 1} /\ reader \in BOOLEAN /\ corpus \in Corpora
    /\ turn =< Model + 1
    /\ pc = "load" => input = <<>>
    /\ pc \in {"read", "match", "flush"} => (UseAnomaly => corpus # EmptyCorpus)
    /\ pc = "match" => input # <<>> /\ Parses(Current)
    /\ pc = "flush" => turn > Model
    /\ pc = "read" => AtRest
    /\ code = 1 => pc \in {"exit", "ended", "killed"}
    /\ pc = "ended" => ~reader \/ buffer = <<>>

Flow ==
    /\ Len(buffer) =< BufCap
    /\ taken \in 0..Len(out)
    /\ Len(out) - taken =< PipeCap

\* Every alert is deserved.
Judged ==
    \A k \in 1..Len(Written) :
        /\ Written[k] \in [event : 1..Len(input), by : 1..Model]
        /\ Deserves(Written[k].event, Written[k].by)

\* Every alert that is deserved by now is there, whatever has happened since.
Complete ==
    \A e \in 1..Len(input), by \in 1..Model :
        ((e < Len(input) \/ by < turn) /\ Deserves(e, by)) =>
            \E k \in 1..Len(Written) : Written[k] = [event |-> e, by |-> by]

CleanRun ==
    /\ \A i \in 1..Len(rules) : Loads(rules[i]) /\ Sound(rules[i])
    /\ \A e \in 1..Len(input) : input[e].kind # "scalar" /\ Clean(input[e])

\* A clean run fails only between two lines or for want of a reader.
NoFault == (CleanRun /\ code = 1) => ~reader \/ AtRest

\* The detector does not get past a rule whose condition is bad.
BadStops ==
    \A i \in 1..Len(rules) :
        ~WellFormed(rules[i]) => /\ turn =< i
                                 /\ \A e \in 1..Len(input) - 1 : ~Parses(input[e])

JInv == Position /\ Flow /\ Judged /\ Complete /\ NoFault /\ BadStops

\* A line that is read leaves the earlier ones, and what they deserve, alone.
LEMMA DeservesStays ==
    ASSUME UNCHANGED <<rules, corpus>>, NEW e, input'[e] = input[e], NEW by
    PROVE  Deserves(e, by)' <=> Deserves(e, by)
  <1>1. Model' = Model
    BY DEF Model
  <1> QED
    BY <1>1 DEF Deserves

\* The constants, for the rules the process was started with.
LEMMA Loaded ==
    ASSUME Typed
    PROVE  /\ Len(rules) \in Nat /\ Model \in Nat /\ Model = Len(rules) + 1
           /\ Len(input) \in Nat
           /\ \A i \in 1..Len(rules) : IsRule(rules[i])
           /\ \A e \in 1..Len(input) : input[e] \in Lines(rules) /\ input[e].df \in Int
  <1>1. /\ Len(rules) \in Nat
        /\ \A i \in 1..Len(rules) : IsRule(rules[i])
        /\ \A l \in Lines(rules) : l.df \in Int
    BY DetectorAssumption DEF Typed
  <1>2. Len(input) \in Nat /\ \A e \in 1..Len(input) : input[e] \in Lines(rules)
    BY DEF Typed
  <1> QED
    BY <1>1, <1>2 DEF Model

\* What a verdict on the current line must be for the rule or the model whose
\* turn it is.
Judges(v) ==
    /\ v \in {"yes", "no", "raise"}
    /\ v = "yes" => Deserves(Len(input), turn)
    /\ v = "no" => ~Deserves(Len(input), turn)
    /\ v = "raise" => ~CleanRun
    /\ v # "raise" /\ turn =< Len(rules) => WellFormed(rules[turn])

\* The matcher judges by the meaning of the rule.
LEMMA RuleJudges ==
    ASSUME Typed, Position, pc = "match", turn =< Len(rules)
    PROVE  Judges(IF Current.kind = "object" THEN Match(rules[turn], Current) ELSE "raise")
  <1>1. /\ turn \in 1..Len(rules) /\ turn # Model /\ Len(input) \in 1..Len(input)
        /\ Parses(Current)
    <2>1. turn \in Nat \ {0} /\ input # <<>> /\ input \in Seq(Lines(rules)) /\ Parses(Current)
      BY DEF Typed, Position
    <2>2. Len(input) \in Nat /\ Len(input) # 0
      BY <2>1
    <2> QED
      BY <2>1, <2>2, Loaded
  <1>2. Deserves(Len(input), turn) <=> Means(rules[turn], Current)
    BY <1>1 DEF Deserves, Current
  <1>3. CASE Current.kind = "object"
    <2> DEFINE v == Match(rules[turn], Current)
    <2>1. IsRule(rules[turn])
      BY <1>1, Loaded
    <2>2. /\ v \in {"yes", "no", "raise"}
          /\ v # "raise" => WellFormed(rules[turn])
          /\ v # "raise" => (v = "yes" <=> Means(rules[turn], Current))
          /\ Sound(rules[turn]) => v # "raise"
      BY <2>1, MatchMeans DEF Verdicts
    <2>3. CleanRun => Sound(rules[turn])
      BY <1>1 DEF CleanRun
    <2> HIDE DEF v
    <2>4. Judges(v)
      BY <1>2, <2>2, <2>3 DEF Judges
    <2> QED
      BY <1>3, <2>4 DEF v
  <1>4. CASE Current.kind # "object"
    <2>1. Current.kind = "scalar"
      BY <1>1, <1>4 DEF Parses
    <2>2. ~CleanRun
      BY <1>1, <2>1 DEF CleanRun, Current
    <2> QED
      BY <1>4, <2>2 DEF Judges
  <1> QED
    BY <1>3, <1>4

\* The anomaly model judges by how far the line stands out.
LEMMA ModelJudges ==
    ASSUME Typed, Position, pc = "match", turn = Model
    PROVE  Judges(Verdict(Current))
  <1>1. /\ Len(input) \in 1..Len(input) /\ Parses(Current) /\ Current.df \in Int
        /\ UseAnomaly => corpus \in Trained
    <2>1. /\ input # <<>> /\ input \in Seq(Lines(rules)) /\ Parses(Current)
          /\ corpus \in Corpora /\ (UseAnomaly => corpus # EmptyCorpus)
      BY DEF Typed, Position
    <2>2. Len(input) \in Nat /\ Len(input) # 0
      BY <2>1
    <2>3. Current.df \in Int
      BY <2>2, Loaded DEF Current
    <2> QED
      BY <2>1, <2>2, <2>3, DetectorAssumption
  <1>2. ~(turn =< Len(rules))
    BY Loaded
  <1>3. Deserves(Len(input), turn) <=> UseAnomaly /\ StandsOut(corpus, Current.df, Threshold)
    BY <1>1 DEF Deserves, Current
  <1>4. CASE ~UseAnomaly
    <2>1. Verdict(Current) = "no"
      BY <1>4 DEF Verdict
    <2> QED
      BY <1>3, <1>4, <2>1, <1>2 DEF Judges
  <1>5. CASE UseAnomaly /\ (Current.kind = "scalar" \/ ~Current.ports)
    <2>1. Verdict(Current) = "raise"
      BY <1>5 DEF Verdict
    <2>2. ~CleanRun
      BY <1>1, <1>5 DEF CleanRun, Clean, Current, Parses
    <2> QED
      BY <2>1, <2>2 DEF Judges
  <1>6. CASE UseAnomaly /\ ~(Current.kind = "scalar" \/ ~Current.ports)
    <2>1. Verdict(Current) = Bool(IsAnomaly(corpus, Current.df, Threshold))
      BY <1>6 DEF Verdict
    <2>2. IsAnomaly(corpus, Current.df, Threshold) <=> StandsOut(corpus, Current.df, Threshold)
      BY <1>1, <1>6, AnomalyMeans, DetectorAssumption
    <2> QED
      BY <1>2, <1>3, <1>6, <2>1, <2>2 DEF Judges, Bool
  <1> QED
    BY <1>4, <1>5, <1>6

\* An event of a clean run has an event_id.
LEMMA CleanHasId ==
    ASSUME Typed, Position, pc = "match", CleanRun
    PROVE  Current.id
  <1>1. input # <<>> /\ input \in Seq(Lines(rules)) /\ Parses(Current)
    BY DEF Typed, Position
  <1>2. Len(input) \in 1..Len(input)
    BY <1>1
  <1> QED
    BY <1>1, <1>2 DEF CleanRun, Clean, Current, Parses

-----------------------------------------------------------------------------
(* JInv is inductive, together with IInv.                                  *)

\* There is nothing to judge at the start.
LEMMA InitJInv == Init => JInv
  <1> SUFFICES ASSUME Init PROVE JInv
    OBVIOUS
  <1>1. /\ input = <<>> /\ turn = 1 /\ pc = "load" /\ code = 0 /\ reader = TRUE
        /\ buffer = <<>> /\ out = <<>> /\ taken = 0 /\ corpus \in Corpora
    BY DEF Init
  <1>2. /\ Len(rules) \in Nat /\ Model = Len(rules) + 1
        /\ Len(Written) = 0 /\ Len(input) = 0 /\ Len(buffer) = 0 /\ Len(out) = 0
        /\ BufCap \in Nat /\ PipeCap \in Nat
    BY <1>1, InitIInv, Loaded, DetectorAssumption DEF IInv, Written
  <1>3. Position
    BY <1>1, <1>2 DEF Position, AtRest
  <1>4. Flow /\ Judged /\ Complete /\ NoFault /\ BadStops
    BY <1>1, <1>2 DEF Flow, Judged, Complete, NoFault, BadStops
  <1> QED
    BY <1>3, <1>4 DEF JInv

\* What stays when neither the line nor the rules change.
LEMMA SameLine ==
    ASSUME UNCHANGED <<rules, corpus, input>>
    PROVE  /\ Model' = Model /\ CleanRun' = CleanRun
           /\ Current' = Current
           /\ \A e, by : Deserves(e, by)' <=> Deserves(e, by)
  BY DeservesStays DEF Model, CleanRun, Current

\* "no": the turn passes on.
LEMMA NoKeeps ==
    ASSUME IInv, JInv, pc = "match", turn =< Model, ~Deserves(Len(input), turn),
           turn =< Len(rules) => WellFormed(rules[turn]),
           turn' = turn + 1, UNCHANGED <<pc, code, buffer>>,
           UNCHANGED <<rules, corpus, input, out, taken, reader>>
    PROVE  JInv'
  <1>1. /\ Len(rules) \in Nat /\ Len(input) \in Nat /\ turn \in Nat \ {0}
        /\ Model = Len(rules) + 1
    BY Loaded DEF IInv, Typed
  <1>2. Written' = Written
    BY DEF Written
  <1>3. Position'
    BY <1>1, SameLine DEF JInv, Position, AtRest
  <1>4. Flow' /\ Judged'
    BY <1>2, SameLine DEF JInv, Flow, Judged
  <1>5. Complete'
    BY <1>1, <1>2, SameLine DEF JInv, Complete
  <1>6. NoFault'
    BY DEF JInv, NoFault, Position
  <1>7. BadStops'
    BY <1>1 DEF JInv, BadStops
  <1> QED
    BY <1>3, <1>4, <1>5, <1>6, <1>7 DEF JInv

\* "yes": the alert comes last, and the turn passes on.
LEMMA YesKeeps ==
    ASSUME IInv, JInv, pc = "match", turn =< Model, Deserves(Len(input), turn),
           turn =< Len(rules) => WellFormed(rules[turn]),
           Len(buffer) < BufCap, buffer' = Append(buffer, Alert(turn)),
           turn' = turn + 1, UNCHANGED <<pc, code>>,
           UNCHANGED <<rules, corpus, input, out, taken, reader>>
    PROVE  JInv'
  <1>1. /\ Len(rules) \in Nat /\ Len(input) \in Nat \ {0} /\ turn \in Nat \ {0}
        /\ Model = Len(rules) + 1 /\ Model \in Nat
        /\ buffer \in Seq(Alerts) /\ out \in Seq(Alerts)
    <2>1. /\ Len(rules) \in Nat /\ Len(input) \in Nat /\ turn \in Nat \ {0}
          /\ Model = Len(rules) + 1 /\ Model \in Nat /\ input \in Seq(Lines(rules))
          /\ buffer \in Seq(Alerts) /\ out \in Seq(Alerts) /\ input # <<>>
      BY Loaded DEF IInv, Typed, JInv, Position
    <2>2. Len(input) # 0
      BY <2>1
    <2> QED
      BY <2>1, <2>2
  <1> SUFFICES ASSUME NEW a, a = Alert(turn), NEW n \in Nat, n = Len(Written)
               PROVE  JInv'
    BY <1>1 DEF Written
  <1>2. a \in Alerts /\ a = [event |-> Len(input), by |-> turn]
        /\ a.event = Len(input) /\ a.by = turn
    BY <1>1 DEF Alert, Alerts
  <1>3. /\ Len(Written') = n + 1
        /\ \A k \in 1..n : Written'[k] = Written[k]
        /\ Written'[n + 1] = a
        /\ Len(buffer') = Len(buffer) + 1 /\ Len(buffer) \in Nat /\ buffer' # <<>>
    <2>1. buffer' \in Seq(Alerts) /\ Written' = Append(Written, a) /\ Written \in Seq(Alerts)
      BY <1>1, <1>2, EmitAppends DEF Written
    <2>2. Len(buffer') = Len(buffer) + 1 /\ Len(buffer) \in Nat
      BY <1>1, <1>2, AppendFacts
    <2>3. buffer' # <<>>
      BY <2>2
    <2> QED
      BY <1>2, <2>1, <2>2, <2>3, AppendFacts
  <1>4. \A k \in 1..n+1 : k \in 1..n \/ k = n + 1
    OBVIOUS
  <1>5. Position'
    BY <1>1, SameLine DEF JInv, Position, AtRest
  <1>6. Flow'
    BY <1>3, DetectorAssumption DEF JInv, Flow
  <1>7. Judged'
    <2>1. a \in [event : 1..Len(input), by : 1..Model] /\ Deserves(a.event, a.by)
      <3>1. /\ Len(input) \in 1..Len(input) /\ turn \in 1..Model
            /\ Deserves(Len(input), turn)
        BY <1>1
      <3> QED
        BY <1>2, <3>1
    <2>2. ASSUME NEW k \in 1..n+1
          PROVE  /\ Written'[k] \in [event : 1..Len(input), by : 1..Model]
                 /\ Deserves(Written'[k].event, Written'[k].by)
      <3>1. CASE k \in 1..n
        BY <1>3, <3>1 DEF JInv, Judged
      <3>2. CASE k = n + 1
        BY <1>3, <2>1, <3>2
      <3> QED
        BY <1>4, <3>1, <3>2
    <2> QED
      BY <1>3, <2>2, SameLine DEF Judged
  <1>8. Complete'
    <2>1. ASSUME NEW e \in 1..Len(input), NEW by \in 1..Model,
                 e < Len(input) \/ by < turn + 1, Deserves(e, by)
          PROVE  \E k \in 1..n+1 : Written'[k] = [event |-> e, by |-> by]
      <3>1. CASE e < Len(input) \/ by < turn
        <4>1. PICK k \in 1..n : Written[k] = [event |-> e, by |-> by]
          BY <2>1, <3>1 DEF JInv, Complete
        <4> QED
          BY <1>3, <4>1
      <3>2. CASE e = Len(input) /\ by = turn
        BY <1>2, <1>3, <3>2
      <3> QED
        BY <1>1, <2>1, <3>1, <3>2
    <2> QED
      BY <1>3, <2>1, SameLine DEF Complete
  <1>9. NoFault'
    BY DEF JInv, NoFault, Position
  <1>10. BadStops'
    BY <1>1 DEF JInv, BadStops
  <1> QED
    BY <1>5, <1>6, <1>7, <1>8, <1>9, <1>10 DEF JInv

\* An exception: the run was not clean.
LEMMA RaiseKeeps ==
    ASSUME IInv, JInv, pc = "match", ~CleanRun, Raise, UNCHANGED <<turn, buffer>>,
           UNCHANGED <<rules, corpus, input, out, taken, reader>>
    PROVE  JInv'
  <1>1. Written' = Written /\ pc' = "exit" /\ code' = 1
    BY DEF Written, Raise
  <1>2. Position'
    BY <1>1, SameLine DEF JInv, Position, AtRest
  <1>3. Flow' /\ Judged' /\ Complete'
    BY <1>1, SameLine DEF JInv, Flow, Judged, Complete
  <1>4. NoFault' /\ BadStops'
    BY SameLine DEF JInv, NoFault, BadStops
  <1> QED
    BY <1>2, <1>3, <1>4 DEF JInv

\* A verdict that is what it must be.
LEMMA VerdictKeeps ==
    ASSUME IInv, JInv, pc = "match", turn =< Model, NEW v, Judges(v), Emit(turn, v),
           UNCHANGED <<rules, corpus, input, out, taken, reader>>
    PROVE  JInv'
  <1>1. CASE v = "no"
    BY <1>1, NoKeeps DEF Emit, Judges
  <1>2. CASE v = "yes" /\ UNCHANGED <<pc, code>>
    BY <1>2, YesKeeps DEF Emit, Judges, Raise
  <1>3. CASE Raise /\ (v = "raise" \/ (v = "yes" /\ ~Current.id))
    <2>1. ~CleanRun
      BY <1>3, CleanHasId DEF Judges, IInv, JInv
    <2>2. UNCHANGED <<turn, buffer>>
      BY <1>3 DEF Emit, Raise, JInv, Position
    <2> QED
      BY <1>3, <2>1, <2>2, RaiseKeeps
  <1> QED
    BY <1>1, <1>2, <1>3 DEF Emit, Judges

\* A line is read only when the detector is done with the one before it: every
\* rule and the model were asked, or it was no event.
LEMMA ReadJudged ==
    ASSUME IInv, JInv, ReadLine
    PROVE  JInv'
  <1>1. PICK l \in Lines(rules) : input' = Append(input, l)
                                  /\ pc' = IF Parses(l) THEN "match" ELSE "read"
    BY DEF ReadLine
  <1>2. /\ turn' = 1 /\ UNCHANGED <<rules, corpus, code, buffer, out, taken, reader>>
        /\ pc = "read" /\ AtRest
        /\ input \in Seq(Lines(rules)) /\ turn \in Nat
        /\ Len(rules) \in Nat /\ Model = Len(rules) + 1 /\ Model' = Model
    BY Loaded DEF ReadLine, IInv, Typed, JInv, Position, Model
  <1> SUFFICES ASSUME NEW n \in Nat, n = Len(input)
               PROVE  JInv'
    BY <1>2
  <1>3. /\ Len(input') = n + 1 /\ input' # <<>>
        /\ \A e \in 1..n : input'[e] = input[e]
        /\ input'[n + 1] = l
    <2>1. /\ Len(input') = n + 1 /\ \A e \in 1..n : input'[e] = input[e]
          /\ input'[n + 1] = l
      BY <1>1, <1>2, AppendFacts
    <2>2. input' # <<>>
      BY <2>1
    <2> QED
      BY <2>1, <2>2
  <1>4. Current' = l /\ (Parses(Current) <=> Parses(l))'
    BY <1>3 DEF Current, Parses
  <1>5. Written' = Written
    BY <1>2 DEF Written
  <1>6. \A e \in 1..n : \A by : Deserves(e, by)' <=> Deserves(e, by)
    BY <1>2, <1>3, DeservesStays
  <1>7. \A e \in 1..n+1 : e \in 1..n \/ e = n + 1
    OBVIOUS
  <1>8. code # 1
    BY <1>2 DEF JInv, Position
  <1>9. Position'
    BY <1>1, <1>2, <1>3, <1>4, <1>8 DEF JInv, Position, AtRest, Parses
  <1>10. Flow' /\ NoFault'
    BY <1>2, <1>8 DEF JInv, Flow, NoFault
  <1>11. Judged'
    <2>1. ASSUME NEW k \in 1..Len(Written)
          PROVE  /\ Written[k] \in [event : 1..n+1, by : 1..Model]
                 /\ Deserves(Written[k].event, Written[k].by)'
      <3>1. Written[k] \in [event : 1..n, by : 1..Model]
            /\ Deserves(Written[k].event, Written[k].by)
        BY DEF JInv, Judged
      <3>2. 1..n \subseteq 1..n+1 /\ Written[k].event \in 1..n
        BY <3>1
      <3>3. Deserves(Written[k].event, Written[k].by)'
        BY <1>5, <1>6, <3>1, <3>2
      <3> QED
        BY <3>1, <3>2, <3>3
    <2> QED
      BY <1>2, <1>3, <1>5, <2>1 DEF Judged
  <1>12. Complete'
    <2>1. ASSUME NEW e \in 1..n+1, NEW by \in 1..Model,
                 e < n + 1 \/ by < 1, Deserves(e, by)'
          PROVE  \E k \in 1..Len(Written) : Written[k] = [event |-> e, by |-> by]
      <3>1. e \in 1..n /\ Deserves(e, by) /\ Parses(input[e])
        <4>1. e \in 1..n
          BY <2>1
        <4> QED
          BY <1>6, <2>1, <4>1 DEF Deserves
      <3>2. e < n \/ by < turn
        <4>1. CASE turn > Model
          BY <1>2, <4>1
        <4>2. CASE input = <<>> \/ ~Parses(Current)
          BY <1>2, <3>1, <4>2 DEF Current
        <4> QED
          BY <1>2, <4>1, <4>2 DEF AtRest
      <3> QED
        BY <3>1, <3>2 DEF JInv, Complete
    <2> QED
      BY <1>2, <1>3, <1>5, <2>1 DEF Complete
  <1>13. BadStops'
    <2>1. ASSUME NEW i \in 1..Len(rules), ~WellFormed(rules[i]), NEW e \in 1..n
          PROVE  1 =< i /\ ~Parses(input'[e])
      <3>1. turn =< i /\ \A j \in 1..n-1 : ~Parses(input[j])
        BY <2>1 DEF JInv, BadStops
      <3>2. input = <<>> \/ ~Parses(Current)
        BY <1>2, <3>1 DEF AtRest
      <3>3. CASE e = n
        <4>1. input # <<>>
          BY <3>3
        <4> QED
          BY <1>3, <3>2, <3>3, <4>1 DEF Current, Parses
      <3>4. CASE e # n
        <4>1. e \in 1..n-1
          BY <3>4
        <4> QED
          BY <1>3, <3>1, <4>1 DEF Parses
      <3> QED
        BY <3>3, <3>4
    <2>2. Len(input') - 1 = n
      BY <1>3
    <2> QED
      BY <1>2, <2>1, <2>2 DEF BadStops
  <1> QED
    BY <1>9, <1>10, <1>11, <1>12, <1>13 DEF JInv

\* An alert that goes into the pipe stays written, and the buffer and the pipe
\* hold what they can.
LEMMA DrainJudged ==
    ASSUME IInv, JInv, Drain
    PROVE  JInv'
  <1>1. /\ UNCHANGED <<rules, corpus, pc, code, input, turn, taken, reader>> /\ buffer # <<>>
        /\ out' = Append(out, Head(buffer)) /\ buffer' = Tail(buffer)
        /\ buffer \in Seq(Alerts) /\ out \in Seq(Alerts)
        /\ Len(out) - taken < PipeCap /\ pc # "ended"
    BY DEF Drain, MustDrain, IInv, Typed
  <1>2. Written' = Written
    BY <1>1, DrainMoves DEF Written
  <1>3. Flow'
    <2>1. /\ Len(out') = Len(out) + 1 /\ Len(out) \in Nat
          /\ Len(buffer') = Len(buffer) - 1 /\ Len(buffer) \in Nat
      BY <1>1
    <2> QED
      BY <1>1, <2>1, DetectorAssumption DEF JInv, Flow
  <1>4. Position'
    BY <1>1, SameLine DEF JInv, Position, AtRest
  <1>5. Judged' /\ Complete'
    BY <1>1, <1>2, SameLine DEF JInv, Judged, Complete
  <1>6. NoFault' /\ BadStops'
    BY <1>1, SameLine DEF JInv, NoFault, BadStops, AtRest
  <1> QED
    BY <1>3, <1>4, <1>5, <1>6 DEF JInv

\* The other steps judge nothing; the process and the next stage move on.
LEMMA QuietJudged ==
    ASSUME IInv, JInv,
           \/ Load \/ EndOfInput \/ ReadFails \/ StartFlush \/ Flushed \/ BrokenPipe
           \/ Exit \/ Kill \/ TakeAlert \/ ReaderDies \/ UNCHANGED vars
    PROVE  JInv'
  <1>1. UNCHANGED <<rules, corpus, input, turn, buffer, out>>
    BY DEF Load, EndOfInput, ReadFails, StartFlush, Flushed, BrokenPipe, Exit, Kill,
           TakeAlert, ReaderDies, vars
  <1>2. Written' = Written /\ AtRest' = AtRest
    BY <1>1, SameLine DEF Written, AtRest, Parses
  <1>3. Judged' /\ Complete' /\ BadStops'
    BY <1>1, <1>2, SameLine DEF JInv, Judged, Complete, BadStops
  <1>4. Flow'
    <2>1. UNCHANGED taken \/ TakeAlert
      BY DEF Load, EndOfInput, ReadFails, StartFlush, Flushed, BrokenPipe, Exit, Kill,
             ReaderDies, vars
    <2>2. Len(out) \in Nat
      BY DEF IInv, Typed
    <2> QED
      BY <1>1, <2>1, <2>2, DetectorAssumption DEF JInv, Flow, TakeAlert
  <1>5. Position' /\ NoFault'
    <2>1. CASE Load
      BY <1>1, <1>2, <2>1, SameLine DEF JInv, Position, NoFault, Load, Raise, AtRest
    <2>2. CASE EndOfInput \/ ReadFails
      BY <1>1, <1>2, <2>2, SameLine DEF JInv, Position, NoFault, EndOfInput, ReadFails, Raise
    <2>3. CASE StartFlush \/ Flushed
      BY <1>1, <1>2, <2>3, SameLine DEF JInv, Position, NoFault, StartFlush, Flushed, AtRest
    <2>4. CASE BrokenPipe \/ Exit \/ Kill
      BY <1>1, <1>2, <2>4, SameLine
         DEF JInv, Position, NoFault, BrokenPipe, Exit, Kill, Running
    <2>5. CASE TakeAlert \/ UNCHANGED vars
      <3>1. UNCHANGED <<pc, code, reader>>
        BY <2>5 DEF TakeAlert, vars
      <3> QED
        BY <1>1, <1>2, <3>1, SameLine DEF JInv, Position, NoFault
    <2>6. CASE ReaderDies
      <3>1. UNCHANGED <<pc, code>> /\ ~reader' /\ reader' \in BOOLEAN
        BY <2>6 DEF ReaderDies
      <3> QED
        BY <1>1, <1>2, <3>1, SameLine DEF JInv, Position, NoFault
    <2> QED
      BY <2>1, <2>2, <2>3, <2>4, <2>5, <2>6
  <1> QED
    BY <1>3, <1>4, <1>5 DEF JInv

\* IInv and JInv always hold.
LEMMA JudgedAlways == Spec => [](IInv /\ JInv)
  <1>1. ASSUME IInv, JInv, [Next]_vars PROVE JInv'
    <2>1. CASE MatchRule
      <3>1. pc = "match" /\ turn =< Len(rules) /\ turn =< Model
        BY <1>1, <2>1, Loaded DEF MatchRule, IInv, Typed
      <3>2. Judges(IF Current.kind = "object" THEN Match(rules[turn], Current) ELSE "raise")
        BY <1>1, <3>1, RuleJudges DEF IInv, JInv
      <3> QED
        BY <1>1, <2>1, <3>1, <3>2, VerdictKeeps DEF MatchRule
    <2>2. CASE Score
      <3>1. pc = "match" /\ turn = Model /\ turn =< Model
        BY <1>1, <2>2, Loaded DEF Score, IInv
      <3>2. Judges(Verdict(Current))
        BY <1>1, <3>1, ModelJudges DEF IInv, JInv
      <3> QED
        BY <1>1, <2>2, <3>1, <3>2, VerdictKeeps DEF Score
    <2>3. CASE ReadLine \/ Drain
      BY <1>1, <2>3, ReadJudged, DrainJudged
    <2>4. CASE \/ Load \/ EndOfInput \/ ReadFails \/ StartFlush \/ Flushed \/ BrokenPipe
               \/ Exit \/ Kill \/ TakeAlert \/ ReaderDies \/ UNCHANGED vars
      BY <1>1, <2>4, QuietJudged
    <2> QED
      BY <1>1, <2>1, <2>2, <2>3, <2>4 DEF Next
  <1> QED
    BY <1>1, InitJInv, Inductive, PTL DEF Spec

-----------------------------------------------------------------------------
(* The properties of the alerts, whatever the rules and the lines are.     *)

\* The types of the state, and that the buffer of sys.stdout and the pipe never
\* hold more than they can.
THEOREM TypeCorrect == Spec => []TypeOK
  <1>1. ASSUME IInv, JInv PROVE TypeOK
    <2>1. /\ rules \in Directories /\ input \in Seq(Lines(rules)) /\ turn \in Nat \ {0}
          /\ buffer \in Seq(Alerts) /\ out \in Seq(Alerts)
          /\ Len(rules) \in Nat /\ Model = Len(rules) + 1
      BY <1>1, Loaded DEF IInv, Typed
    <2>2. turn \in 1..Len(rules) + 2
      BY <1>1, <2>1 DEF JInv, Position
    <2>3. /\ Len(out) \in Nat /\ Len(buffer) \in Nat
          /\ Len(Written) = Len(out) + Len(buffer)
          /\ \A i \in 1..Len(out) : Written[i] = out[i]
          /\ \A i \in 1..Len(buffer) : Written[Len(out) + i] = buffer[i]
      BY <2>1 DEF Written
    <2> DEFINE S == [event : 1..Len(input), by : 1..Model]
    <2>4. \A k \in 1..Len(Written) : Written[k] \in S
      BY <1>1 DEF JInv, Judged
    <2> HIDE DEF S
    <2>5. \A i \in 1..Len(out) : out[i] \in S
      <3>1. ASSUME NEW i \in 1..Len(out) PROVE i \in 1..Len(Written)
        BY <2>3
      <3> QED
        BY <2>3, <2>4, <3>1
    <2>6. \A i \in 1..Len(buffer) : buffer[i] \in S
      <3>1. ASSUME NEW i \in 1..Len(buffer) PROVE Len(out) + i \in 1..Len(Written)
        BY <2>3
      <3> QED
        BY <2>3, <2>4, <3>1
    <2>7. out \in Seq(S)
      BY <2>1, <2>5
    <2>8. buffer \in Seq(S)
      BY <2>1, <2>6
    <2> QED
      BY <1>1, <2>1, <2>2, <2>7, <2>8 DEF S, TypeOK, JInv, Position, Flow
  <1> QED
    BY <1>1, JudgedAlways, PTL

\* Whatever the rules, the lines and the model are, every alert that the
\* detector writes is one that its rule or the model stands for, as Means and
\* StandsOut say and not the steps of the matcher; and the alerts come in the
\* order of the events and of the rules, none of them twice.
THEOREM OnlyDeserved == Spec => []AlertsAreDeserved
  <1>1. IInv /\ JInv => AlertsAreDeserved
    BY DEF IInv, InOrder, JInv, Judged, AlertsAreDeserved
  <1> QED
    BY <1>1, JudgedAlways, PTL

\* No alert is missing that a rule or the model stands for once the detector is
\* past it, however the process ends; and unless a signal or a dead reader ends
\* it, every alert of the buffer is delivered by the end.
THEOREM NoneMissed == Spec => []NoAlertMissed
  <1>1. ASSUME IInv, JInv PROVE NoAlertMissed
    <2>1. turn \in Nat /\ Len(rules) \in Nat /\ Len(input) \in Nat /\ Model = Len(rules) + 1
      BY <1>1, Loaded DEF IInv, Typed
    <2>2. ASSUME NEW e \in 1..Len(input), NEW by \in 1..Model, Passed(e, by), Deserves(e, by)
          PROVE  \E k \in 1..Len(Written) : Written[k] = [event |-> e, by |-> by]
      <3>1. e < Len(input) \/ by < turn
        BY <2>1, <2>2 DEF Passed
      <3> QED
        BY <1>1, <2>2, <3>1 DEF JInv, Complete
    <2>3. (pc = "ended" /\ reader) => buffer = <<>>
      BY <1>1 DEF JInv, Position
    <2> QED
      BY <2>2, <2>3 DEF NoAlertMissed
  <1> QED
    BY <1>1, JudgedAlways, PTL

\* Rules that pass Sound and lines as the parser writes them never make the
\* matcher, the features or the alert raise: an exit status of 1 comes from
\* stdin, from the start or from the reader.
THEOREM CleanNeverRaises == Spec => []CleanRunNeverRaises
  <1>1. IInv /\ JInv => CleanRunNeverRaises
    BY DEF JInv, NoFault, CleanRun, AtRest, CleanRunNeverRaises
  <1> QED
    BY <1>1, JudgedAlways, PTL

\* A rule whose condition is no condition ends the detector at the first event,
\* whatever that event is, so that no later line is judged.
THEOREM BadConditionStops == Spec => []BadConditionStopsFirst
  <1>1. JInv => BadConditionStopsFirst
    BY DEF JInv, BadStops, BadConditionStopsFirst
  <1> QED
    BY <1>1, JudgedAlways, PTL

============================================================================
