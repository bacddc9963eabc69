------------------------- MODULE LogicExpressionProofs -------------------------
(***************************************************************************)
(* Theorems about LogicExpression: the parser accepts every expression that the   *)
(* grammar has, the commands that it makes leave the meaning of the expression on   *)
(* the stack, and the table holds it.                                        *)
(***************************************************************************)
EXTENDS LogicExpression, SequenceLemmas

-----------------------------------------------------------------------------
(* Functions defined by recursion.  G gives from a function f : D, f[x] \in W[x], the  *)
(* one that its definition makes of it, which at x depends on f only below x.        *)
Typed(D, W) == {f \in [D -> UNION {W[x] : x \in D}] : \A x \in D : f[x] \in W[x]}

AgreeBelow(f, g, D, rank, n) == \A y \in D : rank[y] < n => f[y] = g[y]

LocalRecursion(D, W, rank, G) ==
  /\ rank \in [D -> Nat]
  /\ G \in [Typed(D, W) -> Typed(D, W)]
  /\ \A f, g \in Typed(D, W), x \in D : AgreeBelow(f, g, D, rank, rank[x]) => G[f][x] = G[g][x]

(* The functions that satisfy the definition below n. *)
SolvedBelow(D, W, rank, G, n) ==
  {f \in Typed(D, W) : \A x \in D : rank[x] < n => f[x] = G[f][x]}

(* Below n there is a solution: apply the definition n times. *)
LEMMA SolutionsBelow ==
  ASSUME NEW D, NEW W, NEW rank, NEW G, LocalRecursion(D, W, rank, G), Typed(D, W) # {}
  PROVE  \A n \in Nat : SolvedBelow(D, W, rank, G, n) # {}
<1> DEFINE S(n) == SolvedBelow(D, W, rank, G, n)
           T == {n \in Nat : S(n) = {}}
<1>1. SUFFICES ASSUME T # {} PROVE FALSE
  BY <1>1, Zenon
<1>2. PICK n \in T : \A m \in T : n <= m
  BY <1>1, LeastElement
<1>3. CASE n = 0
  <2>1. PICK f \in Typed(D, W) : TRUE
    OBVIOUS
  <2>2. f \in S(n)
    BY <1>3, SMT DEF SolvedBelow, LocalRecursion
  <2> QED BY <1>2, <2>2
<1>4. CASE n # 0
  <2>1. n - 1 \in Nat /\ n - 1 \notin T
    BY <1>2, <1>4
  <2>2. PICK f : f \in S(n - 1)
    BY <2>1
  <2> DEFINE g == G[f]
  <2>3. /\ f \in Typed(D, W) /\ g \in Typed(D, W)
        /\ \A x \in D : rank[x] < n - 1 => f[x] = g[x]
    BY <2>2 DEF SolvedBelow, LocalRecursion
  <2>4. ASSUME NEW x \in D, rank[x] < n PROVE g[x] = G[g][x]
    <3>1. AgreeBelow(f, g, D, rank, rank[x])
      BY <2>1, <2>3, <2>4 DEF AgreeBelow, LocalRecursion
    <3> QED BY <2>3, <3>1 DEF LocalRecursion
  <2>5. g \in S(n)
    BY <2>3, <2>4 DEF SolvedBelow
  <2> QED BY <1>2, <2>5
<1> QED BY <1>3, <1>4

(* Two of them agree below n. *)
LEMMA SolutionsAgree ==
  ASSUME NEW D, NEW W, NEW rank, NEW G, LocalRecursion(D, W, rank, G), NEW n \in Nat, NEW m \in Nat,
         NEW f \in SolvedBelow(D, W, rank, G, n), NEW g \in SolvedBelow(D, W, rank, G, m),
         NEW z \in D, rank[z] < n, rank[z] < m
  PROVE  f[z] = g[z]
<1> DEFINE Off == {x \in D : f[x] # g[x] /\ rank[x] < n /\ rank[x] < m}
           T == {rank[x] : x \in Off}
<1>1. SUFFICES ASSUME T # {} PROVE FALSE
  BY <1>1, Zenon
<1>2. rank \in [D -> Nat] /\ T \subseteq Nat
  BY DEF LocalRecursion
<1>3. PICK k \in T : \A l \in T : k <= l
  BY <1>1, <1>2, LeastElement
<1>4. PICK x \in Off : rank[x] = k
  BY <1>3
<1>5. AgreeBelow(f, g, D, rank, rank[x])
  <2> SUFFICES ASSUME NEW y \in D, rank[y] < rank[x] PROVE f[y] = g[y]
    BY DEF AgreeBelow
  <2>1. rank[y] \in Nat /\ rank[x] \in Nat /\ rank[x] < n /\ rank[x] < m
    BY <1>2
  <2>2. rank[y] \notin T
    BY <1>3, <1>4, <2>1
  <2>3. rank[y] < n /\ rank[y] < m
    BY <2>1
  <2> QED BY <2>2, <2>3
<1>6. f[x] = G[f][x] /\ g[x] = G[g][x] /\ f \in Typed(D, W) /\ g \in Typed(D, W)
  BY DEF SolvedBelow
<1>7. G[f][x] = G[g][x]
  BY <1>5, <1>6 DEF LocalRecursion
<1> QED BY <1>6, <1>7

(* So there is one of all. *)
LEMMA Solution ==
  ASSUME NEW D, NEW W, NEW rank, NEW G, LocalRecursion(D, W, rank, G), Typed(D, W) # {}
  PROVE  \E f \in Typed(D, W) : f = [x \in D |-> G[f][x]]
<1> DEFINE h(n) == CHOOSE g : g \in SolvedBelow(D, W, rank, G, n)
           f == [x \in D |-> h(rank[x] + 1)[x]]
<1>1. \A n \in Nat : h(n) \in SolvedBelow(D, W, rank, G, n)
  BY SolutionsBelow
<1>2. \A x \in D : rank[x] \in Nat /\ rank[x] + 1 \in Nat
  BY DEF LocalRecursion
<1>3. \A x \in D : h(rank[x] + 1) \in SolvedBelow(D, W, rank, G, rank[x] + 1)
  BY <1>1, <1>2, Zenon
<1> HIDE DEF h
<1>4. f \in Typed(D, W)
  <2>1. \A x \in D : f[x] \in W[x]
    BY <1>3 DEF SolvedBelow, Typed
  <2> QED BY <2>1 DEF Typed
<1>5. ASSUME NEW x \in D PROVE f[x] = G[f][x]
  <2> DEFINE g == h(rank[x] + 1)
  <2>1. g \in SolvedBelow(D, W, rank, G, rank[x] + 1) /\ f[x] = g[x]
    BY <1>3
  <2> HIDE DEF g
  <2>2. ASSUME NEW y \in D, rank[y] < rank[x] PROVE f[y] = g[y]
    <3>1. h(rank[y] + 1) \in SolvedBelow(D, W, rank, G, rank[y] + 1) /\ f[y] = h(rank[y] + 1)[y]
      BY <1>3
    <3>2. rank[y] < rank[y] + 1 /\ rank[y] < rank[x] + 1
      BY <1>2, <2>2
    <3> QED BY <1>2, <2>1, <3>1, <3>2, SolutionsAgree
  <2>3. AgreeBelow(g, f, D, rank, rank[x])
    BY <2>2 DEF AgreeBelow
  <2>4. g \in Typed(D, W) /\ g[x] = G[g][x]
    BY <1>2, <2>1 DEF SolvedBelow
  <2>5. G[g][x] = G[f][x]
    BY <1>4, <2>3, <2>4 DEF LocalRecursion
  <2> QED BY <2>1, <2>4, <2>5
<1>6. f = [x \in D |-> G[f][x]]
  <2>1. f \in [D -> UNION {W[x] : x \in D}]
    BY <1>4 DEF Typed
  <2> HIDE DEF f
  <2> QED BY <1>5, <2>1
<1> QED BY <1>4, <1>6, Zenon

-----------------------------------------------------------------------------
(* The stack machine.  Its states, a value on the stack, and what a sequence of        *)
(* commands makes of a state.                                                 *)
States == [stack : Seq(BOOLEAN), defined : BOOLEAN]

Pushed(state, v) == [stack |-> Append(state.stack, v), defined |-> state.defined]

Leads(p, on, state, end) ==
  \E f \in [0 .. Len(p) -> States] :
    f[0] = state /\ f[Len(p)] = end /\ \A n \in 1 .. Len(p) : f[n] = Step(f[n - 1], p[n], on)

(* A value that is pushed leaves a state. *)
LEMMA PushedType ==
  ASSUME NEW state \in States, NEW v \in BOOLEAN
  PROVE  Pushed(state, v) \in States
BY DEF States, Pushed

(* Commands behind each other. *)
LEMMA LeadsBoth ==
  ASSUME NEW p \in Seq(Tokens), NEW q \in Seq(Tokens), NEW on, NEW a, NEW b, NEW c,
         Leads(p, on, a, b), Leads(q, on, b, c)
  PROVE  Leads(p \o q, on, a, c)
<1>1. PICK f \in [0 .. Len(p) -> States] :
        f[0] = a /\ f[Len(p)] = b /\ \A n \in 1 .. Len(p) : f[n] = Step(f[n - 1], p[n], on)
  BY Zenon DEF Leads
<1>2. PICK g \in [0 .. Len(q) -> States] :
        g[0] = b /\ g[Len(q)] = c /\ \A n \in 1 .. Len(q) : g[n] = Step(g[n - 1], q[n], on)
  BY Zenon DEF Leads
<1> DEFINE r == p \o q
           k == [n \in 0 .. Len(r) |-> IF n <= Len(p) THEN f[n] ELSE g[n - Len(p)]]
<1>3. /\ r \in Seq(Tokens) /\ Len(r) = Len(p) + Len(q) /\ Len(p) \in Nat /\ Len(q) \in Nat
      /\ \A n \in 1 .. Len(p) : r[n] = p[n]
      /\ \A n \in 1 .. Len(q) : r[Len(p) + n] = q[n]
  OBVIOUS
<1> HIDE DEF r
<1>4. k \in [0 .. Len(r) -> States]
  <2>1. ASSUME NEW n \in 0 .. Len(r) PROVE (IF n <= Len(p) THEN f[n] ELSE g[n - Len(p)]) \in States
    <3>1. CASE n <= Len(p)
      <4>1. n \in 0 .. Len(p)
        BY <1>3, <3>1
      <4> QED BY <3>1, <4>1
    <3>2. CASE ~ (n <= Len(p))
      <4>1. n - Len(p) \in 0 .. Len(q)
        BY <1>3, <3>2
      <4> QED BY <3>2, <4>1
    <3> QED BY <3>1, <3>2
  <2> QED BY <2>1
<1>5. (\A n \in 0 .. Len(p) : k[n] = f[n]) /\ (\A n \in 0 .. Len(q) : k[Len(p) + n] = g[n])
  <2>1. ASSUME NEW n \in 0 .. Len(p) PROVE k[n] = f[n]
    <3>1. n \in 0 .. Len(r) /\ n <= Len(p)
      BY <1>3
    <3> QED BY <3>1
  <2>2. ASSUME NEW n \in 0 .. Len(q) PROVE k[Len(p) + n] = g[n]
    <3>1. Len(p) + n \in 0 .. Len(r) /\ (Len(p) + n) - Len(p) = n
      BY <1>3
    <3>2. k[Len(p) + n] = IF Len(p) + n <= Len(p) THEN f[Len(p) + n] ELSE g[n]
      BY <3>1
    <3>3. CASE n = 0
      <4>1. Len(p) + n = Len(p) /\ Len(p) + n <= Len(p)
        BY <1>3, <3>3
      <4> QED BY <1>1, <1>2, <3>2, <3>3, <4>1
    <3>4. CASE n # 0
      <4>1. ~ (Len(p) + n <= Len(p))
        BY <1>3, <3>4
      <4> QED BY <3>2, <4>1
    <3> QED BY <3>3, <3>4
  <2> QED BY <2>1, <2>2
<1>6. k[0] = a /\ k[Len(r)] = c
  BY <1>1, <1>2, <1>3, <1>5
<1> HIDE DEF k
<1>7. ASSUME NEW n \in 1 .. Len(r) PROVE k[n] = Step(k[n - 1], r[n], on)
  <2>1. CASE n <= Len(p)
    <3>1. n \in 1 .. Len(p) /\ n \in 0 .. Len(p) /\ n - 1 \in 0 .. Len(p)
      BY <1>3, <2>1
    <3> QED BY <1>1, <1>3, <1>5, <3>1
  <2>2. CASE n > Len(p)
    <3> DEFINE m == n - Len(p)
    <3>1. m \in 1 .. Len(q) /\ m \in 0 .. Len(q) /\ m - 1 \in 0 .. Len(q) /\ Len(p) + m = n /\ Len(p) + (m - 1) = n - 1
      BY <1>3, <2>2
    <3> HIDE DEF m
    <3>2. k[n] = g[m] /\ k[n - 1] = g[m - 1] /\ r[n] = q[m]
      BY <1>3, <1>5, <3>1
    <3> QED BY <1>2, <3>1, <3>2
  <2> QED BY <1>3, <2>1, <2>2
<1>8. Leads(r, on, a, c)
  BY <1>4, <1>6, <1>7, Zenon DEF Leads
<1> QED BY <1>8 DEF r

(* One command. *)
LEMMA LeadsOne ==
  ASSUME NEW c \in Tokens, NEW on, NEW state \in States, Step(state, c, on) \in States
  PROVE  Leads(<<c>>, on, state, Step(state, c, on))
<1> DEFINE f == [n \in 0 .. 1 |-> IF n = 0 THEN state ELSE Step(state, c, on)]
<1>1. Len(<<c>>) = 1 /\ <<c>>[1] = c
  OBVIOUS
<1>2. f \in [0 .. 1 -> States] /\ f[0] = state /\ f[1] = Step(state, c, on)
  OBVIOUS
<1> HIDE DEF f
<1>3. \A n \in 1 .. 1 : f[n] = Step(f[n - 1], <<c>>[n], on)
  <2> SUFFICES ASSUME NEW n \in 1 .. 1 PROVE f[n] = Step(f[n - 1], <<c>>[n], on)
    OBVIOUS
  <2>1. n = 1 /\ n - 1 = 0
    OBVIOUS
  <2> QED BY <1>1, <1>2, <2>1
<1> QED BY <1>1, <1>2, <1>3, Zenon DEF Leads

(* The commands of a parsed expression, with their operands on the stack. *)
LEMMA Steps ==
  ASSUME NEW state \in States, NEW on, NEW v \in BOOLEAN, NEW w \in BOOLEAN
  PROVE  /\ \A n \in Nat : Step(state, Sig(n), on) = Pushed(state, n \in on)
         /\ Step(Pushed(Pushed(state, v), w), Op("&"), on) = Pushed(state, v /\ w)
         /\ Step(Pushed(Pushed(state, v), w), Op("|"), on) = Pushed(state, v \/ w)
         /\ Step(Pushed(state, v), Op("!"), on) = Pushed(state, ~v)
<1> DEFINE s == state.stack
           one == Append(s, v)
           both == Append(one, w)
<1>1. s \in Seq(BOOLEAN) /\ state.defined \in BOOLEAN /\ state = [stack |-> s, defined |-> state.defined]
  BY DEF States
<1> HIDE DEF s
<1>2. /\ Len(s) \in Nat /\ Len(one) = Len(s) + 1 /\ Len(both) = Len(s) + 2
      /\ one[Len(s) + 1] = v /\ both[Len(s) + 1] = v /\ both[Len(s) + 2] = w
      /\ one \in Seq(BOOLEAN) /\ both \in Seq(BOOLEAN)
  BY <1>1
<1>3. SubSeq(both, 1, Len(s)) = s
  <2>1. SubSeq(both, 1, Len(s)) \in Seq(BOOLEAN) /\ Len(SubSeq(both, 1, Len(s))) = Len(s)
        /\ \A i \in 1 .. Len(s) : SubSeq(both, 1, Len(s))[i] = s[i]
    BY <1>1, <1>2
  <2> QED BY <1>1, <2>1, SeqEqual
<1>4. [one EXCEPT ![Len(s) + 1] = ~v] = Append(s, ~v)
  <2> DEFINE e == [one EXCEPT ![Len(s) + 1] = ~v]
             a == Append(s, ~v)
  <2>1. e \in Seq(BOOLEAN) /\ Len(e) = Len(s) + 1 /\ a \in Seq(BOOLEAN) /\ Len(a) = Len(s) + 1
    BY <1>1, <1>2
  <2>2. ASSUME NEW i \in 1 .. Len(s) + 1 PROVE e[i] = a[i]
    <3>1. a[Len(s) + 1] = ~v /\ DOMAIN one = 1 .. Len(s) + 1
      BY <1>1, <1>2, <2>1
    <3>2. CASE i = Len(s) + 1
      <4> HIDE DEF one, a
      <4> QED BY <3>1, <3>2, Zenon
    <3>3. CASE i # Len(s) + 1
      <4>1. i \in 1 .. Len(s)
        BY <1>1, <3>3
      <4>2. a[i] = s[i] /\ one[i] = s[i]
        BY <1>1, <4>1
      <4> HIDE DEF one, a
      <4> QED BY <3>1, <3>3, <4>2, Zenon
    <3> QED BY <3>2, <3>3
  <2> HIDE DEF e, a
  <2>3. e = a
    BY <2>1, <2>2, SeqEqual
  <2> QED BY <2>3 DEF e, a
<1> HIDE DEF one, both
<1>5. ASSUME NEW n \in Nat PROVE Step(state, Sig(n), on) = Pushed(state, n \in on)
  BY <1>1 DEF Step, Sig, Pushed, s
<1>6. /\ Pushed(state, v) = [stack |-> one, defined |-> state.defined]
      /\ Pushed(Pushed(state, v), w) = [stack |-> both, defined |-> state.defined]
  BY DEF Pushed, one, both, s
<1>7. Len(both) > 1 /\ Len(both) - 2 = Len(s) /\ Len(both) - 1 = Len(s) + 1 /\ Len(one) > 0
  BY <1>2
<1>8. ASSUME NEW c, c \in {"&", "|"}, NEW st, Len(st.stack) > 1
      PROVE  Step(st, Op(c), on) =
               LET n   == Len(st.stack)
                   two == SubSeq(st.stack, 1, n - 2)
               IN  [st EXCEPT !.stack = IF c = "&" THEN Append(two, st.stack[n] /\ st.stack[n - 1])
                                        ELSE Append(two, st.stack[n] \/ st.stack[n - 1])]
  <2>1. Op(c).kind = c
    BY DEF Op
  <2>2. CASE c = "&"
    BY <1>8, <2>1, <2>2, Zenon DEF Step
  <2>3. CASE c = "|"
    BY <1>8, <2>1, <2>3, Zenon DEF Step
  <2> QED BY <1>8, <2>2, <2>3
<1>9. /\ Step(Pushed(Pushed(state, v), w), Op("&"), on) = [stack |-> Append(s, w /\ v), defined |-> state.defined]
      /\ Step(Pushed(Pushed(state, v), w), Op("|"), on) = [stack |-> Append(s, w \/ v), defined |-> state.defined]
  <2> DEFINE st == Pushed(Pushed(state, v), w)
  <2>1. st = [stack |-> both, defined |-> state.defined] /\ st.stack = both
    BY <1>6
  <2>2. /\ Len(st.stack) > 1 /\ SubSeq(st.stack, 1, Len(st.stack) - 2) = s
        /\ st.stack[Len(st.stack)] = w /\ st.stack[Len(st.stack) - 1] = v
    BY <1>2, <1>3, <1>7, <2>1
  <2>3. \A x : [st EXCEPT !.stack = x] = [stack |-> x, defined |-> state.defined]
    <3> HIDE DEF st
    <3> QED BY <2>1
  <2> HIDE DEF st
  <2>4. /\ Step(st, Op("&"), on) = [st EXCEPT !.stack = Append(s, w /\ v)]
        /\ Step(st, Op("|"), on) = [st EXCEPT !.stack = Append(s, w \/ v)]
    BY <1>8, <2>2, Zenon
  <2>5. Step(st, Op("&"), on) = [stack |-> Append(s, w /\ v), defined |-> state.defined]
    BY <2>3, <2>4, Zenon
  <2>6. Step(st, Op("|"), on) = [stack |-> Append(s, w \/ v), defined |-> state.defined]
    BY <2>3, <2>4, Zenon
  <2> QED BY <2>5, <2>6, Zenon DEF st
<1>10. Step(Pushed(state, v), Op("!"), on) = [stack |-> Append(s, ~v), defined |-> state.defined]
  <2> DEFINE st == Pushed(state, v)
  <2>1. st = [stack |-> one, defined |-> state.defined] /\ st.stack = one
    BY <1>6
  <2>2. Len(st.stack) > 0 /\ Len(st.stack) = Len(s) + 1
    BY <1>2, <1>7, <2>1
  <2> HIDE DEF st
  <2>3. Op("!").kind = "!"
    BY DEF Op
  <2>4. Step(st, Op("!"), on) = [st EXCEPT !.stack[Len(st.stack)] = ~@]
    BY <2>2, <2>3 DEF Step
  <2>5. [st EXCEPT !.stack[Len(st.stack)] = ~@] = [st EXCEPT !.stack = [one EXCEPT ![Len(s) + 1] = ~one[Len(s) + 1]]]
    BY <2>1, <2>2, Zenon
  <2>6. [one EXCEPT ![Len(s) + 1] = ~one[Len(s) + 1]] = Append(s, ~v)
    BY <1>2, <1>4, Zenon
  <2>7. \A x : [st EXCEPT !.stack = x] = [stack |-> x, defined |-> state.defined]
    BY <2>1
  <2> QED BY <2>4, <2>5, <2>6, <2>7, Zenon DEF st
<1>12. (w /\ v) = (v /\ w) /\ (w \/ v) = (v \/ w)
  OBVIOUS
<1> QED BY <1>5, <1>9, <1>10, <1>12 DEF Pushed, s

-----------------------------------------------------------------------------
(* Commands that push the value of a reading, and do nothing else.                  *)
Computes(p, r) ==
  \A on \in Combinations, state \in States : Leads(p, on, state, Pushed(state, on \in r))

(* Operators and signals are tokens. *)
LEMMA OpToken ==
  ASSUME NEW c \in {"&", "|", "!", "(", ")"}
  PROVE  Op(c) \in Tokens /\ Op(c).kind = c /\ <<Op(c)>> \in Seq(Tokens) /\ Op(c).id = -1
BY DEF Op, Tokens

(* The commands of a signal and of the operators. *)
LEMMA ComputesSignal ==
  ASSUME NEW n \in Nat
  PROVE  Computes(<<Sig(n)>>, {on \in Combinations : n \in on})
<1> SUFFICES ASSUME NEW on \in Combinations, NEW state \in States
             PROVE  Leads(<<Sig(n)>>, on, state, Pushed(state, on \in {o \in Combinations : n \in o}))
  BY Zenon DEF Computes
<1>1. Step(state, Sig(n), on) = Pushed(state, n \in on) /\ Sig(n) \in Tokens
  BY Steps DEF Sig, Tokens
<1>2. Pushed(state, n \in on) \in States
  <2>1. (n \in on) \in BOOLEAN
    OBVIOUS
  <2> QED BY <2>1, PushedType, Zenon
<1>3. Leads(<<Sig(n)>>, on, state, Pushed(state, n \in on))
  BY <1>1, <1>2, LeadsOne, Zenon
<1>4. (on \in {o \in Combinations : n \in o}) = (n \in on)
  OBVIOUS
<1> QED BY <1>3, <1>4, Zenon

(* A negation follows what it negates. *)
LEMMA ComputesNot ==
  ASSUME NEW p \in Seq(Tokens), NEW r, Computes(p, r)
  PROVE  Computes(p \o <<Op("!")>>, Combinations \ r)
<1> SUFFICES ASSUME NEW on \in Combinations, NEW state \in States
             PROVE  Leads(p \o <<Op("!")>>, on, state, Pushed(state, on \in Combinations \ r))
  BY Zenon DEF Computes
<1> DEFINE v == on \in r
<1>1. v \in BOOLEAN /\ (~v) \in BOOLEAN
  OBVIOUS
<1>2. (on \in Combinations \ r) = (~v)
  OBVIOUS
<1>8. Leads(p, on, state, Pushed(state, v))
  BY Zenon DEF Computes
<1> HIDE DEF v
<1>3. Op("!") \in Tokens /\ <<Op("!")>> \in Seq(Tokens)
  BY OpToken
<1>4. Step(Pushed(state, v), Op("!"), on) = Pushed(state, ~v)
  BY <1>1, Steps, Zenon
<1>5. Pushed(state, v) \in States /\ Pushed(state, ~v) \in States
  BY <1>1, PushedType, Zenon
<1>6. Leads(<<Op("!")>>, on, Pushed(state, v), Pushed(state, ~v))
  BY <1>3, <1>4, <1>5, LeadsOne, Zenon
<1>7. Leads(p \o <<Op("!")>>, on, state, Pushed(state, ~v))
  BY <1>3, <1>6, <1>8, LeadsBoth, Zenon
<1> QED BY <1>2, <1>7, Zenon

(* "&" and "|" follow their operands. *)
LEMMA ComputesBoth ==
  ASSUME NEW p \in Seq(Tokens), NEW q \in Seq(Tokens), NEW a, NEW b, Computes(p, a), Computes(q, b)
  PROVE  /\ Computes(p \o q \o <<Op("&")>>, a \cap b)
         /\ Computes(p \o q \o <<Op("|")>>, a \cup b)
<1> SUFFICES ASSUME NEW on \in Combinations, NEW state \in States
             PROVE  /\ Leads(p \o q \o <<Op("&")>>, on, state, Pushed(state, on \in a \cap b))
                    /\ Leads(p \o q \o <<Op("|")>>, on, state, Pushed(state, on \in a \cup b))
  BY Zenon DEF Computes
<1> DEFINE v == on \in a
           w == on \in b
           one == Pushed(state, v)
           two == Pushed(one, w)
<1>1. v \in BOOLEAN /\ w \in BOOLEAN /\ (v /\ w) \in BOOLEAN /\ (v \/ w) \in BOOLEAN
  OBVIOUS
<1>2. (on \in a \cap b) = (v /\ w) /\ (on \in a \cup b) = (v \/ w)
  OBVIOUS
<1> HIDE DEF v, w
<1>3. /\ Op("&") \in Tokens /\ <<Op("&")>> \in Seq(Tokens)
      /\ Op("|") \in Tokens /\ <<Op("|")>> \in Seq(Tokens)
      /\ p \o q \in Seq(Tokens)
  BY OpToken
<1>4. one \in States /\ two \in States /\ Pushed(state, v /\ w) \in States /\ Pushed(state, v \/ w) \in States
  BY <1>1, PushedType, Zenon
<1>5. /\ Step(two, Op("&"), on) = Pushed(state, v /\ w)
      /\ Step(two, Op("|"), on) = Pushed(state, v \/ w)
  <2>1. Step(two, Op("&"), on) = Pushed(state, v /\ w)
    BY <1>1, Steps, ZenonT(60)
  <2>2. Step(two, Op("|"), on) = Pushed(state, v \/ w)
    BY <1>1, Steps, ZenonT(60)
  <2> QED BY <2>1, <2>2
<1>6. Leads(p, on, state, one) /\ Leads(q, on, one, two)
  BY <1>4, Zenon DEF Computes, v, w
<1> HIDE DEF one, two
<1>7. Leads(p \o q, on, state, two)
  BY <1>6, LeadsBoth, Zenon
<1>8. /\ Leads(<<Op("&")>>, on, two, Pushed(state, v /\ w))
      /\ Leads(<<Op("|")>>, on, two, Pushed(state, v \/ w))
  BY <1>3, <1>4, <1>5, LeadsOne, Zenon
<1>9. Leads(p \o q \o <<Op("&")>>, on, state, Pushed(state, v /\ w))
  BY <1>3, <1>7, <1>8, LeadsBoth, Zenon
<1>10. Leads(p \o q \o <<Op("|")>>, on, state, Pushed(state, v \/ w))
  BY <1>3, <1>7, <1>8, LeadsBoth, Zenon
<1> QED BY <1>2, <1>9, <1>10, Zenon

(* Calc of such commands is defined and has the value of the reading. *)
LEMMA CalcComputes ==
  ASSUME NEW p \in Seq(Tokens), NEW r, Computes(p, r), NEW on \in Combinations
  PROVE  Calc(p, on).defined = TRUE /\ Calc(p, on).value = (on \in r)
<1> DEFINE start == [stack |-> <<>>, defined |-> TRUE]
           A(f) == f = [n \in 0 .. Len(p) |-> IF n = 0 THEN start ELSE Step(f[n - 1], p[n], on)]
           after == CHOOSE f : A(f)
           v == on \in r
           end == after[Len(p)]
<1>1. start \in States /\ Len(p) \in Nat /\ v \in BOOLEAN
  BY DEF States
<1>2. PICK f \in [0 .. Len(p) -> States] :
        f[0] = start /\ f[Len(p)] = Pushed(start, v) /\ \A n \in 1 .. Len(p) : f[n] = Step(f[n - 1], p[n], on)
  BY <1>1, Zenon DEF Computes, Leads
<1> HIDE DEF start, v
<1>3. A(f)
  <2>1. ASSUME NEW n \in 0 .. Len(p) PROVE f[n] = IF n = 0 THEN start ELSE Step(f[n - 1], p[n], on)
    <3>1. n # 0 => n \in 1 .. Len(p)
      BY <1>1
    <3> QED BY <1>2, <3>1, Zenon
  <2> QED BY <1>2, <2>1
<1>4. A(after)
  <2> HIDE DEF A
  <2> QED BY <1>3, Zenon
<1>5. /\ after[0] = start
      /\ \A n \in 1 .. Len(p) : after[n] = Step(after[n - 1], p[n], on)
  <2>1. \A n \in 0 .. Len(p) : after[n] = IF n = 0 THEN start ELSE Step(after[n - 1], p[n], on)
    <3> HIDE DEF after
    <3> QED BY <1>4, Zenon
  <2>2. 0 \in 0 .. Len(p) /\ \A n \in 1 .. Len(p) : n \in 0 .. Len(p) /\ n # 0
    BY <1>1
  <2> QED BY <2>1, <2>2, Zenon
<1> HIDE DEF after
<1>6. end = f[Len(p)]
  <2> DEFINE T == {n \in 0 .. Len(p) : after[n] # f[n]}
  <2>1. SUFFICES ASSUME T # {} PROVE FALSE
    <3>1. Len(p) \in 0 .. Len(p)
      BY <1>1
    <3> QED BY <2>1, <3>1
  <2>2. PICK n \in T : \A m \in T : n <= m
    <3>1. T \subseteq Nat
      BY <1>1
    <3> HIDE DEF T
    <3> QED BY <2>1, <3>1, LeastElement
  <2>3. n # 0
    BY <1>2, <1>5, <2>2
  <2>4. n \in 1 .. Len(p) /\ n - 1 \in 0 .. Len(p) /\ n - 1 \notin T
    BY <1>1, <2>2, <2>3
  <2>5. after[n - 1] = f[n - 1]
    BY <2>4
  <2> QED BY <1>2, <1>5, <2>2, <2>4, <2>5
<1> HIDE DEF end
<1>7. end = Pushed(start, v)
  BY <1>2, <1>6
<1>8. end.defined = TRUE /\ end.stack = Append(<<>>, v)
  BY <1>7 DEF Pushed, start
<1>9. (end.stack # <<>> /\ Last(end.stack)) = v
  <2>1. Append(<<>>, v) = <<v>> /\ <<v>> # <<>> /\ Len(<<v>>) = 1 /\ <<v>>[1] = v
    OBVIOUS
  <2>2. Last(end.stack) = v
    BY <1>8, <2>1, Zenon DEF Last
  <2> QED BY <1>1, <1>8, <2>1, <2>2, Zenon
<1>10. Calc(p, on) = [defined |-> end.defined, value |-> end.stack # <<>> /\ Last(end.stack)]
  BY Zenon DEF Calc, end, after, start
<1> HIDE DEF A
<1>11. Calc(p, on).defined = end.defined /\ Calc(p, on).value = (end.stack # <<>> /\ Last(end.stack))
  BY <1>10
<1> QED BY <1>8, <1>9, <1>11, Zenon DEF v

-----------------------------------------------------------------------------
(* The grammar.  What an expression is split into is shorter.                       *)
LEMMA Shorter ==
  ASSUME NEW s \in Seq(Tokens)
  PROVE  /\ s # <<>> => Tail(s) \in Seq(Tokens) /\ Len(Tail(s)) < Len(s)
         /\ \A i \in DOMAIN s : /\ Before(s, i) \in Seq(Tokens) /\ Len(Before(s, i)) < Len(s)
                                /\ After(s, i) \in Seq(Tokens) /\ Len(After(s, i)) < Len(s)
         /\ s # <<>> => Inside(s) \in Seq(Tokens) /\ Len(Inside(s)) < Len(s)
<1>1. Len(s) \in Nat /\ DOMAIN s = 1 .. Len(s) /\ (s # <<>> => Len(s) > 0)
  BY EmptySeq
<1>2. ASSUME NEW i \in DOMAIN s
      PROVE  /\ Before(s, i) \in Seq(Tokens) /\ Len(Before(s, i)) < Len(s)
             /\ After(s, i) \in Seq(Tokens) /\ Len(After(s, i)) < Len(s)
  <2>1. i \in 1 .. Len(s)
    BY <1>1
  <2>2. /\ Before(s, i) \in Seq(Tokens) /\ Len(Before(s, i)) = i - 1
    BY <2>1 DEF Before
  <2>3. After(s, i) \in Seq(Tokens) /\ Len(After(s, i)) = Len(s) - i
    BY <2>1 DEF After
  <2> QED BY <1>1, <2>1, <2>2, <2>3
<1>3. ASSUME s # <<>> PROVE Inside(s) \in Seq(Tokens) /\ Len(Inside(s)) < Len(s)
  <2>1. CASE Len(s) = 1
    <3>1. Inside(s) = SubSeq(s, 2, 0)
      BY <2>1 DEF Inside
    <3>2. SubSeq(s, 2, 0) \in Seq(Tokens) /\ Len(SubSeq(s, 2, 0)) = 0
      BY <2>1
    <3> QED BY <2>1, <3>1, <3>2
  <2>2. CASE Len(s) > 1
    <3>1. Inside(s) \in Seq(Tokens) /\ Len(Inside(s)) = Len(s) - 2
      BY <1>1, <2>2 DEF Inside
    <3> QED BY <1>1, <3>1
  <2> QED BY <1>1, <1>3, <2>1, <2>2
<1>4. ASSUME s # <<>> PROVE Tail(s) \in Seq(Tokens) /\ Len(Tail(s)) < Len(s)
  BY <1>4, <1>1
<1> QED BY <1>2, <1>3, <1>4

ReadingSets == SUBSET SUBSET Combinations

(* The readings of the operators are sets of combinations. *)
LEMMA SetsOfReadings ==
  ASSUME NEW A \in ReadingSets, NEW B
  PROVE  /\ Not(B) \in ReadingSets
         /\ Both(A, B) \in ReadingSets
         /\ B \in ReadingSets => Either(A, B) \in ReadingSets
<1>1. Not(B) \in ReadingSets
  BY DEF Not, ReadingSets
<1>2. Both(A, B) \in ReadingSets
  BY DEF Both, ReadingSets
<1>3. ASSUME B \in ReadingSets PROVE Either(A, B) \in ReadingSets
  BY <1>3 DEF Either, ReadingSets
<1> QED BY <1>1, <1>2, <1>3

ReadingsOf == [factor : ReadingSets, term : ReadingSets,
               sum : ReadingSets]

ReadingsBy(R, s) == [factor |-> Factors(R, s), term |-> Terms(R, s), sum |-> Sums(R, s)]

(* The readings by functions that agree below the length of an expression agree, and are sets of *)
(* combinations. *)
LEMMA ReadingsLocal ==
  ASSUME NEW s \in Seq(Tokens), NEW R, NEW Q,
         \A r \in Seq(Tokens) : Len(r) < Len(s) => R[r] = Q[r] /\ R[r] \in ReadingsOf
  PROVE  ReadingsBy(R, s) = ReadingsBy(Q, s) /\ ReadingsBy(R, s) \in ReadingsOf
<1>1. Factors(R, s) = Factors(Q, s) /\ Factors(R, s) \in ReadingSets
  <2>1. CASE StartsWith(s, "!")
    <3>1. s # <<>>
      BY <2>1 DEF StartsWith
    <3>2. R[Tail(s)] = Q[Tail(s)]
      BY <3>1, Shorter
    <3>3. Factors(R, s) = Not(R[Tail(s)].factor) /\ Factors(Q, s) = Not(Q[Tail(s)].factor)
      BY <2>1 DEF Factors, StartsWith
    <3> QED BY <3>2, <3>3 DEF Not, ReadingSets
  <2>2. CASE ~StartsWith(s, "!") /\ StartsWith(s, "(") /\ Last(s).kind = ")"
    <3>1. s # <<>>
      BY <2>2 DEF StartsWith
    <3>2. R[Inside(s)] = Q[Inside(s)] /\ R[Inside(s)] \in ReadingsOf
      BY <3>1, Shorter
    <3>3. Factors(R, s) = R[Inside(s)].sum /\ Factors(Q, s) = Q[Inside(s)].sum
      BY <2>2 DEF Factors, StartsWith
    <3> QED BY <3>2, <3>3 DEF ReadingsOf
  <2>3. CASE ~StartsWith(s, "!") /\ ~(StartsWith(s, "(") /\ Last(s).kind = ")")
    <3>1. Factors(R, s) = Factors(Q, s)
      BY <2>3 DEF Factors
    <3>2. Factors(R, s) \in {{{on \in Combinations : Head(s).id \in on}}, {}}
      BY <2>3 DEF Factors
    <3> QED BY <3>1, <3>2 DEF ReadingSets
  <2> QED BY <2>1, <2>2, <2>3
<1>2. ASSUME NEW i \in DOMAIN s
      PROVE  /\ R[Before(s, i)] = Q[Before(s, i)] /\ R[After(s, i)] = Q[After(s, i)]
             /\ R[Before(s, i)] \in ReadingsOf /\ R[After(s, i)] \in ReadingsOf
  BY Shorter
<1>3. Places(s, "&") \subseteq DOMAIN s /\ Places(s, "|") \subseteq DOMAIN s
  BY DEF Places
<1> DEFINE T(P, i) == Both(P[Before(s, i)].term, P[After(s, i)].factor)
           S(P, i) == Either(P[Before(s, i)].sum, P[After(s, i)].term)
<1>4. Terms(R, s) = Terms(Q, s) /\ Terms(R, s) \in ReadingSets
  <2>1. ASSUME NEW i \in Places(s, "&") PROVE T(R, i) = T(Q, i) /\ T(R, i) \in ReadingSets
    <3>1. T(R, i) = T(Q, i)
      BY <1>2, <1>3
    <3>2. R[Before(s, i)].term \in ReadingSets
      BY <1>2, <1>3 DEF ReadingsOf
    <3> HIDE DEF T
    <3>3. T(R, i) = Both(R[Before(s, i)].term, R[After(s, i)].factor)
      BY Zenon DEF T
    <3>4. T(R, i) \in ReadingSets
      BY <3>2, <3>3, SetsOfReadings, Zenon
    <3> QED BY <3>1, <3>4
  <2> HIDE DEF T
  <2>2. UNION {T(R, i) : i \in Places(s, "&")} = UNION {T(Q, i) : i \in Places(s, "&")}
    BY <2>1
  <2>3. UNION {T(R, i) : i \in Places(s, "&")} \in ReadingSets
    BY <2>1 DEF ReadingSets
  <2>4. /\ Terms(R, s) = Factors(R, s) \cup UNION {T(R, i) : i \in Places(s, "&")}
        /\ Terms(Q, s) = Factors(Q, s) \cup UNION {T(Q, i) : i \in Places(s, "&")}
    BY Zenon DEF Terms, T
  <2>5. Terms(R, s) = Terms(Q, s)
    BY <1>1, <2>2, <2>4, Zenon
  <2>6. Terms(R, s) \in ReadingSets
    BY <1>1, <2>3, <2>4 DEF ReadingSets
  <2> QED BY <2>5, <2>6
<1>5. Sums(R, s) = Sums(Q, s) /\ Sums(R, s) \in ReadingSets
  <2>1. ASSUME NEW i \in Places(s, "|") PROVE S(R, i) = S(Q, i) /\ S(R, i) \in ReadingSets
    <3>1. S(R, i) = S(Q, i)
      BY <1>2, <1>3
    <3>2. R[Before(s, i)].sum \in ReadingSets /\ R[After(s, i)].term \in ReadingSets
      BY <1>2, <1>3 DEF ReadingsOf
    <3> HIDE DEF S
    <3>3. S(R, i) = Either(R[Before(s, i)].sum, R[After(s, i)].term)
      BY Zenon DEF S
    <3>4. S(R, i) \in ReadingSets
      BY <3>2, <3>3, SetsOfReadings, Zenon
    <3> QED BY <3>1, <3>4
  <2> HIDE DEF S
  <2>2. UNION {S(R, i) : i \in Places(s, "|")} = UNION {S(Q, i) : i \in Places(s, "|")}
    BY <2>1
  <2>3. UNION {S(R, i) : i \in Places(s, "|")} \in ReadingSets
    BY <2>1 DEF ReadingSets
  <2>4. /\ Sums(R, s) = Terms(R, s) \cup UNION {S(R, i) : i \in Places(s, "|")}
        /\ Sums(Q, s) = Terms(Q, s) \cup UNION {S(Q, i) : i \in Places(s, "|")}
    BY Zenon DEF Sums, S
  <2>5. Sums(R, s) = Sums(Q, s)
    BY <1>4, <2>2, <2>4, Zenon
  <2>6. Sums(R, s) \in ReadingSets
    BY <1>4, <2>3, <2>4 DEF ReadingSets
  <2> QED BY <2>5, <2>6
<1> QED BY <1>1, <1>4, <1>5 DEF ReadingsBy, ReadingsOf

(* The function that the readings are defined by. *)
Reads == CHOOSE f : f = [r \in Seq(Tokens) |-> ReadingsBy(f, r)]

(* Readings in terms of it. *)
LEMMA ReadsIsReadings ==
  ASSUME NEW s
  PROVE  Readings(s) = Reads[s].sum
BY Zenon DEF Readings, Reads, ReadingsBy

(* There is one, so it satisfies its definition. *)
LEMMA ReadsUnfolds ==
  ASSUME NEW s \in Seq(Tokens)
  PROVE  Reads[s] = ReadingsBy(Reads, s)
<1> DEFINE D == Seq(Tokens)
           W == [r \in D |-> ReadingsOf]
           rank == [r \in D |-> Len(r)]
           G == [f \in Typed(D, W) |-> [r \in D |-> ReadingsBy(f, r)]]
           nothing == [factor |-> {}, term |-> {}, sum |-> {}]
<1>1. \A f : f \in Typed(D, W) <=> f \in [D -> ReadingsOf]
  <2>1. ASSUME NEW f \in [D -> ReadingsOf] PROVE f \in Typed(D, W)
    <3>1. <<>> \in D
      OBVIOUS
    <3>2. UNION {W[x] : x \in D} = ReadingsOf
      <4> HIDE DEF D
      <4> QED BY <3>1
    <3>3. \A x \in D : W[x] = ReadingsOf
      OBVIOUS
    <3> HIDE DEF W, D
    <3> QED BY <3>2, <3>3 DEF Typed
  <2>2. ASSUME NEW f \in Typed(D, W) PROVE f \in [D -> ReadingsOf]
    <3>1. f = [x \in D |-> f[x]] /\ \A x \in D : f[x] \in W[x]
      BY DEF Typed
    <3>2. \A x \in D : W[x] = ReadingsOf
      OBVIOUS
    <3> HIDE DEF W, D
    <3> QED BY <3>1, <3>2
  <2> QED BY <2>1, <2>2
<1>2. Typed(D, W) # {}
  <2>1. [r \in D |-> nothing] \in [D -> ReadingsOf]
    <3>1. nothing \in ReadingsOf
      BY DEF ReadingsOf, ReadingSets
    <3> QED BY <3>1
  <2> HIDE DEF D, W
  <2> QED BY <1>1, <2>1
<1>3. \A f, g \in Typed(D, W), r \in D :
        AgreeBelow(f, g, D, rank, rank[r]) => ReadingsBy(f, r) = ReadingsBy(g, r) /\ ReadingsBy(f, r) \in ReadingsOf
  <2> SUFFICES ASSUME NEW f \in Typed(D, W), NEW g \in Typed(D, W), NEW r \in D,
                      AgreeBelow(f, g, D, rank, rank[r])
               PROVE  ReadingsBy(f, r) = ReadingsBy(g, r) /\ ReadingsBy(f, r) \in ReadingsOf
    BY Zenon
  <2>1. ASSUME NEW q \in Seq(Tokens), Len(q) < Len(r) PROVE f[q] = g[q] /\ f[q] \in ReadingsOf
    <3>1. f \in [D -> ReadingsOf]
      BY <1>1, Zenon
    <3> QED BY <2>1, <3>1 DEF AgreeBelow
  <2> QED BY <2>1, ReadingsLocal
<1>4. LocalRecursion(D, W, rank, G)
  <2>1. rank \in [D -> Nat]
    OBVIOUS
  <2>2. ASSUME NEW f \in Typed(D, W) PROVE G[f] \in Typed(D, W) /\ \A r \in D : G[f][r] = ReadingsBy(f, r)
    <3>1. \A r \in D : ReadingsBy(f, r) \in ReadingsOf
      BY <1>3 DEF AgreeBelow
    <3>2. G[f] = [r \in D |-> ReadingsBy(f, r)]
      OBVIOUS
    <3>3. G[f] \in [D -> ReadingsOf]
      BY <3>1, <3>2
    <3> HIDE DEF G, D, W
    <3> QED BY <1>1, <3>2, <3>3
  <2>3. G = [f \in Typed(D, W) |-> G[f]]
    OBVIOUS
  <2> HIDE DEF G, D, W, rank
  <2>4. G \in [Typed(D, W) -> Typed(D, W)]
    BY <2>2, <2>3
  <2>5. \A e, g \in Typed(D, W), x \in D : AgreeBelow(e, g, D, rank, rank[x]) => G[e][x] = G[g][x]
    BY <1>3, <2>2
  <2> QED BY <2>1, <2>4, <2>5 DEF LocalRecursion
<1>5. PICK f \in Typed(D, W) : f = [r \in D |-> G[f][r]]
  <2> HIDE DEF G, D, W, rank
  <2> QED BY <1>2, <1>4, Solution
<1>6. f = [r \in D |-> ReadingsBy(f, r)]
  <2>1. \A r \in D : G[f][r] = ReadingsBy(f, r)
    OBVIOUS
  <2> HIDE DEF G, W
  <2> QED BY <1>5, <2>1
<1>7. Reads = [r \in Seq(Tokens) |-> ReadingsBy(Reads, r)]
  BY <1>6, Zenon DEF Reads
<1> HIDE DEF G, W, rank
<1> QED BY <1>7, Zenon


(* The readings are sets of combinations. *)
LEMMA ReadsTyped ==
  \A s \in Seq(Tokens) : Reads[s] \in ReadingsOf
<1> DEFINE Off == {s \in Seq(Tokens) : Reads[s] \notin ReadingsOf}
           T == {Len(s) : s \in Off}
<1>1. SUFFICES ASSUME T # {} PROVE FALSE
  BY <1>1, Zenon
<1>2. T \subseteq Nat
  OBVIOUS
<1>3. PICK k \in T : \A l \in T : k <= l
  BY <1>1, <1>2, LeastElement
<1>4. PICK s \in Off : Len(s) = k
  BY <1>3
<1>5. ASSUME NEW u \in Seq(Tokens), Len(u) < Len(s) PROVE Reads[u] \in ReadingsOf
  <2>1. Len(u) \in Nat /\ Len(s) \in Nat
    OBVIOUS
  <2>2. Len(u) \notin T
    <3> HIDE DEF T, Off
    <3> QED BY <1>3, <1>4, <1>5, <2>1
  <2> QED BY <2>2
<1>6. s \in Seq(Tokens) /\ Reads[s] \notin ReadingsOf
  OBVIOUS
<1>7. ReadingsBy(Reads, s) \in ReadingsOf
  BY <1>5, <1>6, ReadingsLocal
<1> QED BY <1>6, <1>7, ReadsUnfolds
-----------------------------------------------------------------------------
(* An expression is what is before a token of it, the token and what is after it. *)
LEMMA Around ==
  ASSUME NEW u \in Seq(Tokens), NEW c \in Tokens, NEW v \in Seq(Tokens)
  PROVE  LET s == u \o <<c>> \o v
             i == Len(u) + 1
         IN  /\ s \in Seq(Tokens) /\ Len(s) = Len(u) + 1 + Len(v) /\ i \in DOMAIN s /\ s[i] = c
             /\ Before(s, i) = u /\ After(s, i) = v
<1> DEFINE s == u \o <<c>> \o v
           i == Len(u) + 1
           uc == u \o <<c>>
<1>1. Len(u) \in Nat /\ Len(v) \in Nat
  OBVIOUS
<1>2. /\ <<c>> \in Seq(Tokens) /\ uc \in Seq(Tokens) /\ Len(uc) = Len(u) + 1
      /\ uc[Len(u) + 1] = c /\ \A n \in 1 .. Len(u) : uc[n] = u[n]
  OBVIOUS
<1>3. /\ s \in Seq(Tokens) /\ Len(s) = Len(uc) + Len(v)
      /\ (\A n \in 1 .. Len(uc) : s[n] = uc[n]) /\ (\A n \in 1 .. Len(v) : s[Len(uc) + n] = v[n])
  <2>0. uc \in Seq(Tokens)
    BY <1>2
  <2> HIDE DEF uc
  <2>1. /\ uc \o v \in Seq(Tokens) /\ Len(uc \o v) = Len(uc) + Len(v)
        /\ (\A n \in 1 .. Len(uc) : (uc \o v)[n] = uc[n]) /\ (\A n \in 1 .. Len(v) : (uc \o v)[Len(uc) + n] = v[n])
    BY <2>0
  <2> QED BY <2>1 DEF uc
<1> HIDE DEF s, uc
<1>4. Len(s) = Len(u) + 1 + Len(v) /\ i \in DOMAIN s /\ s[i] = c
  BY <1>1, <1>2, <1>3
<1>5. Before(s, i) = u
  <2>1. /\ SubSeq(s, 1, Len(u)) \in Seq(Tokens) /\ Len(SubSeq(s, 1, Len(u))) = Len(u)
        /\ \A n \in 1 .. Len(u) : SubSeq(s, 1, Len(u))[n] = s[n]
    BY <1>1, <1>3, <1>4
  <2>2. \A n \in 1 .. Len(u) : s[n] = u[n]
    BY <1>1, <1>2, <1>3
  <2>3. SubSeq(s, 1, Len(u)) = u
    BY <2>1, <2>2, SeqEqual
  <2> QED BY <1>1, <2>3 DEF Before
<1>6. After(s, i) = v
  <2> DEFINE a == SubSeq(s, i + 1, Len(s))
  <2>1. /\ a \in Seq(Tokens) /\ Len(a) = Len(v)
        /\ \A n \in 1 .. Len(v) : a[n] = s[i + n]
    <3>1. Len(s) = Len(u) + 1 + Len(v)
      BY <1>4
    <3>2. i \in Nat /\ Len(s) \in Nat /\ 1 <= i /\ i <= Len(s) /\ Len(s) - i = Len(v)
      BY <1>1, <3>1
    <3> HIDE DEF i
    <3> QED BY <1>3, <3>2
  <2>2. \A n \in 1 .. Len(v) : s[i + n] = v[n]
    BY <1>1, <1>2, <1>3
  <2> HIDE DEF a
  <2>3. a = v
    BY <2>1, <2>2, SeqEqual
  <2> QED BY <2>3 DEF After, a
<1> QED BY <1>3, <1>4, <1>5, <1>6 DEF s, uc

(* What a sequence is put together from again. *)
LEMMA Apart ==
  ASSUME NEW s \in Seq(Tokens), NEW i \in DOMAIN s
  PROVE  s = Before(s, i) \o <<s[i]>> \o After(s, i)
<1> DEFINE u == Before(s, i)
           v == After(s, i)
           t == u \o <<s[i]>> \o v
<1>1. i \in 1 .. Len(s) /\ s[i] \in Tokens /\ Len(s) \in Nat
  OBVIOUS
<1>2. /\ u \in Seq(Tokens) /\ Len(u) = i - 1 /\ \A n \in 1 .. i - 1 : u[n] = s[n]
  BY <1>1 DEF Before
<1>3. /\ v \in Seq(Tokens) /\ Len(v) = Len(s) - i /\ \A n \in 1 .. Len(s) - i : v[n] = s[i + n]
  BY <1>1 DEF After
<1> HIDE DEF u, v
<1> DEFINE w == u \o <<s[i]>>
<1>4. w \in Seq(Tokens) /\ Len(w) = i /\ w[i] = s[i] /\ \A n \in 1 .. i - 1 : w[n] = s[n]
  BY <1>1, <1>2
<1>5. \A n \in 1 .. i : w[n] = s[n]
  <2> HIDE DEF w
  <2> QED BY <1>1, <1>4
<1>6. t = w \o v
  OBVIOUS
<1> HIDE DEF w, t
<1>7. t \in Seq(Tokens) /\ Len(t) = Len(s) /\ \A n \in 1 .. Len(s) - i : t[i + n] = s[i + n]
  BY <1>1, <1>3, <1>4, <1>6
<1>8. \A n \in 1 .. Len(s) : t[n] = s[n]
  <2> SUFFICES ASSUME NEW n \in 1 .. Len(s) PROVE t[n] = s[n]
    OBVIOUS
  <2>1. CASE n <= i
    BY <1>1, <1>3, <1>4, <1>5, <1>6, <2>1
  <2>2. CASE n > i
    <3>1. n - i \in 1 .. Len(s) - i /\ i + (n - i) = n
      BY <1>1, <2>2
    <3>2. t[i + (n - i)] = s[i + (n - i)]
      BY <1>7, <3>1
    <3> QED BY <3>1, <3>2
  <2> QED BY <1>1, <2>1, <2>2
<1>9. s = t
  BY <1>7, <1>8, SeqEqual
<1> QED BY <1>9 DEF t, u, v

(* The first token and the rest. *)
LEMMA First ==
  ASSUME NEW s \in Seq(Tokens), s # <<>>
  PROVE  Head(s) \in Tokens /\ Tail(s) \in Seq(Tokens) /\ s = <<Head(s)>> \o Tail(s)
<1>1. Head(s) \in Tokens /\ Tail(s) \in Seq(Tokens) /\ Len(s) > 0 /\ Head(s) = s[1]
  BY EmptySeq
<1>2. DOMAIN s = 1 .. Len(s) /\ 1 \in DOMAIN s
  BY <1>1
<1>3. s = Before(s, 1) \o <<s[1]>> \o After(s, 1)
  BY <1>2, Apart, Zenon
<1>4. Before(s, 1) = <<>>
  BY <1>1 DEF Before
<1>5. After(s, 1) = Tail(s)
  BY <1>1 DEF After
<1>6. <<>> \o <<s[1]>> = <<s[1]>>
  OBVIOUS
<1> QED BY <1>1, <1>3, <1>4, <1>5, <1>6

(* What has a token in front of it. *)
LEMMA Prefixed ==
  ASSUME NEW c \in Tokens, NEW v \in Seq(Tokens)
  PROVE  LET s == <<c>> \o v
         IN  s \in Seq(Tokens) /\ s # <<>> /\ Head(s) = c /\ Tail(s) = v /\ Len(s) = Len(v) + 1
<1>1. <<>> \o <<c>> = <<c>>
  OBVIOUS
<1> DEFINE s == <<c>> \o v
<1>2. s \in Seq(Tokens) /\ Len(s) = Len(v) + 1 /\ s[1] = c /\ After(s, 1) = v
  <2>1. Len(<<>>) = 0 /\ <<>> \in Seq(Tokens)
    OBVIOUS
  <2>2. s \in Seq(Tokens) /\ Len(s) = 0 + 1 + Len(v) /\ s[0 + 1] = c /\ After(s, 0 + 1) = v
    <3> HIDE DEF s
    <3>1. s = <<>> \o <<c>> \o v
      BY <1>1 DEF s
    <3> QED BY <2>1, <3>1, Around, Zenon
  <2> QED BY <2>2
<1> HIDE DEF s
<1>3. Len(v) \in Nat /\ s # <<>>
  BY <1>2
<1>4. Head(s) = c /\ Tail(s) = After(s, 1)
  BY <1>2, <1>3 DEF After
<1> QED BY <1>2, <1>3, <1>4 DEF s

(* In parentheses. *)
LEMMA Enclosed ==
  ASSUME NEW b \in Tokens, NEW u \in Seq(Tokens), NEW c \in Tokens
  PROVE  LET s == <<b>> \o u \o <<c>>
         IN  /\ s \in Seq(Tokens) /\ s # <<>> /\ Head(s) = b /\ Last(s) = c /\ Inside(s) = u
             /\ Len(s) = Len(u) + 2
<1> DEFINE v == u \o <<c>>
           s == <<b>> \o v
<1>1. v \in Seq(Tokens) /\ Len(v) = Len(u) + 1 /\ v[Len(u) + 1] = c /\ Len(u) \in Nat
      /\ \A n \in 1 .. Len(u) : v[n] = u[n]
  OBVIOUS
<1>2. s = <<b>> \o u \o <<c>>
  BY ConcatAssociative
<1> HIDE DEF v
<1>3. s \in Seq(Tokens) /\ s # <<>> /\ Head(s) = b /\ Tail(s) = v /\ Len(s) = Len(v) + 1
  BY <1>1, Prefixed
<1> HIDE DEF s
<1>4. Len(s) = Len(u) + 2 /\ \A n \in 1 .. Len(v) : s[n + 1] = v[n]
  BY <1>1, <1>3
<1>5. Last(s) = c
  BY <1>1, <1>4 DEF Last
<1>6. Inside(s) = u
  <2> DEFINE a == SubSeq(s, 2, Len(s) - 1)
  <2>1. /\ a \in Seq(Tokens) /\ Len(a) = Len(u) /\ \A n \in 1 .. Len(u) : a[n] = s[n + 1]
    BY <1>1, <1>3, <1>4
  <2>2. \A n \in 1 .. Len(u) : s[n + 1] = u[n]
    BY <1>1, <1>4
  <2> HIDE DEF a
  <2>3. a = u
    BY <2>1, <2>2, SeqEqual
  <2> QED BY <2>3 DEF Inside, a
<1> QED BY <1>2, <1>3, <1>4, <1>5, <1>6

(* What is between the first and the last token. *)
LEMMA Opened ==
  ASSUME NEW s \in Seq(Tokens), s # <<>>, Head(s).kind # Last(s).kind
  PROVE  Inside(s) \in Seq(Tokens) /\ s = <<Head(s)>> \o Inside(s) \o <<Last(s)>>
<1>1. Len(s) \in Nat /\ Len(s) > 0 /\ Head(s) = s[1] /\ Last(s) = s[Len(s)]
  BY EmptySeq DEF Last
<1>2. Len(s) > 1
  BY <1>1
<1> DEFINE u == Inside(s)
           t == <<Head(s)>> \o u \o <<Last(s)>>
<1>3. u \in Seq(Tokens) /\ Len(u) = Len(s) - 2 /\ \A n \in 1 .. Len(s) - 2 : u[n] = s[n + 1]
  <2> DEFINE k == Len(s) - 1
  <2>1. k \in Nat /\ 1 <= k /\ k <= Len(s) /\ k - 1 = Len(s) - 2
    BY <1>1, <1>2
  <2> HIDE DEF k
  <2>2. /\ SubSeq(s, 2, k) \in Seq(Tokens) /\ Len(SubSeq(s, 2, k)) = k - 1
        /\ \A n \in 1 .. k - 1 : SubSeq(s, 2, k)[n] = s[n + 1]
    BY <1>1, <2>1
  <2> QED BY <2>1, <2>2 DEF Inside, k
<1>4. Head(s) \in Tokens /\ Last(s) \in Tokens
  BY <1>1
<1> HIDE DEF u
<1> DEFINE w == <<Head(s)>> \o u
<1>5. w \in Seq(Tokens) /\ Len(w) = Len(s) - 1 /\ w[1] = s[1] /\ \A n \in 1 .. Len(s) - 2 : w[n + 1] = s[n + 1]
  BY <1>1, <1>2, <1>3, <1>4
<1>6. t = w \o <<Last(s)>>
  OBVIOUS
<1> HIDE DEF w, t
<1>7. t \in Seq(Tokens) /\ Len(t) = Len(s) /\ t[Len(s)] = s[Len(s)] /\ \A n \in 1 .. Len(s) - 1 : t[n] = w[n]
  BY <1>1, <1>2, <1>4, <1>5, <1>6
<1>8. \A n \in 1 .. Len(s) : t[n] = s[n]
  <2> SUFFICES ASSUME NEW n \in 1 .. Len(s) PROVE t[n] = s[n]
    OBVIOUS
  <2>1. CASE n = 1
    BY <1>2, <1>5, <1>7, <2>1
  <2>2. CASE n = Len(s)
    BY <1>7, <2>2
  <2>3. CASE n # 1 /\ n # Len(s)
    <3>1. n - 1 \in 1 .. Len(s) - 2 /\ (n - 1) + 1 = n /\ n \in 1 .. Len(s) - 1
      BY <1>1, <2>3
    <3> QED BY <1>5, <1>7, <3>1
  <2> QED BY <2>1, <2>2, <2>3
<1>9. s = t
  BY <1>7, <1>8, SeqEqual
<1> QED BY <1>3, <1>9 DEF t, u

-----------------------------------------------------------------------------
(* The grammar rule by rule.                                                  *)
Factor(s) == Reads[s].factor
Term(s)   == Reads[s].term
Sum(s)    == Reads[s].sum

SignalReading(n) == {on \in Combinations : n \in on}

(* The definition, rule by rule. *)
LEMMA Rules ==
  ASSUME NEW s \in Seq(Tokens)
  PROVE  Factor(s) = Factors(Reads, s) /\ Term(s) = Terms(Reads, s) /\ Sum(s) = Sums(Reads, s)
<1>1. Reads[s] = ReadingsBy(Reads, s)
  BY ReadsUnfolds
<1> QED BY <1>1 DEF ReadingsBy, Factor, Term, Sum

(* What a token is follows from its kind. *)
LEMMA KindOfToken ==
  ASSUME NEW t \in Tokens
  PROVE  /\ t.kind \in {"&", "|", "!", "(", ")"} => t = Op(t.kind)
         /\ t.kind = "signal" => t.id \in Nat /\ t = Sig(t.id)
BY DEF Tokens, Op, Sig

(* What the rules make. *)
LEMMA FactorsMade ==
  ASSUME NEW u \in Seq(Tokens)
  PROVE  /\ Factor(<<Op("!")>> \o u) = Not(Factor(u))
         /\ Factor(<<Op("(")>> \o u \o <<Op(")")>>) = Sum(u)
         /\ \A n \in Nat : Factor(<<Sig(n)>>) = {SignalReading(n)}
<1>1. Factor(<<Op("!")>> \o u) = Not(Factor(u))
  <2> DEFINE s == <<Op("!")>> \o u
  <2>1. s \in Seq(Tokens) /\ s # <<>> /\ Head(s) = Op("!") /\ Tail(s) = u
    BY OpToken, Prefixed, Zenon
  <2> HIDE DEF s
  <2>2. StartsWith(s, "!") /\ ~StartsWith(s, "(") /\ ~StartsWith(s, "signal")
    BY <2>1 DEF StartsWith, Op
  <2>3. Factors(Reads, s) = Not(Reads[u].factor)
    BY <2>1, <2>2 DEF Factors
  <2>4. Factor(s) = Not(Factor(u))
    BY <2>1, <2>3, Rules, Zenon DEF Factor
  <2> QED BY <2>4 DEF s
<1>2. Factor(<<Op("(")>> \o u \o <<Op(")")>>) = Sum(u)
  <2> DEFINE s == <<Op("(")>> \o u \o <<Op(")")>>
  <2>1. s \in Seq(Tokens) /\ s # <<>> /\ Head(s) = Op("(") /\ Last(s) = Op(")") /\ Inside(s) = u
    BY OpToken, Enclosed, Zenon
  <2> HIDE DEF s
  <2>2. ~StartsWith(s, "!") /\ StartsWith(s, "(") /\ ~StartsWith(s, "signal") /\ Last(s).kind = ")"
    BY <2>1 DEF StartsWith, Op
  <2>3. Factors(Reads, s) = Reads[u].sum
    BY <2>1, <2>2 DEF Factors
  <2>4. Factor(s) = Sum(u)
    BY <2>1, <2>3, Rules, Zenon DEF Sum
  <2> QED BY <2>4 DEF s
<1>3. ASSUME NEW n \in Nat PROVE Factor(<<Sig(n)>>) = {SignalReading(n)}
  <2> DEFINE s == <<Sig(n)>>
  <2>1. Sig(n) \in Tokens /\ Sig(n).kind = "signal" /\ Sig(n).id = n
    BY DEF Sig, Tokens
  <2>2. s \in Seq(Tokens) /\ s # <<>> /\ Head(s) = Sig(n) /\ Len(s) = 1
    BY <2>1
  <2> HIDE DEF s
  <2>3. ~StartsWith(s, "!") /\ ~StartsWith(s, "(") /\ StartsWith(s, "signal")
    BY <2>1, <2>2 DEF StartsWith
  <2>4. Factors(Reads, s) = {{on \in Combinations : Head(s).id \in on}}
    BY <2>2, <2>3 DEF Factors
  <2>5. Factors(Reads, s) = {SignalReading(n)}
    BY <2>1, <2>2, <2>4, Zenon DEF SignalReading
  <2> QED BY <2>2, <2>5, Rules, Zenon DEF s
<1> QED BY <1>1, <1>2, <1>3

(* What "&" and "|" make of readings. *)
LEMMA TermsMade ==
  ASSUME NEW u \in Seq(Tokens), NEW v \in Seq(Tokens)
  PROVE  /\ Factor(u) \subseteq Term(u) /\ Term(u) \subseteq Sum(u)
         /\ \A a \in Term(u), b \in Factor(v) : a \cap b \in Term(u \o <<Op("&")>> \o v)
         /\ \A a \in Sum(u), b \in Term(v) : a \cup b \in Sum(u \o <<Op("|")>> \o v)
<1>1. Factor(u) \subseteq Term(u) /\ Term(u) \subseteq Sum(u)
  BY Rules DEF Terms, Sums
<1>2. ASSUME NEW a \in Term(u), NEW b \in Factor(v) PROVE a \cap b \in Term(u \o <<Op("&")>> \o v)
  <2> DEFINE s == u \o <<Op("&")>> \o v
             i == Len(u) + 1
  <2>1. s \in Seq(Tokens) /\ i \in DOMAIN s /\ s[i] = Op("&") /\ Before(s, i) = u /\ After(s, i) = v
    <3>1. Op("&") \in Tokens
      BY OpToken
    <3> QED BY <3>1, Around
  <2> HIDE DEF s, i
  <2>2. i \in Places(s, "&")
    BY <2>1 DEF Places, Op
  <2>3. a \cap b \in Both(Reads[Before(s, i)].term, Reads[After(s, i)].factor)
    BY <2>1, SMT DEF Both, Term, Factor
  <2>4. a \cap b \in Terms(Reads, s)
    BY <2>2, <2>3, Zenon DEF Terms
  <2>5. a \cap b \in Term(s)
    BY <2>1, <2>4, Rules, Zenon
  <2> QED BY <2>5 DEF s
<1>3. ASSUME NEW a \in Sum(u), NEW b \in Term(v) PROVE a \cup b \in Sum(u \o <<Op("|")>> \o v)
  <2> DEFINE s == u \o <<Op("|")>> \o v
             i == Len(u) + 1
  <2>1. s \in Seq(Tokens) /\ i \in DOMAIN s /\ s[i] = Op("|") /\ Before(s, i) = u /\ After(s, i) = v
    <3>1. Op("|") \in Tokens
      BY OpToken
    <3> QED BY <3>1, Around
  <2> HIDE DEF s, i
  <2>2. i \in Places(s, "|")
    BY <2>1 DEF Places, Op
  <2>3. a \cup b \in Either(Reads[Before(s, i)].sum, Reads[After(s, i)].term)
    BY <2>1, SMT DEF Either, Sum, Term
  <2>4. a \cup b \in Sums(Reads, s)
    BY <2>2, <2>3, Zenon DEF Sums
  <2>5. a \cup b \in Sum(s)
    BY <2>1, <2>4, Rules, Zenon
  <2> QED BY <2>5 DEF s
<1> QED BY <1>1, <1>2, <1>3

(* What they are made of. *)
LEMMA FactorMadeOf ==
  ASSUME NEW s \in Seq(Tokens), NEW r \in Factor(s)
  PROVE  \/ \E u \in Seq(Tokens) : /\ s = <<Op("!")>> \o u /\ Len(u) < Len(s)
                                   /\ \E a \in Factor(u) : r = Combinations \ a
         \/ \E u \in Seq(Tokens) : /\ s = <<Op("(")>> \o u \o <<Op(")")>> /\ Len(u) < Len(s)
                                   /\ r \in Sum(u)
         \/ \E n \in Nat : s = <<Sig(n)>> /\ r = SignalReading(n)
<1>1. r \in Factors(Reads, s)
  BY Rules
<1>2. CASE StartsWith(s, "!")
  <2>1. s # <<>> /\ Head(s).kind = "!" /\ ~StartsWith(s, "(") /\ ~StartsWith(s, "signal")
    BY <1>2 DEF StartsWith
  <2>2. Head(s) \in Tokens /\ Tail(s) \in Seq(Tokens) /\ s = <<Head(s)>> \o Tail(s)
    BY <2>1, First
  <2>3. Head(s) = Op("!")
    BY <2>1, <2>2, KindOfToken
  <2>4. Len(Tail(s)) < Len(s)
    BY <2>1, Shorter
  <2>5. Factors(Reads, s) = Not(Reads[Tail(s)].factor)
    BY <1>2, <2>1 DEF Factors
  <2>6. \E a \in Factor(Tail(s)) : r = Combinations \ a
    BY <1>1, <2>5, Zenon DEF Not, Factor
  <2> QED BY <2>2, <2>3, <2>4, <2>6, Zenon
<1>3. CASE StartsWith(s, "(") /\ Last(s).kind = ")"
  <2>1. s # <<>> /\ Head(s).kind = "(" /\ ~StartsWith(s, "!") /\ ~StartsWith(s, "signal")
    BY <1>3 DEF StartsWith
  <2>2. Inside(s) \in Seq(Tokens) /\ s = <<Head(s)>> \o Inside(s) \o <<Last(s)>>
    <3>1. Head(s).kind # Last(s).kind
      BY <1>3, <2>1
    <3> QED BY <2>1, <3>1, Opened, Zenon
  <2>3. Head(s) \in Tokens /\ Last(s) \in Tokens
    <3>1. Len(s) \in Nat /\ Len(s) > 0
      BY <2>1, EmptySeq
    <3> QED BY <3>1 DEF Last
  <2>4. Head(s) = Op("(") /\ Last(s) = Op(")")
    BY <1>3, <2>1, <2>3, KindOfToken
  <2>5. Len(Inside(s)) < Len(s)
    BY <2>1, Shorter
  <2>6. Factors(Reads, s) = Reads[Inside(s)].sum
    BY <1>3, <2>1 DEF Factors
  <2>7. r \in Sum(Inside(s))
    BY <1>1, <2>6, Zenon DEF Sum
  <2> QED BY <2>2, <2>4, <2>5, <2>7, Zenon
<1>4. CASE ~StartsWith(s, "!") /\ ~(StartsWith(s, "(") /\ Last(s).kind = ")")
  <2>1. StartsWith(s, "signal") /\ Len(s) = 1 /\ Factors(Reads, s) = {{on \in Combinations : Head(s).id \in on}}
    BY <1>1, <1>4 DEF Factors
  <2>2. s # <<>> /\ Head(s).kind = "signal"
    BY <2>1 DEF StartsWith
  <2>3. Head(s) \in Tokens
    BY <2>2, First
  <2>4. Head(s).id \in Nat /\ Head(s) = Sig(Head(s).id)
    BY <2>2, <2>3, KindOfToken
  <2>5. s = <<Head(s)>>
    BY <2>1
  <2>6. r = SignalReading(Head(s).id)
    BY <1>1, <2>1, Zenon DEF SignalReading
  <2>7. s = <<Sig(Head(s).id)>>
    BY <2>4, <2>5, Zenon
  <2> QED BY <2>4, <2>6, <2>7, Zenon
<1> QED BY <1>2, <1>3, <1>4

(* r is the reading that a term and a factor make of s. *)
TermSplit(s, r) ==
  \E u, v \in Seq(Tokens) :
    /\ s = u \o <<Op("&")>> \o v /\ Len(u) < Len(s) /\ Len(v) < Len(s)
    /\ \E a \in Term(u), b \in Factor(v) : r = a \cap b

(* A reading of a term is one of a factor or split at an "&". *)
LEMMA TermMadeOf ==
  ASSUME NEW s \in Seq(Tokens), NEW r \in Term(s)
  PROVE  r \in Factor(s) \/ TermSplit(s, r)
<1> SUFFICES ASSUME r \notin Factor(s)
             PROVE  \E u, v \in Seq(Tokens) :
                      /\ s = u \o <<Op("&")>> \o v /\ Len(u) < Len(s) /\ Len(v) < Len(s)
                      /\ \E a \in Term(u), b \in Factor(v) : r = a \cap b
  BY Zenon DEF TermSplit
<1>1. PICK i \in Places(s, "&") : r \in Both(Reads[Before(s, i)].term, Reads[After(s, i)].factor)
  BY Rules DEF Terms
<1>2. i \in DOMAIN s /\ s[i] \in Tokens /\ s[i].kind = "&"
  BY DEF Places
<1>3. s[i] = Op("&")
  BY <1>2, KindOfToken
<1>4. /\ Before(s, i) \in Seq(Tokens) /\ Len(Before(s, i)) < Len(s)
      /\ After(s, i) \in Seq(Tokens) /\ Len(After(s, i)) < Len(s)
  BY <1>2, Shorter
<1>5. s = Before(s, i) \o <<Op("&")>> \o After(s, i)
  BY <1>2, <1>3, Apart, Zenon
<1>6. \E a \in Term(Before(s, i)), b \in Factor(After(s, i)) : r = a \cap b
  BY <1>1, SMT DEF Both, Term, Factor
<1> QED BY <1>4, <1>5, <1>6, Zenon

(* r is the reading that a sum and a term make of s. *)
SumSplit(s, r) ==
  \E u, v \in Seq(Tokens) :
    /\ s = u \o <<Op("|")>> \o v /\ Len(u) < Len(s) /\ Len(v) < Len(s)
    /\ \E a \in Sum(u), b \in Term(v) : r = a \cup b

(* A reading of a sum is one of a term or split at an "|". *)
LEMMA SumMadeOf ==
  ASSUME NEW s \in Seq(Tokens), NEW r \in Sum(s)
  PROVE  r \in Term(s) \/ SumSplit(s, r)
<1> SUFFICES ASSUME r \notin Term(s)
             PROVE  \E u, v \in Seq(Tokens) :
                      /\ s = u \o <<Op("|")>> \o v /\ Len(u) < Len(s) /\ Len(v) < Len(s)
                      /\ \E a \in Sum(u), b \in Term(v) : r = a \cup b
  BY Zenon DEF SumSplit
<1>1. PICK i \in Places(s, "|") : r \in Either(Reads[Before(s, i)].sum, Reads[After(s, i)].term)
  BY Rules DEF Sums
<1>2. i \in DOMAIN s /\ s[i] \in Tokens /\ s[i].kind = "|"
  BY DEF Places
<1>3. s[i] = Op("|")
  BY <1>2, KindOfToken
<1>4. /\ Before(s, i) \in Seq(Tokens) /\ Len(Before(s, i)) < Len(s)
      /\ After(s, i) \in Seq(Tokens) /\ Len(After(s, i)) < Len(s)
  BY <1>2, Shorter
<1>5. s = Before(s, i) \o <<Op("|")>> \o After(s, i)
  BY <1>2, <1>3, Apart, Zenon
<1>6. \E a \in Sum(Before(s, i)), b \in Term(After(s, i)) : r = a \cup b
  BY <1>1, SMT DEF Either, Sum, Term
<1> QED BY <1>4, <1>5, <1>6, Zenon

-----------------------------------------------------------------------------
(* The parser is sound.  What it may answer to a call: a rule that begins with an       *)
(* operand has read a part of the tokens that the grammar has, unless the tokens are    *)
(* used up and the last one is an operator; it gives the null pointer only if there     *)
(* are none.                                                                  *)
Ops == {"&", "|", "!"}

Broken(u) == u # <<>> /\ Last(u).kind \in Ops

Is(rule, u) == CASE rule = "not" -> Factor(u) # {}
                 [] rule = "and" -> Term(u) # {}
                 [] rule = "or"  -> Sum(u) # {}

Parsed(rule, s, r) ==
  /\ r \in Results
  /\ r.status = "null" => s = <<>> /\ r.rest = <<>>
  /\ r.status = "node" =>
       \E u \in Seq(Tokens) : s = u \o r.rest /\ (Is(rule, u) \/ (r.rest = <<>> /\ Broken(u)))

(* A loop goes on from what has been read. *)
Looped(rule, left, r) ==
  /\ r \in Results
  /\ left.status # "node" => r = left
  /\ left.status = "node" =>
       /\ r.status # "null"
       /\ r.status = "node" =>
            \E u \in Seq(Tokens) :
              /\ left.rest = u \o r.rest
              /\ \/ \A a \in Seq(Tokens) : Is(rule, a) => Is(rule, a \o u)
                 \/ r.rest = <<>> /\ Broken(u)

Outcomes(call) ==
  {r \in Results : CASE call.rule = "orLoop" -> Looped("or", call.left, r)
                     [] call.rule = "andLoop" -> Looped("and", call.left, r)
                     [] call.rule \in {"or", "and", "not"} -> Parsed(call.rule, call.left.rest, r)}

(* The calls that a call makes have fewer tokens left, but "or" calls "and" with as many. *)
Rank(call) == 2 * Len(call.left.rest) + (IF call.rule = "or" THEN 1 ELSE 0)

Agreed(P, Q, n) == \A c \in Calls : Rank(c) < n => P[c] = Q[c] /\ P[c] \in Outcomes(c)

(* The results. *)
LEMMA ResultTypes ==
  ASSUME NEW p \in Seq(Tokens), NEW t \in Seq(Tokens)
  PROVE  /\ Node(p, t) \in Results /\ Node(p, t).status = "node" /\ Node(p, t).rpn = p /\ Node(p, t).rest = t
         /\ Null(t) \in Results /\ Null(t).status = "null" /\ Null(t).rpn = <<>> /\ Null(t).rest = t
         /\ Thrown \in Results /\ Thrown.status = "thrown" /\ Thrown.rest = <<>>
BY DEF Node, Null, Thrown, Results

(* Tokens behind each other. *)
LEMMA Cats ==
  /\ \A a, b \in Seq(Tokens) : a \o b \in Seq(Tokens)
  /\ \A a, b, c \in Seq(Tokens) : (a \o b) \o c = a \o (b \o c)
  /\ \A a \in Seq(Tokens) : a \o <<>> = a /\ <<>> \o a = a
BY Together, Zenon

(* Named, so that a proof can say which tokens it regroups. *)
Regroups(a, b, c) == a \o (b \o c) = (a \o b) \o c

Flattens(a, b, c, d) == a \o (b \o (c \o d)) = (a \o b \o c) \o d

(* Concatenation may be regrouped ... *)
LEMMA Regrouped ==
  ASSUME NEW a \in Seq(Tokens), NEW b \in Seq(Tokens), NEW c \in Seq(Tokens)
  PROVE  Regroups(a, b, c)
BY Cats, ZenonT(60) DEF Regroups

(* ... twice. *)
LEMMA Flattened ==
  ASSUME NEW a \in Seq(Tokens), NEW b \in Seq(Tokens), NEW c \in Seq(Tokens), NEW d \in Seq(Tokens)
  PROVE  Flattens(a, b, c, d)
<1> DEFINE e == c \o d
           f == a \o b
<1>1. e \in Seq(Tokens) /\ f \in Seq(Tokens)
  BY Cats
<1> HIDE DEF e, f
<1>2. Regroups(f, c, d) /\ Regroups(a, b, e)
  BY <1>1, Regrouped
<1> QED BY <1>2, Zenon DEF Regroups, Flattens, e, f

(* The lengths of what is put together. *)
LEMMA Lengths ==
  ASSUME NEW u \in Seq(Tokens), NEW v \in Seq(Tokens), NEW t \in Seq(Tokens), NEW c \in Tokens
  PROVE  /\ Len(u) \in Nat /\ (u = <<>> <=> Len(u) = 0) /\ (u \o v = <<>> => u = <<>> /\ v = <<>>)
         /\ u \o v \in Seq(Tokens) /\ Len(u \o v) = Len(u) + Len(v)
         /\ u \o <<>> = u /\ <<>> \o u = u
         /\ (u \o v) \o t = u \o (v \o t)
         /\ <<c>> \in Seq(Tokens) /\ Len(<<c>>) = 1
<1>1. Len(u) \in Nat /\ (u = <<>> <=> Len(u) = 0) /\ Len(v) \in Nat /\ (v = <<>> <=> Len(v) = 0)
  BY EmptySeq
<1>2. u \o v \in Seq(Tokens) /\ Len(u \o v) = Len(u) + Len(v)
  OBVIOUS
<1>3. u \o v = <<>> => u = <<>> /\ v = <<>>
  <2>1. Len(<<>>) = 0
    OBVIOUS
  <2> QED BY <1>1, <1>2, <2>1
<1>4. u \o <<>> = u /\ <<>> \o u = u /\ (u \o v) \o t = u \o (v \o t)
  BY Together
<1>5. <<c>> \in Seq(Tokens) /\ Len(<<c>>) = 1
  OBVIOUS
<1> QED BY <1>1, <1>2, <1>3, <1>4, <1>5

(* Nothing is only nothing and nothing. *)
LEMMA BothEmpty ==
  ASSUME NEW u \in Seq(Tokens), NEW v \in Seq(Tokens), u \o v = <<>>
  PROVE  u = <<>> /\ v = <<>>
<1>1. (CHOOSE t : t \in Tokens) \in Tokens
  BY OpToken
<1> QED BY <1>1, Lengths

(* Behind what is broken nothing has been read; what is broken behind something is broken. *)
LEMMA BrokenBehind ==
  ASSUME NEW u \in Seq(Tokens), NEW v \in Seq(Tokens), Broken(v)
  PROVE  Broken(u \o v)
<1>1. Len(u) \in Nat /\ Len(v) \in Nat /\ Len(v) > 0 /\ v # <<>> /\ Last(v) = v[Len(v)]
  BY EmptySeq DEF Broken, Last
<1> DEFINE s == u \o v
<1>2. s \in Seq(Tokens) /\ Len(s) = Len(u) + Len(v) /\ \A n \in 1 .. Len(v) : s[Len(u) + n] = v[n]
  OBVIOUS
<1> HIDE DEF s
<1>3. s # <<>> /\ Last(s) = s[Len(s)]
  BY <1>1, <1>2 DEF Last
<1>4. s[Len(s)] = v[Len(v)]
  BY <1>1, <1>2
<1> QED BY <1>1, <1>3, <1>4 DEF Broken, s

(* What ends in an operator is broken. *)
LEMMA BrokenOp ==
  ASSUME NEW u \in Seq(Tokens), NEW c \in Ops
  PROVE  Broken(u \o <<Op(c)>>)
<1>1. Op(c) \in Tokens /\ Op(c).kind = c /\ <<Op(c)>> \in Seq(Tokens)
  BY OpToken DEF Ops
<1>2. <<Op(c)>> # <<>> /\ Last(<<Op(c)>>) = Op(c)
  BY DEF Last
<1>3. Broken(<<Op(c)>>)
  BY <1>1, <1>2 DEF Broken
<1> QED BY <1>1, <1>3, BrokenBehind

(* The first token of what is left. *)
LEMMA Started ==
  ASSUME NEW s \in Seq(Tokens), NEW c \in {"&", "|", "!", "(", ")"}, StartsWith(s, c)
  PROVE  /\ Tail(s) \in Seq(Tokens) /\ s = <<Op(c)>> \o Tail(s) /\ Len(Tail(s)) < Len(s)
         /\ Len(s) \in Nat /\ Len(Tail(s)) \in Nat
<1>1. s # <<>> /\ Head(s).kind = c
  BY DEF StartsWith
<1>2. Head(s) \in Tokens /\ Tail(s) \in Seq(Tokens) /\ s = <<Head(s)>> \o Tail(s)
  BY <1>1, First
<1>3. Head(s) = Op(c)
  BY <1>1, <1>2, KindOfToken
<1>4. Len(Tail(s)) < Len(s)
  BY <1>1, Shorter
<1> QED BY <1>2, <1>3, <1>4

(* What P and Q answer to a call. *)
LEMMA AnswerTo ==
  ASSUME NEW P, NEW Q, NEW n \in Nat, Agreed(P, Q, n), NEW t \in Seq(Tokens), NEW rule \in {"or", "and", "not"},
         2 * Len(t) + 1 < n
  PROVE  P[Call(rule, Null(t))] = Q[Call(rule, Null(t))] /\ Parsed(rule, t, P[Call(rule, Null(t))])
<1> DEFINE c == Call(rule, Null(t))
<1>1. Null(t) \in Results /\ Null(t).rest = t
  BY ResultTypes
<1>2. c \in Calls /\ c.rule = rule /\ c.left = Null(t)
  BY <1>1 DEF Call, Calls
<1> HIDE DEF c
<1>3. Rank(c) < n
  <2>1. Len(t) \in Nat
    OBVIOUS
  <2>2. Rank(c) = 2 * Len(t) + (IF c.rule = "or" THEN 1 ELSE 0)
    BY <1>1, <1>2, Zenon DEF Rank
  <2> QED BY <2>1, <2>2
<1>4. P[c] = Q[c] /\ P[c] \in Outcomes(c)
  BY <1>2, <1>3, Zenon DEF Agreed
<1>5. Parsed(rule, t, P[c])
  BY <1>1, <1>2, <1>4 DEF Outcomes
<1> QED BY <1>4, <1>5 DEF c

(* What they answer to a call of a loop. *)
LEMMA AnswerToLoop ==
  ASSUME NEW P, NEW Q, NEW n \in Nat, Agreed(P, Q, n), NEW left \in Results, NEW rule \in {"or", "and"},
         2 * Len(left.rest) < n
  PROVE  LET c == Call(IF rule = "or" THEN "orLoop" ELSE "andLoop", left)
         IN  P[c] = Q[c] /\ Looped(rule, left, P[c])
<1> DEFINE c == Call(IF rule = "or" THEN "orLoop" ELSE "andLoop", left)
<1>1. c \in Calls /\ c.rule = (IF rule = "or" THEN "orLoop" ELSE "andLoop") /\ c.left = left
  BY DEF Call, Calls
<1> HIDE DEF c
<1>2. Rank(c) < n
  <2>1. left.rest \in Seq(Tokens)
    BY DEF Results
  <2>2. Len(left.rest) \in Nat
    BY <2>1
  <2> QED BY <1>1, <2>2 DEF Rank
<1>3. P[c] = Q[c] /\ P[c] \in Outcomes(c)
  BY <1>1, <1>2, Zenon DEF Agreed
<1>4. Looped(rule, left, P[c])
  BY <1>1, <1>3 DEF Outcomes
<1> QED BY <1>3, <1>4 DEF c

(* Each rule: what it answers follows from what the calls answer, and agrees with what the rule  *)
(* makes of the answers of Q. *)
LEMMA ValueSound ==
  ASSUME NEW P, NEW Q, NEW s \in Seq(Tokens), Agreed(P, Q, 2 * Len(s))
  PROVE  ParseValue(P, s) = ParseValue(Q, s) /\ Parsed("not", s, ParseValue(P, s))
<1>1. CASE s = <<>>
  <2>1. ParseValue(P, s) = Null(s) /\ ParseValue(Q, s) = Null(s)
    BY <1>1 DEF ParseValue, StartsWith
  <2>2. Null(s) \in Results /\ Null(s).status = "null" /\ Null(s).rest = s
    BY ResultTypes
  <2> QED BY <1>1, <2>1, <2>2 DEF Parsed
<1>2. CASE StartsWith(s, "signal")
  <2>1. s # <<>> /\ Head(s).kind = "signal" /\ ~StartsWith(s, "(")
    BY <1>2 DEF StartsWith
  <2>2. Head(s) \in Tokens /\ Tail(s) \in Seq(Tokens) /\ s = <<Head(s)>> \o Tail(s)
    BY <2>1, First
  <2> DEFINE r == Node(<<Head(s)>>, Tail(s))
  <2>3. ParseValue(P, s) = r /\ ParseValue(Q, s) = r
    BY <1>2, <2>1 DEF ParseValue
  <2>4. <<Head(s)>> \in Seq(Tokens)
    BY <2>2
  <2>5. r \in Results /\ r.status = "node" /\ r.rest = Tail(s)
    BY <2>2, <2>4 DEF Node, Results
  <2> HIDE DEF r
  <2>6. Head(s).id \in Nat /\ Head(s) = Sig(Head(s).id)
    BY <2>1, <2>2, KindOfToken
  <2>7. Factor(<<Head(s)>>) = {SignalReading(Head(s).id)}
    <3>1. Factor(<<Sig(Head(s).id)>>) = {SignalReading(Head(s).id)}
      BY <2>6, <2>4, FactorsMade
    <3> QED BY <2>6, <3>1, Zenon
  <2>8. Is("not", <<Head(s)>>)
    BY <2>7 DEF Is
  <2>9. Parsed("not", s, r)
    BY <2>2, <2>4, <2>5, <2>8 DEF Parsed
  <2> QED BY <2>3, <2>9, Zenon
<1>3. CASE StartsWith(s, "(")
  <2>1. s # <<>> /\ ~StartsWith(s, "signal")
    BY <1>3 DEF StartsWith
  <2> DEFINE t == Tail(s)
             x(R) == R[Call("or", Null(t))]
             i == x(P)
  <2>2. t \in Seq(Tokens) /\ s = <<Op("(")>> \o t /\ Len(t) < Len(s) /\ Len(s) \in Nat /\ Len(t) \in Nat
    BY <1>3, Started
  <2>3. x(P) = x(Q) /\ Parsed("or", t, i)
    <3>1. 2 * Len(t) + 1 < 2 * Len(s) /\ 2 * Len(s) \in Nat
      BY <2>2
    <3> QED BY <2>2, <3>1, AnswerTo
  <2>4. \A R : ParseValue(R, s) = IF x(R).status # "thrown" /\ StartsWith(x(R).rest, ")")
                                  THEN [x(R) EXCEPT !.rest = Tail(@)] ELSE Thrown
    BY <1>3, <2>1 DEF ParseValue
  <2> HIDE DEF x, t
  <2>5. ParseValue(P, s) = ParseValue(Q, s)
    BY <2>3, <2>4
  <2>6. CASE ~ (i.status # "thrown" /\ StartsWith(i.rest, ")"))
    <3>1. ParseValue(P, s) = Thrown
      BY <2>4, <2>6
    <3>2. Parsed("not", s, Thrown)
      BY ResultTypes DEF Parsed
    <3> QED BY <2>5, <3>1, <3>2
  <2>7. CASE i.status # "thrown" /\ StartsWith(i.rest, ")")
    <3> DEFINE r == [i EXCEPT !.rest = Tail(@)]
    <3> HIDE DEF i
    <3>1. i \in Results /\ i.rest # <<>> /\ i.rest \in Seq(Tokens)
      BY <2>3, <2>7 DEF Parsed, Results, StartsWith
    <3>2. i.status = "node"
      BY <2>3, <2>7, <3>1 DEF Parsed, Results
    <3>3. PICK u \in Seq(Tokens) : t = u \o i.rest /\ Is("or", u)
      BY <2>3, <3>1, <3>2 DEF Parsed
    <3>4. Tail(i.rest) \in Seq(Tokens) /\ i.rest = <<Op(")")>> \o Tail(i.rest)
      BY <2>7, <3>1, Started
    <3>5. r \in Results /\ r.status = "node" /\ r.rest = Tail(i.rest)
      BY <3>1, <3>2, <3>4 DEF Results
    <3>6. ParseValue(P, s) = r
      BY <2>4, <2>7 DEF i
    <3> HIDE DEF r
    <3> DEFINE o == <<Op("(")>>
               c == <<Op(")")>>
               v == o \o u \o c
    <3>7. o \in Seq(Tokens) /\ c \in Seq(Tokens) /\ v \in Seq(Tokens)
      BY OpToken
    <3>8. s = v \o r.rest
      <4> HIDE DEF o, c
      <4> DEFINE e == r.rest
      <4>1. s = o \o (u \o (c \o e))
        BY <2>2, <3>3, <3>4, <3>5, Zenon DEF o, c
      <4>2. e \in Seq(Tokens)
        BY <3>4, <3>5
      <4> HIDE DEF e
      <4>3. o \o (u \o (c \o e)) = (o \o u \o c) \o e
        <5>1. Flattens(o, u, c, e)
          BY <3>7, <4>2, Flattened
        <5> QED BY <5>1, Zenon DEF Flattens
      <4> QED BY <4>1, <4>3, Zenon DEF e
    <3>9. Factor(v) # {}
      BY <3>3, FactorsMade DEF Is
    <3>10. Is("not", v)
      BY <3>9 DEF Is
    <3>11. Parsed("not", s, r)
      BY <3>5, <3>7, <3>8, <3>10, Zenon DEF Parsed
    <3> QED BY <2>5, <3>6, <3>11, Zenon
  <2> QED BY <2>6, <2>7
<1>4. CASE s # <<>> /\ ~StartsWith(s, "signal") /\ ~StartsWith(s, "(")
  <2>1. ParseValue(P, s) = Thrown /\ ParseValue(Q, s) = Thrown
    BY <1>4 DEF ParseValue
  <2>2. Parsed("not", s, Thrown)
    BY ResultTypes DEF Parsed
  <2> QED BY <2>1, <2>2
<1> QED BY <1>1, <1>2, <1>3, <1>4

(* ParseNot is sound when the calls of shorter ones are. *)
LEMMA NotSound ==
  ASSUME NEW P, NEW Q, NEW s \in Seq(Tokens), Agreed(P, Q, 2 * Len(s))
  PROVE  ParseNot(P, s) = ParseNot(Q, s) /\ Parsed("not", s, ParseNot(P, s))
<1>1. CASE ~StartsWith(s, "!")
  BY <1>1, ValueSound DEF ParseNot
<1>2. CASE StartsWith(s, "!")
  <2> DEFINE t == Tail(s)
             x(R) == R[Call("not", Null(t))]
             i == x(P)
  <2>1. t \in Seq(Tokens) /\ s = <<Op("!")>> \o t /\ Len(t) < Len(s) /\ Len(s) \in Nat /\ Len(t) \in Nat
    BY <1>2, Started
  <2>2. x(P) = x(Q) /\ Parsed("not", t, i)
    <3>1. 2 * Len(t) + 1 < 2 * Len(s) /\ 2 * Len(s) \in Nat
      BY <2>1
    <3> QED BY <2>1, <3>1, AnswerTo
  <2>3. \A R : ParseNot(R, s) = IF x(R).status = "thrown" THEN Thrown ELSE Node(x(R).rpn \o <<Op("!")>>, x(R).rest)
    BY <1>2 DEF ParseNot
  <2> HIDE DEF x, t
  <2>4. ParseNot(P, s) = ParseNot(Q, s)
    BY <2>2, <2>3
  <2>5. CASE i.status = "thrown"
    <3>1. ParseNot(P, s) = Thrown
      BY <2>3, <2>5
    <3>2. Parsed("not", s, Thrown)
      BY ResultTypes DEF Parsed
    <3> QED BY <2>4, <3>1, <3>2
  <2>6. CASE i.status # "thrown"
    <3> DEFINE r == Node(i.rpn \o <<Op("!")>>, i.rest)
               o == <<Op("!")>>
    <3>1. ParseNot(P, s) = r
      BY <2>3, <2>6
    <3> HIDE DEF i
    <3>2. i \in Results /\ i.rest \in Seq(Tokens) /\ i.rpn \in Seq(Tokens) /\ i.status \in {"node", "null"}
      BY <2>2, <2>6 DEF Parsed, Results
    <3>3. Op("!") \in Tokens /\ o \in Seq(Tokens)
      BY OpToken
    <3>4. r \in Results /\ r.status = "node" /\ r.rest = i.rest
      <4>1. i.rpn \o o \in Seq(Tokens)
        BY <3>2, <3>3
      <4> QED BY <3>2, <4>1 DEF Node, Results
    <3> HIDE DEF r
    <3>5. CASE i.status = "null"
      <4>1. t = <<>> /\ r.rest = <<>>
        BY <2>2, <3>4, <3>5 DEF Parsed
      <4>2. s = o /\ s = o \o r.rest
        BY <2>1, <3>3, <4>1
      <4>3. Broken(o)
        <5>1. <<>> \in Seq(Tokens) /\ <<>> \o o = o
          BY <3>3
        <5>2. Broken(<<>> \o o)
          BY <5>1, BrokenOp DEF Ops
        <5> QED BY <5>1, <5>2
      <4> QED BY <2>4, <3>1, <3>3, <3>4, <4>1, <4>2, <4>3 DEF Parsed
    <3>6. CASE i.status = "node"
      <4>1. PICK u \in Seq(Tokens) : t = u \o i.rest /\ (Is("not", u) \/ (i.rest = <<>> /\ Broken(u)))
        BY <2>2, <3>6 DEF Parsed
      <4> DEFINE v == o \o u
      <4> HIDE DEF o
      <4>2. v \in Seq(Tokens) /\ s = v \o r.rest
        <5>1. s = o \o (u \o r.rest)
          BY <2>1, <3>4, <4>1, Zenon DEF o
        <5> DEFINE e == r.rest
        <5>2. e \in Seq(Tokens)
          BY <3>2, <3>4
        <5>3. s = o \o (u \o e)
          BY <5>1
        <5> HIDE DEF e
        <5>4. o \o u \in Seq(Tokens) /\ o \o (u \o e) = (o \o u) \o e
          <6>1. Regroups(o, u, e)
            BY <3>3, <5>2, Regrouped
          <6>2. o \o u \in Seq(Tokens)
            BY <3>3
          <6> QED BY <6>1, <6>2, Zenon DEF Regroups
        <5> QED BY <5>3, <5>4, Zenon DEF e
      <4>3. Is("not", u) => Is("not", v)
        <5>1. Factor(v) = Not(Factor(u))
          BY FactorsMade DEF o
        <5> QED BY <5>1 DEF Is, Not
      <4>4. Broken(u) => Broken(v)
        BY <3>3, BrokenBehind
      <4>5. Parsed("not", s, r)
        BY <3>4, <4>1, <4>2, <4>3, <4>4, Zenon DEF Parsed
      <4> QED BY <2>4, <3>1, <4>5, Zenon
    <3> QED BY <3>2, <3>5, <3>6
  <2> QED BY <2>5, <2>6
<1> QED BY <1>1, <1>2

(* Both loops in one. *)
OpOf(rule)    == IF rule = "or" THEN "|" ELSE "&"
InnerOf(rule) == IF rule = "or" THEN "and" ELSE "not"
LoopOf(rule)  == IF rule = "or" THEN "orLoop" ELSE "andLoop"

Operand(P, left, rule) == P[Call(InnerOf(rule), Null(Tail(left.rest)))]

Loop(P, left, rule) ==
  IF left.status = "node" /\ StartsWith(left.rest, OpOf(rule))
  THEN P[Call(LoopOf(rule), Binary(left, Operand(P, left, rule), OpOf(rule)))] ELSE left

(* The two loops are the two instances of Loop. *)
LEMMA Loops ==
  ASSUME NEW P, NEW left
  PROVE  AndLoop(P, left) = Loop(P, left, "and") /\ OrLoop(P, left) = Loop(P, left, "or")
BY DEF AndLoop, OrLoop, Loop, Operand, OpOf, InnerOf, LoopOf

(* A node of what is on the left and the operand on the right. *)
LEMMA BinaryResult ==
  ASSUME NEW left \in Results, left.status = "node", NEW right \in Results, NEW c \in {"&", "|"}
  PROVE  LET b == Binary(left, right, c)
         IN  /\ b \in Results
             /\ right.status = "thrown" => b = Thrown
             /\ right.status # "thrown" => /\ b = Node(left.rpn \o right.rpn \o <<Op(c)>>, right.rest)
                                           /\ b.status = "node" /\ b.rest = right.rest
<1>1. CASE right.status = "thrown"
  BY <1>1 DEF Binary, Thrown, Results
<1>2. CASE right.status # "thrown"
  <2> DEFINE p == left.rpn \o right.rpn \o <<Op(c)>>
  <2>1. Op(c) \in Tokens
    BY OpToken
  <2>2. left.rpn \in Seq(Tokens) /\ right.rpn \in Seq(Tokens) /\ right.rest \in Seq(Tokens)
    BY DEF Results
  <2>3. p \in Seq(Tokens)
    BY <2>1, <2>2
  <2>4. Binary(left, right, c) = Node(p, right.rest)
    BY <1>2 DEF Binary
  <2> HIDE DEF p
  <2>5. Node(p, right.rest) \in Results /\ Node(p, right.rest).status = "node" /\ Node(p, right.rest).rest = right.rest
    BY <2>2, <2>3 DEF Node, Results
  <2> QED BY <1>2, <2>4, <2>5, Zenon DEF p
<1> QED BY <1>1, <1>2, Zenon

(* The grammar goes on behind an operator. *)
LEMMA IsMade ==
  ASSUME NEW rule \in {"or", "and"}, NEW a \in Seq(Tokens), NEW v \in Seq(Tokens),
         Is(rule, a), Is(InnerOf(rule), v)
  PROVE  Is(rule, a \o <<Op(OpOf(rule))>> \o v)
<1>1. CASE rule = "or"
  <2>1. PICK x \in Sum(a), y \in Term(v) : TRUE
    BY <1>1 DEF Is, InnerOf
  <2>2. x \cup y \in Sum(a \o <<Op("|")>> \o v)
    BY TermsMade
  <2> QED BY <1>1, <2>2 DEF Is, OpOf
<1>2. CASE rule = "and"
  <2>1. PICK x \in Term(a), y \in Factor(v) : TRUE
    BY <1>2 DEF Is, InnerOf
  <2>2. x \cap y \in Term(a \o <<Op("&")>> \o v)
    BY TermsMade
  <2> QED BY <1>2, <2>2 DEF Is, OpOf
<1> QED BY <1>1, <1>2

(* A loop that goes on does so with shorter calls, and adds what the grammar adds. *)
LEMMA LoopSound ==
  ASSUME NEW P, NEW Q, NEW left \in Results, NEW rule \in {"or", "and"}, Agreed(P, Q, 2 * Len(left.rest))
  PROVE  Loop(P, left, rule) = Loop(Q, left, rule) /\ Looped(rule, left, Loop(P, left, rule))
<1> DEFINE c == OpOf(rule)
           s == left.rest
<1>1. c \in {"&", "|"} /\ c \in Ops /\ s \in Seq(Tokens) /\ <<>> \in Seq(Tokens)
  BY DEF OpOf, Ops, Results
<1>2. CASE ~ (left.status = "node" /\ StartsWith(s, c))
  <2>1. Loop(P, left, rule) = left /\ Loop(Q, left, rule) = left
    BY <1>2 DEF Loop
  <2>2. s = <<>> \o s /\ \A a \in Seq(Tokens) : a \o <<>> = a
    BY <1>1, Cats
  <2> HIDE DEF s
  <2>3. s = <<>> \o s /\ \A a \in Seq(Tokens) : Is(rule, a) => Is(rule, a \o <<>>)
    BY <2>2, Zenon
  <2>4. \E u \in Seq(Tokens) : s = u \o s /\ \A a \in Seq(Tokens) : Is(rule, a) => Is(rule, a \o u)
    BY <1>1, <2>3, Zenon
  <2>5. Looped(rule, left, left)
    BY <2>4 DEF Looped, s
  <2> QED BY <2>1, <2>5
<1>3. CASE left.status = "node" /\ StartsWith(s, c)
  <2> DEFINE t == Tail(s)
             o == <<Op(c)>>
             y == Operand(P, left, rule)
             b == Binary(left, y, c)
             z == P[Call(LoopOf(rule), b)]
  <2>1. t \in Seq(Tokens) /\ s = o \o t /\ Len(t) < Len(s) /\ Len(s) \in Nat /\ Len(t) \in Nat
    BY <1>1, <1>3, Started
  <2>2. y = Operand(Q, left, rule) /\ Parsed(InnerOf(rule), t, y)
    <3>1. 2 * Len(t) + 1 < 2 * Len(s) /\ 2 * Len(s) \in Nat /\ InnerOf(rule) \in {"or", "and", "not"}
      BY <2>1 DEF InnerOf
    <3> DEFINE r == InnerOf(rule)
               n == 2 * Len(s)
    <3>2. r \in {"or", "and", "not"} /\ n \in Nat /\ 2 * Len(t) + 1 < n /\ Agreed(P, Q, n)
      BY <3>1
    <3> HIDE DEF r, n, t, s
    <3>3. P[Call(r, Null(t))] = Q[Call(r, Null(t))] /\ Parsed(r, t, P[Call(r, Null(t))])
      BY <2>1, <3>2, AnswerTo
    <3> QED BY <3>3, Zenon DEF Operand, r, t, s
  <2> HIDE DEF y
  <2>3. y \in Results /\ y.rest \in Seq(Tokens) /\ y.status \in {"node", "null", "thrown"}
    BY <2>2 DEF Parsed, Results
  <2>4. /\ b \in Results /\ (y.status = "thrown" => b = Thrown)
        /\ y.status # "thrown" => b.status = "node" /\ b.rest = y.rest
    BY <1>1, <1>3, <2>3, BinaryResult
  <2>5. Thrown.rest = <<>> /\ Thrown.status = "thrown" /\ Thrown \in Results
    BY <1>1, ResultTypes
  <2> HIDE DEF b, t, s, o, c
  <2>6. Len(b.rest) <= Len(t)
    <3>1. CASE y.status = "node"
      <4>1. PICK u \in Seq(Tokens) : t = u \o y.rest
        BY <2>2, <3>1 DEF Parsed
      <4> QED BY <2>3, <2>4, <3>1, <4>1
    <3>2. CASE y.status # "node"
      <4>1. b.rest = <<>>
        BY <2>2, <2>3, <2>4, <2>5, <3>2 DEF Parsed
      <4>2. Len(<<>>) = 0
        OBVIOUS
      <4> QED BY <2>1, <4>1, <4>2
    <3> QED BY <3>1, <3>2
  <2>7. z = Q[Call(LoopOf(rule), b)] /\ Looped(rule, b, z)
    <3>1. 2 * Len(b.rest) < 2 * Len(s) /\ 2 * Len(s) \in Nat
      <4>1. Len(b.rest) \in Nat
        BY <2>4 DEF Results
      <4> QED BY <2>1, <2>6, <4>1
    <3> QED BY <2>4, <3>1, AnswerToLoop DEF LoopOf, s
  <2>8. Loop(P, left, rule) = z /\ Loop(Q, left, rule) = z
    BY <1>3, <2>2, <2>7 DEF Loop, y, b, s, c
  <2> HIDE DEF z
  <2>9. z \in Results /\ z.rest \in Seq(Tokens) /\ z.status \in {"node", "null", "thrown"}
    BY <2>7 DEF Looped, Results
  <2>10. Op(c) \in Tokens /\ o \in Seq(Tokens)
    BY <1>1, OpToken DEF o
  <2>11. CASE y.status = "thrown"
    <3>1. z = Thrown
      BY <2>4, <2>5, <2>7, <2>11 DEF Looped
    <3>2. Looped(rule, left, z)
      BY <1>3, <2>5, <3>1 DEF Looped
    <3> QED BY <2>8, <3>2
  <2>12. CASE y.status # "thrown"
    <3>1. b.status = "node" /\ b.rest = y.rest /\ z.status # "null"
      BY <2>4, <2>7, <2>12 DEF Looped
    <3>2. ASSUME z.status = "node"
          PROVE  \E u \in Seq(Tokens) : /\ s = u \o z.rest
                                        /\ \/ \A a \in Seq(Tokens) : Is(rule, a) => Is(rule, a \o u)
                                           \/ z.rest = <<>> /\ Broken(u)
      <4>1. PICK w \in Seq(Tokens) : /\ y.rest = w \o z.rest
                                     /\ \/ \A a \in Seq(Tokens) : Is(rule, a) => Is(rule, a \o w)
                                        \/ z.rest = <<>> /\ Broken(w)
        BY <2>7, <3>1, <3>2 DEF Looped
      <4>2. y.rest = <<>> => w = <<>> /\ z.rest = <<>>
        BY <2>9, <4>1, BothEmpty
      <4>3. CASE y.status = "null"
        <5>1. t = <<>> /\ y.rest = <<>>
          BY <2>2, <4>3 DEF Parsed
        <5>2. s = o \o z.rest /\ z.rest = <<>>
          BY <2>1, <4>2, <5>1
        <5>3. Broken(o)
          <6>1. <<>> \o o = o
            BY <2>10, Cats
          <6>2. Broken(<<>> \o o)
            BY <1>1, BrokenOp DEF o
          <6> QED BY <6>1, <6>2, Zenon
        <5> QED BY <2>10, <5>2, <5>3
      <4>4. CASE y.status = "node"
        <5>1. PICK v \in Seq(Tokens) : t = v \o y.rest /\ (Is(InnerOf(rule), v) \/ (y.rest = <<>> /\ Broken(v)))
          BY <2>2, <4>4 DEF Parsed
        <5> DEFINE x == o \o v
                   u == x \o w
        <5>2. x \in Seq(Tokens) /\ u \in Seq(Tokens)
          BY <2>10
        <5>3. s = u \o z.rest
          <6>1. s = o \o (v \o (w \o z.rest))
            BY <2>1, <4>1, <5>1, Zenon
          <6>2. Flattens(o, v, w, z.rest)
            BY <2>9, <2>10, Flattened
          <6> QED BY <6>1, <6>2, Zenon DEF Flattens
        <5>4. CASE y.rest = <<>> /\ Broken(v)
          <6>1. w = <<>> /\ z.rest = <<>>
            BY <4>2, <5>4
          <6>2. Broken(x)
            BY <2>10, <5>4, BrokenBehind
          <6> HIDE DEF x
          <6>3. u = x
            BY <5>2, <6>1, Cats, Zenon
          <6> HIDE DEF u
          <6> QED BY <5>2, <5>3, <6>1, <6>2, <6>3
        <5>5. CASE z.rest = <<>> /\ Broken(w)
          <6>1. Broken(u)
            <7> HIDE DEF x
            <7> QED BY <5>2, <5>5, BrokenBehind
          <6> HIDE DEF x, u
          <6> QED BY <5>2, <5>3, <5>5, <6>1
        <5>6. CASE Is(InnerOf(rule), v) /\ \A a \in Seq(Tokens) : Is(rule, a) => Is(rule, a \o w)
          <6>1. ASSUME NEW a \in Seq(Tokens), Is(rule, a) PROVE Is(rule, a \o u)
            <7> DEFINE av == a \o o \o v
            <7>1. Is(rule, av) /\ av \in Seq(Tokens)
              <8>1. Is(rule, av)
                BY <5>6, <6>1, IsMade DEF o, c
              <8>2. av \in Seq(Tokens)
                BY <2>10
              <8> QED BY <8>1, <8>2
            <7>2. Is(rule, av \o w)
              <8> HIDE DEF av
              <8> QED BY <5>6, <7>1, Zenon
            <7>3. Regroups(a, x, w) /\ Regroups(a, o, v)
              BY <2>10, <5>2, Regrouped
            <7>4. a \o u = (a \o x) \o w /\ a \o x = av
              BY <7>3, Zenon DEF Regroups
            <7> HIDE DEF av, u, x
            <7> QED BY <7>2, <7>4, Zenon
          <6> HIDE DEF x, u
          <6> QED BY <5>2, <5>3, <6>1
        <5> QED BY <4>1, <5>1, <5>4, <5>5, <5>6
      <4> QED BY <2>3, <2>12, <4>3, <4>4
    <3>3. Looped(rule, left, z)
      BY <1>3, <2>9, <3>1, <3>2 DEF Looped, s
    <3> QED BY <2>8, <3>3
  <2> QED BY <2>11, <2>12
<1> QED BY <1>2, <1>3

(* Calls and their ranks. *)
LEMMA CallsOf ==
  ASSUME NEW c \in Calls
  PROVE  /\ c.left \in Results /\ c.left.rest \in Seq(Tokens) /\ Len(c.left.rest) \in Nat
         /\ c.rule \in {"or", "orLoop", "and", "andLoop", "not"}
         /\ Rank(c) = 2 * Len(c.left.rest) + (IF c.rule = "or" THEN 1 ELSE 0) /\ Rank(c) \in Nat
<1>1. c.left \in Results /\ c.rule \in {"or", "orLoop", "and", "andLoop", "not"}
  BY DEF Calls
<1>2. c.left.rest \in Seq(Tokens)
  BY <1>1 DEF Results
<1>3. Len(c.left.rest) \in Nat
  BY <1>2
<1> DEFINE n == Len(c.left.rest)
<1>4. Rank(c) = 2 * n + (IF c.rule = "or" THEN 1 ELSE 0)
  BY Zenon DEF Rank
<1>5. n \in Nat
  BY <1>3
<1> HIDE DEF n
<1>6. Rank(c) \in Nat
  BY <1>4, <1>5
<1> QED BY <1>1, <1>2, <1>3, <1>4, <1>6 DEF n

(* What agrees below n agrees below less. *)
LEMMA AgreedBelow ==
  ASSUME NEW P, NEW Q, NEW n \in Nat, NEW m \in Nat, m <= n, Agreed(P, Q, n)
  PROVE  Agreed(P, Q, m)
<1> SUFFICES ASSUME NEW c \in Calls, Rank(c) < m PROVE P[c] = Q[c] /\ P[c] \in Outcomes(c)
  BY Zenon DEF Agreed
<1>1. Rank(c) \in Nat
  BY CallsOf, Zenon
<1>2. Rank(c) < n
  BY <1>1
<1> QED BY <1>2, Zenon DEF Agreed

(* A loop behind its first operand. *)
LEMMA OperandThenLoop ==
  ASSUME NEW P, NEW Q, NEW s \in Seq(Tokens), NEW rule \in {"or", "and"}, Agreed(P, Q, 2 * Len(s)),
         NEW x, Parsed(InnerOf(rule), s, x)
  PROVE  Loop(P, x, rule) = Loop(Q, x, rule) /\ Parsed(rule, s, Loop(P, x, rule))
<1>1. x \in Results /\ x.rest \in Seq(Tokens) /\ Len(s) \in Nat /\ Len(x.rest) \in Nat
  <2>1. x \in Results
    BY DEF Parsed
  <2>2. x.rest \in Seq(Tokens)
    BY <2>1 DEF Results
  <2> QED BY <2>1, <2>2
<1>2. CASE x.status # "node"
  <2>1. Loop(P, x, rule) = x /\ Loop(Q, x, rule) = x
    BY <1>2 DEF Loop
  <2>2. Parsed(rule, s, x)
    BY <1>2 DEF Parsed
  <2> QED BY <2>1, <2>2
<1>3. CASE x.status = "node"
  <2>1. PICK u \in Seq(Tokens) : s = u \o x.rest /\ (Is(InnerOf(rule), u) \/ (x.rest = <<>> /\ Broken(u)))
    BY <1>3 DEF Parsed
  <2>2. Len(x.rest) <= Len(s)
    <3>1. Len(u) \in Nat /\ Len(u \o x.rest) = Len(u) + Len(x.rest)
      BY <1>1
    <3> QED BY <1>1, <2>1, <3>1
  <2>3. 2 * Len(x.rest) \in Nat /\ 2 * Len(s) \in Nat /\ 2 * Len(x.rest) <= 2 * Len(s)
    BY <1>1, <2>2
  <2>4. Agreed(P, Q, 2 * Len(x.rest))
    BY <2>3, AgreedBelow, Zenon
  <2> DEFINE z == Loop(P, x, rule)
  <2>5. z = Loop(Q, x, rule) /\ Looped(rule, x, z)
    BY <1>1, <2>4, LoopSound, Zenon
  <2> HIDE DEF z
  <2>6. z \in Results /\ z.status # "null"
    BY <1>3, <2>5 DEF Looped
  <2>7. ASSUME z.status = "node"
        PROVE  \E v \in Seq(Tokens) : s = v \o z.rest /\ (Is(rule, v) \/ (z.rest = <<>> /\ Broken(v)))
    <3>1. PICK w \in Seq(Tokens) : /\ x.rest = w \o z.rest
                                   /\ \/ \A a \in Seq(Tokens) : Is(rule, a) => Is(rule, a \o w)
                                      \/ z.rest = <<>> /\ Broken(w)
      BY <1>3, <2>5, <2>7 DEF Looped
    <3>2. z.rest \in Seq(Tokens)
      BY <2>6 DEF Results
    <3> DEFINE v == u \o w
    <3>3. v \in Seq(Tokens) /\ s = v \o z.rest
      <4>1. Regroups(u, w, z.rest)
        BY <3>2, Regrouped
      <4>2. s = u \o (w \o z.rest)
        BY <2>1, <3>1, Zenon
      <4> QED BY <4>1, <4>2, Cats, Zenon DEF Regroups
    <3>4. CASE x.rest = <<>> /\ Broken(u)
      <4>1. w = <<>> /\ z.rest = <<>>
        BY <2>6, <3>1, <3>2, <3>4, BothEmpty
      <4>2. v = u
        BY <4>1, Cats, Zenon
      <4> HIDE DEF v
      <4> QED BY <3>3, <3>4, <4>1, <4>2
    <3>5. CASE z.rest = <<>> /\ Broken(w)
      <4>1. Broken(v)
        BY <3>5, BrokenBehind
      <4> HIDE DEF v
      <4> QED BY <3>3, <3>5, <4>1
    <3>6. CASE Is(InnerOf(rule), u) /\ \A a \in Seq(Tokens) : Is(rule, a) => Is(rule, a \o w)
      <4>1. Is(rule, u)
        BY <3>6, TermsMade DEF Is, InnerOf
      <4>2. Is(rule, v)
        BY <3>6, <4>1, Zenon
      <4> HIDE DEF v
      <4> QED BY <3>3, <4>2
    <3> QED BY <2>1, <3>1, <3>4, <3>5, <3>6, Zenon
  <2>8. Parsed(rule, s, z)
    BY <2>6, <2>7 DEF Parsed
  <2> QED BY <2>5, <2>8 DEF z
<1> QED BY <1>2, <1>3

(* Every rule is sound. *)
LEMMA RuleSound ==
  ASSUME NEW P, NEW Q, NEW c \in Calls, Agreed(P, Q, Rank(c))
  PROVE  Rule(P, c) = Rule(Q, c) /\ Rule(P, c) \in Outcomes(c)
<1> DEFINE s == c.left.rest
           x(R) == ParseNot(R, s)
           y(R) == R[Call("and", c.left)]
           n == Len(s)
<1>0. /\ c.left \in Results /\ s \in Seq(Tokens) /\ n \in Nat /\ Rank(c) \in Nat
      /\ Rank(c) = 2 * n + (IF c.rule = "or" THEN 1 ELSE 0)
  BY CallsOf, Zenon
<1>1. c.left \in Results /\ s \in Seq(Tokens) /\ Len(s) \in Nat /\ 2 * Len(s) \in Nat
  BY <1>0
<1>2. Agreed(P, Q, 2 * Len(s))
  <2>1. 2 * Len(s) <= Rank(c) /\ Rank(c) \in Nat
    <3> HIDE DEF n
    <3>1. 2 * n <= Rank(c)
      BY <1>0
    <3> QED BY <1>0, <3>1, Zenon DEF n
  <2> QED BY <1>1, <2>1, AgreedBelow, Zenon
<1>3. x(P) = x(Q) /\ Parsed("not", s, x(P))
  BY <1>1, <1>2, NotSound
<1>4. CASE c.rule = "not"
  <2>1. Rule(P, c) = x(P) /\ Rule(Q, c) = x(Q)
    BY <1>4 DEF Rule
  <2> HIDE DEF x
  <2>2. x(P) \in Outcomes(c)
    BY <1>3, <1>4 DEF Outcomes, Parsed
  <2> QED BY <1>3, <2>1, <2>2
<1>5. CASE c.rule = "and"
  <2> DEFINE r(R) == Loop(R, x(R), "and")
  <2>1. Rule(P, c) = r(P) /\ Rule(Q, c) = r(Q)
    BY <1>5, Loops DEF Rule
  <2> HIDE DEF x, s
  <2>2. r(P) = r(Q) /\ Parsed("and", s, r(P))
    <3>1. InnerOf("and") = "not"
      BY DEF InnerOf
    <3> QED BY <1>1, <1>2, <1>3, <3>1, OperandThenLoop
  <2> HIDE DEF r
  <2>3. r(P) \in Outcomes(c)
    BY <1>5, <2>2 DEF Outcomes, Parsed, s
  <2> QED BY <2>1, <2>2, <2>3
<1>6. CASE c.rule = "or"
  <2> DEFINE d == Call("and", c.left)
             r(R) == Loop(R, y(R), "or")
  <2>1. Rule(P, c) = r(P) /\ Rule(Q, c) = r(Q)
    BY <1>6, Loops DEF Rule
  <2>2. d \in Calls /\ d.left = c.left /\ d.rule = "and"
    BY <1>1 DEF Call, Calls
  <2>3. y(P) = y(Q) /\ Parsed("and", s, y(P))
    <3> HIDE DEF d
    <3>1. Rank(d) < Rank(c)
      <4>1. Rank(d) = 2 * Len(d.left.rest) + (IF d.rule = "or" THEN 1 ELSE 0) /\ d.left.rest = s
        BY <2>2, CallsOf, Zenon
      <4> HIDE DEF n
      <4>2. Rank(d) = 2 * n
        <5>1. Rank(d) = 2 * n + (IF d.rule = "or" THEN 1 ELSE 0)
          BY <4>1, Zenon DEF n
        <5> QED BY <1>0, <2>2, <5>1
      <4> QED BY <1>0, <1>6, <4>2
    <3>2. P[d] = Q[d] /\ P[d] \in Outcomes(d)
      BY <2>2, <3>1, Zenon DEF Agreed
    <3>3. Parsed("and", s, P[d])
      BY <2>2, <3>2 DEF Outcomes
    <3> QED BY <3>2, <3>3 DEF d
  <2> HIDE DEF y, s, d
  <2>4. r(P) = r(Q) /\ Parsed("or", s, r(P))
    <3>1. InnerOf("or") = "and"
      BY DEF InnerOf
    <3> QED BY <1>1, <1>2, <2>3, <3>1, OperandThenLoop
  <2> HIDE DEF r
  <2>5. r(P) \in Outcomes(c)
    BY <1>6, <2>4 DEF Outcomes, Parsed, s
  <2> QED BY <2>1, <2>4, <2>5
<1>7. CASE c.rule \in {"andLoop", "orLoop"}
  <2> DEFINE k == IF c.rule = "orLoop" THEN "or" ELSE "and"
             r(R) == Loop(R, c.left, k)
  <2>1. Rule(P, c) = r(P) /\ Rule(Q, c) = r(Q) /\ k \in {"or", "and"}
    BY <1>7, Loops DEF Rule
  <2>2. r(P) = r(Q) /\ Looped(k, c.left, r(P))
    <3> HIDE DEF k
    <3> QED BY <1>1, <1>2, <2>1, LoopSound
  <2> HIDE DEF r
  <2>3. r(P) \in Outcomes(c)
    BY <1>7, <2>2 DEF Outcomes, Looped
  <2> QED BY <2>1, <2>2, <2>3
<1> QED BY <1>4, <1>5, <1>6, <1>7, CallsOf

(* The parser is defined, and what it answers is sound. *)
LEMMA ParseUnfolds ==
  \A c \in Calls : Parse[c] = Rule(Parse, c)
<1> DEFINE D == Calls
           W == [c \in D |-> Outcomes(c)]
           rank == [c \in D |-> Rank(c)]
           G == [f \in Typed(D, W) |-> [c \in D |-> Rule(f, c)]]
           any(c) == IF c.rule \in {"orLoop", "andLoop"} /\ c.left.status # "node" THEN c.left ELSE Thrown
<1>1. \A f \in Typed(D, W), c \in D : f[c] \in Outcomes(c)
  BY DEF Typed
<1>2. Typed(D, W) # {}
  <2>1. ASSUME NEW c \in Calls PROVE any(c) \in Outcomes(c)
    <3>1. c.left \in Results /\ c.rule \in {"or", "orLoop", "and", "andLoop", "not"}
      BY CallsOf
    <3>2. Thrown \in Results /\ Thrown.status = "thrown"
      BY DEF Thrown, Results
    <3>3. CASE c.rule \in {"orLoop", "andLoop"}
      BY <3>1, <3>2, <3>3 DEF Outcomes, Looped
    <3>4. CASE c.rule \notin {"orLoop", "andLoop"}
      BY <3>1, <3>2, <3>4 DEF Outcomes, Parsed
    <3> QED BY <3>3, <3>4
  <2> DEFINE f == [c \in D |-> any(c)]
  <2> HIDE DEF any
  <2>2. \A c \in D : W[c] = Outcomes(c)
    OBVIOUS
  <2> HIDE DEF W
  <2>3. \A c \in D : f[c] \in W[c]
    BY <2>1, <2>2
  <2>4. f \in [D -> UNION {W[c] : c \in D}]
    BY <2>3
  <2>5. f \in Typed(D, W)
    <3> HIDE DEF f
    <3> QED BY <2>3, <2>4, Zenon DEF Typed
  <2> QED BY <2>5
<1>3. \A f, g \in Typed(D, W), c \in D :
        AgreeBelow(f, g, D, rank, rank[c]) => Rule(f, c) = Rule(g, c) /\ Rule(f, c) \in Outcomes(c)
  <2> SUFFICES ASSUME NEW f \in Typed(D, W), NEW g \in Typed(D, W), NEW c \in D,
                      AgreeBelow(f, g, D, rank, rank[c])
               PROVE  Rule(f, c) = Rule(g, c) /\ Rule(f, c) \in Outcomes(c)
    BY Zenon
  <2>1. \A d \in Calls : rank[d] = Rank(d)
    OBVIOUS
  <2> HIDE DEF rank, W
  <2>2. Agreed(f, g, Rank(c))
    BY <1>1, <2>1 DEF AgreeBelow, Agreed
  <2> QED BY <2>2, RuleSound
<1>4. LocalRecursion(D, W, rank, G)
  <2>1. rank \in [D -> Nat]
    BY CallsOf
  <2>2. ASSUME NEW f \in Typed(D, W) PROVE G[f] \in Typed(D, W) /\ \A c \in D : G[f][c] = Rule(f, c)
    <3> DEFINE g == [c \in D |-> Rule(f, c)]
    <3>1. \A c \in D : g[c] \in Outcomes(c)
      BY <1>3 DEF AgreeBelow
    <3>2. G[f] = g /\ \A c \in D : g[c] = Rule(f, c)
      OBVIOUS
    <3>3. \A c \in D : W[c] = Outcomes(c)
      OBVIOUS
    <3>4. g = [c \in D |-> g[c]]
      OBVIOUS
    <3> HIDE DEF G, D, W, g
    <3>5. \A c \in D : g[c] \in W[c]
      BY <3>1, <3>3, Zenon
    <3>6. g \in [D -> UNION {W[c] : c \in D}]
      BY <3>4, <3>5
    <3>7. g \in Typed(D, W)
      BY <3>5, <3>6, Zenon DEF Typed
    <3> QED BY <3>2, <3>7
  <2>3. G = [f \in Typed(D, W) |-> G[f]]
    OBVIOUS
  <2> HIDE DEF G, D, W, rank
  <2>4. G \in [Typed(D, W) -> Typed(D, W)]
    BY <2>2, <2>3
  <2>5. \A e, g \in Typed(D, W), x \in D : AgreeBelow(e, g, D, rank, rank[x]) => G[e][x] = G[g][x]
    BY <1>3, <2>2
  <2> QED BY <2>1, <2>4, <2>5 DEF LocalRecursion
<1>5. PICK f \in Typed(D, W) : f = [c \in D |-> G[f][c]]
  <2> HIDE DEF G, D, W, rank
  <2> QED BY <1>2, <1>4, Solution
<1>6. f = [c \in D |-> Rule(f, c)]
  <2>1. \A c \in D : G[f][c] = Rule(f, c)
    OBVIOUS
  <2> HIDE DEF G, W
  <2> QED BY <1>5, <2>1
<1>7. Parse = [c \in Calls |-> Rule(Parse, c)]
  BY <1>6, Zenon DEF Parse
<1> HIDE DEF G, W, rank
<1> QED BY <1>7, Zenon

(* By the least call whose answer is not sound. *)
LEMMA ParseSound ==
  \A c \in Calls : Parse[c] \in Outcomes(c)
<1> DEFINE Off == {c \in Calls : Parse[c] \notin Outcomes(c)}
           T == {Rank(c) : c \in Off}
<1>1. SUFFICES ASSUME T # {} PROVE FALSE
  BY <1>1, Zenon
<1>2. T \subseteq Nat
  BY CallsOf
<1>3. PICK k \in T : \A l \in T : k <= l
  BY <1>1, <1>2, LeastElement
<1>4. PICK c \in Off : Rank(c) = k
  BY <1>3
<1>5. ASSUME NEW d \in Calls, Rank(d) < Rank(c) PROVE Parse[d] \in Outcomes(d)
  <2>1. Rank(d) \in Nat /\ Rank(c) \in Nat
    BY <1>2, CallsOf, Zenon
  <2>2. Rank(d) \notin T
    <3> HIDE DEF T, Off
    <3> QED BY <1>3, <1>4, <1>5, <2>1
  <2> QED BY <2>2
<1>6. Agreed(Parse, Parse, Rank(c))
  BY <1>5, Zenon DEF Agreed
<1>7. Rule(Parse, c) \in Outcomes(c)
  BY <1>4, <1>6, RuleSound, Zenon
<1> QED BY <1>4, <1>7, ParseUnfolds

-----------------------------------------------------------------------------
(* The parser is complete.  The commands p of the expression s, of which r is a reading: *)
(* they have the signals of s and operators, and compute r. *)
SignalsOf(s) == {t \in ToSet(s) : t.kind = "signal"}

Good(p, s, r) ==
  /\ p \in Seq(Tokens)
  /\ Computes(p, r)
  /\ SignalsOf(p) = SignalsOf(s) /\ SignalsOf(s) # {}
  /\ \A t \in ToSet(p) : t.kind \in Ops \cup {"signal"}

(* The signals of what is put together. *)
LEMMA SignalsOfBoth ==
  ASSUME NEW u \in Seq(Tokens), NEW v \in Seq(Tokens)
  PROVE  /\ u \o v \in Seq(Tokens) /\ ToSet(u \o v) = ToSet(u) \cup ToSet(v)
         /\ SignalsOf(u \o v) = SignalsOf(u) \cup SignalsOf(v)
         /\ SignalsOf(u) = {} => SignalsOf(u \o v) = SignalsOf(v)
         /\ SignalsOf(v) = {} => SignalsOf(u \o v) = SignalsOf(u)
<1>1. ToSet(u \o v) = ToSet(u) \cup ToSet(v)
  BY ElementsOfBoth
<1>2. SignalsOf(u \o v) = SignalsOf(u) \cup SignalsOf(v)
  BY <1>1, Zenon DEF SignalsOf
<1>3. u \o v \in Seq(Tokens)
  OBVIOUS
<1> HIDE DEF SignalsOf
<1> QED BY <1>1, <1>2, <1>3

(* An operator has no signals. *)
LEMMA SignalsOfOp ==
  ASSUME NEW c \in {"&", "|", "!", "(", ")"}
  PROVE  SignalsOf(<<Op(c)>>) = {} /\ ToSet(<<Op(c)>>) = {Op(c)}
<1>1. ToSet(<<Op(c)>>) = {Op(c)}
  BY DEF ToSet
<1>2. Op(c).kind # "signal"
  BY OpToken
<1> QED BY <1>1, <1>2 DEF SignalsOf

(* A signal is its own command. *)
LEMMA GoodSignal ==
  ASSUME NEW n \in Nat
  PROVE  Good(<<Sig(n)>>, <<Sig(n)>>, SignalReading(n))
<1>1. Sig(n) \in Tokens /\ Sig(n).kind = "signal"
  BY DEF Sig, Tokens
<1>2. <<Sig(n)>> \in Seq(Tokens) /\ ToSet(<<Sig(n)>>) = {Sig(n)}
  BY <1>1 DEF ToSet
<1>3. Computes(<<Sig(n)>>, SignalReading(n))
  BY ComputesSignal, Zenon DEF SignalReading
<1>4. SignalsOf(<<Sig(n)>>) = {Sig(n)}
  BY <1>1, <1>2 DEF SignalsOf
<1> QED BY <1>1, <1>2, <1>3, <1>4 DEF Good

(* The commands of "!" are those of its operand and "!". *)
LEMMA GoodNot ==
  ASSUME NEW p, NEW u \in Seq(Tokens), NEW a, Good(p, u, a)
  PROVE  Good(p \o <<Op("!")>>, <<Op("!")>> \o u, Combinations \ a)
<1> DEFINE o == <<Op("!")>>
           q == p \o o
           s == o \o u
<1>1. p \in Seq(Tokens) /\ o \in Seq(Tokens) /\ SignalsOf(o) = {} /\ ToSet(o) = {Op("!")} /\ Op("!").kind = "!"
  BY OpToken, SignalsOfOp DEF Good
<1>2. Computes(q, Combinations \ a)
  BY ComputesNot DEF Good
<1> HIDE DEF o
<1>3. q \in Seq(Tokens) /\ ToSet(q) = ToSet(p) \cup ToSet(o)
  BY <1>1, ElementsOfBoth
<1>4. SignalsOf(q) = SignalsOf(p) /\ SignalsOf(s) = SignalsOf(u)
  BY <1>1, SignalsOfBoth, Zenon
<1> HIDE DEF q, s
<1>5. \A t \in ToSet(q) : t.kind \in Ops \cup {"signal"}
  BY <1>1, <1>3 DEF Good, Ops
<1>6. Good(q, s, Combinations \ a)
  BY <1>2, <1>3, <1>4, <1>5 DEF Good
<1> QED BY <1>6 DEF q, s, o

(* Parentheses need no command. *)
LEMMA GoodEnclosed ==
  ASSUME NEW p, NEW u \in Seq(Tokens), NEW a, Good(p, u, a)
  PROVE  Good(p, <<Op("(")>> \o u \o <<Op(")")>>, a)
<1> DEFINE b == <<Op("(")>>
           c == <<Op(")")>>
           s == b \o u \o c
<1>1. b \in Seq(Tokens) /\ c \in Seq(Tokens) /\ SignalsOf(b) = {} /\ SignalsOf(c) = {}
  BY OpToken, SignalsOfOp
<1> HIDE DEF b, c
<1>2. b \o u \in Seq(Tokens) /\ SignalsOf(b \o u) = SignalsOf(u)
  BY <1>1, SignalsOfBoth, Zenon
<1>3. SignalsOf(s) = SignalsOf(u)
  BY <1>1, <1>2, SignalsOfBoth, Zenon
<1> HIDE DEF s
<1>4. Good(p, s, a)
  BY <1>3 DEF Good
<1> QED BY <1>4 DEF s, b, c

(* The commands of two operands, one behind the other, and their operator. *)
LEMMA GoodBoth ==
  ASSUME NEW p, NEW u \in Seq(Tokens), NEW a, Good(p, u, a),
         NEW q, NEW v \in Seq(Tokens), NEW b, Good(q, v, b)
  PROVE  /\ Good(p \o q \o <<Op("&")>>, u \o <<Op("&")>> \o v, a \cap b)
         /\ Good(p \o q \o <<Op("|")>>, u \o <<Op("|")>> \o v, a \cup b)
<1>1. ASSUME NEW c \in {"&", "|"}, NEW r, Computes(p \o q \o <<Op(c)>>, r)
      PROVE  Good(p \o q \o <<Op(c)>>, u \o <<Op(c)>> \o v, r)
  <2> DEFINE o == <<Op(c)>>
             pq == p \o q
             m == pq \o o
             uo == u \o o
             s == uo \o v
  <2>1. /\ p \in Seq(Tokens) /\ q \in Seq(Tokens) /\ o \in Seq(Tokens)
        /\ SignalsOf(o) = {} /\ ToSet(o) = {Op(c)} /\ Op(c).kind = c
    BY OpToken, SignalsOfOp DEF Good
  <2> HIDE DEF o
  <2>2. /\ pq \in Seq(Tokens) /\ ToSet(pq) = ToSet(p) \cup ToSet(q)
        /\ SignalsOf(pq) = SignalsOf(p) \cup SignalsOf(q)
        /\ uo \in Seq(Tokens) /\ SignalsOf(uo) = SignalsOf(u)
    BY <2>1, SignalsOfBoth, Zenon
  <2> HIDE DEF pq, uo
  <2>3. /\ m \in Seq(Tokens) /\ ToSet(m) = ToSet(pq) \cup ToSet(o) /\ SignalsOf(m) = SignalsOf(pq)
        /\ SignalsOf(s) = SignalsOf(uo) \cup SignalsOf(v)
    <3>1. m \in Seq(Tokens) /\ ToSet(m) = ToSet(pq) \cup ToSet(o) /\ SignalsOf(m) = SignalsOf(pq)
      BY <2>1, <2>2, SignalsOfBoth, ZenonT(60)
    <3>2. SignalsOf(s) = SignalsOf(uo) \cup SignalsOf(v)
      BY <2>2, SignalsOfBoth, ZenonT(60)
    <3> QED BY <3>1, <3>2, Zenon
  <2>4. Computes(m, r)
    BY <1>1 DEF pq, o
  <2> HIDE DEF m, s
  <2>5. SignalsOf(m) = SignalsOf(s)
    BY <2>2, <2>3 DEF Good
  <2>6. \A t \in ToSet(m) : t.kind \in Ops \cup {"signal"}
    BY <2>1, <2>2, <2>3 DEF Good, Ops
  <2>7. Good(m, s, r)
    BY <2>3, <2>4, <2>5, <2>6 DEF Good
  <2> QED BY <2>7 DEF m, s, o, pq, uo
<1>2. Computes(p \o q \o <<Op("&")>>, a \cap b) /\ Computes(p \o q \o <<Op("|")>>, a \cup b)
  BY ComputesBoth DEF Good
<1> QED BY <1>1, <1>2

(* The rules, one after the other. *)
LEMMA RulesAsked ==
  ASSUME NEW t \in Seq(Tokens)
  PROVE  /\ Parse[Call("not", Null(t))] = ParseNot(Parse, t)
         /\ Parse[Call("and", Null(t))] = AndLoop(Parse, ParseNot(Parse, t))
         /\ Parse[Call("or", Null(t))] = OrLoop(Parse, Parse[Call("and", Null(t))])
<1>1. Null(t) \in Results /\ Null(t).rest = t
  BY ResultTypes
<1>2. ASSUME NEW rule \in {"or", "and", "not"}
      PROVE  /\ Call(rule, Null(t)).rule = rule /\ Call(rule, Null(t)).left = Null(t)
             /\ Parse[Call(rule, Null(t))] = Rule(Parse, Call(rule, Null(t)))
  <2>1. Call(rule, Null(t)) \in Calls
    BY <1>1 DEF Calls, Call
  <2> QED BY <2>1, ParseUnfolds DEF Call
<1>3. Parse[Call("not", Null(t))] = ParseNot(Parse, t)
  BY <1>1, <1>2 DEF Rule
<1>4. Parse[Call("and", Null(t))] = AndLoop(Parse, ParseNot(Parse, t))
  BY <1>1, <1>2 DEF Rule
<1>5. Parse[Call("or", Null(t))] = OrLoop(Parse, Parse[Call("and", Null(t))])
  BY <1>1, <1>2 DEF Rule
<1> QED BY <1>3, <1>4, <1>5

(* The loops do what their definition says. *)
LEMMA LoopsAsked ==
  ASSUME NEW x \in Results
  PROVE  /\ Parse[Call("andLoop", x)] = AndLoop(Parse, x)
         /\ Parse[Call("orLoop", x)] = OrLoop(Parse, x)
<1>1. ASSUME NEW rule \in {"orLoop", "andLoop"}
      PROVE  /\ Call(rule, x).rule = rule /\ Call(rule, x).left = x
             /\ Parse[Call(rule, x)] = Rule(Parse, Call(rule, x))
  <2>1. Call(rule, x) \in Calls
    BY DEF Calls, Call
  <2> QED BY <2>1, ParseUnfolds DEF Call
<1>2. Parse[Call("andLoop", x)] = AndLoop(Parse, x)
  BY <1>1 DEF Rule
<1>3. Parse[Call("orLoop", x)] = OrLoop(Parse, x)
  BY <1>1 DEF Rule
<1> QED BY <1>2, <1>3

(* What begins with an operator. *)
LEMMA Starts ==
  ASSUME NEW c \in {"&", "|", "!", "(", ")"}, NEW t \in Seq(Tokens)
  PROVE  LET s == <<Op(c)>> \o t
         IN  s \in Seq(Tokens) /\ Tail(s) = t /\ s # <<>> /\ \A d : StartsWith(s, d) <=> d = c
<1> DEFINE s == <<Op(c)>> \o t
<1>1. s \in Seq(Tokens) /\ s # <<>> /\ Head(s) = Op(c) /\ Tail(s) = t
  BY OpToken, Prefixed, Zenon
<1> HIDE DEF s
<1>2. Op(c).kind = c
  BY OpToken
<1>3. \A d : StartsWith(s, d) <=> d = c
  BY <1>1, <1>2, Zenon DEF StartsWith
<1> QED BY <1>1, <1>3 DEF s

(* A loop ends before what is not its operator, and goes on behind it. *)
LEMMA LoopEnds ==
  ASSUME NEW p \in Seq(Tokens), NEW t \in Seq(Tokens)
  PROVE  /\ ~StartsWith(t, "&") => AndLoop(Parse, Node(p, t)) = Node(p, t)
         /\ ~StartsWith(t, "|") => OrLoop(Parse, Node(p, t)) = Node(p, t)
BY ResultTypes DEF AndLoop, OrLoop

AndGoesOn(p, q, w, t) ==
  Parse[Call("not", Null(w))] = Node(q, t) =>
    AndLoop(Parse, Node(p, <<Op("&")>> \o w)) = AndLoop(Parse, Node(p \o q \o <<Op("&")>>, t))

OrGoesOn(p, q, w, t) ==
  Parse[Call("and", Null(w))] = Node(q, t) =>
    OrLoop(Parse, Node(p, <<Op("|")>> \o w)) = OrLoop(Parse, Node(p \o q \o <<Op("|")>>, t))

(* Behind its operator a loop takes the next operand in. *)
LEMMA LoopGoesOn ==
  ASSUME NEW p \in Seq(Tokens), NEW q \in Seq(Tokens), NEW w \in Seq(Tokens), NEW t \in Seq(Tokens)
  PROVE  AndGoesOn(p, q, w, t) /\ OrGoesOn(p, q, w, t)
<1> DEFINE l(c) == Node(p, <<Op(c)>> \o w)
           y == Node(q, t)
           b(c) == Node(p \o q \o <<Op(c)>>, t)
<1>1. ASSUME NEW c \in {"&", "|"}
      PROVE  /\ l(c).status = "node" /\ StartsWith(l(c).rest, c) /\ Tail(l(c).rest) = w
             /\ Binary(l(c), y, c) = b(c) /\ b(c) \in Results
  <2> DEFINE s == <<Op(c)>> \o w
             m == p \o q \o <<Op(c)>>
  <2>1. s \in Seq(Tokens) /\ Tail(s) = w /\ StartsWith(s, c)
    BY Starts
  <2>2. m \in Seq(Tokens)
    BY OpToken
  <2>3. l(c) = Node(p, s) /\ b(c) = Node(m, t)
    OBVIOUS
  <2>4. Binary(l(c), y, c) = b(c)
    BY ResultTypes DEF Binary, Node
  <2> HIDE DEF s, m, l, b
  <2>5. l(c).status = "node" /\ l(c).rest = s /\ b(c) \in Results
    BY <2>1, <2>2, <2>3, ResultTypes
  <2> QED BY <2>1, <2>4, <2>5, Zenon
<1> HIDE DEF l, y, b
<1>2. ASSUME Parse[Call("not", Null(w))] = y PROVE AndLoop(Parse, l("&")) = AndLoop(Parse, b("&"))
  <2>1. AndLoop(Parse, l("&")) = Parse[Call("andLoop", b("&"))]
    BY <1>1, <1>2 DEF AndLoop
  <2> QED BY <1>1, <2>1, LoopsAsked
<1>3. ASSUME Parse[Call("and", Null(w))] = y PROVE OrLoop(Parse, l("|")) = OrLoop(Parse, b("|"))
  <2>1. OrLoop(Parse, l("|")) = Parse[Call("orLoop", b("|"))]
    BY <1>1, <1>3 DEF OrLoop
  <2> QED BY <1>1, <2>1, LoopsAsked
<1> QED BY <1>2, <1>3, Zenon DEF AndGoesOn, OrGoesOn, l, y, b

(* Every reading of s is what the parser makes of s, whatever is behind s; as an operand of *)
(* a loop, and then of the loop. *)
FactorParsed(s) ==
  \A r \in Factor(s) : \E p : /\ Good(p, s, r)
                              /\ \A t \in Seq(Tokens) : ParseNot(Parse, s \o t) = Node(p, t)

TermParsed(s) ==
  \A r \in Term(s) : \E p : /\ Good(p, s, r)
                            /\ \A t \in Seq(Tokens) :
                                 Parse[Call("and", Null(s \o t))] = AndLoop(Parse, Node(p, t))

SumParsed(s) ==
  \A r \in Sum(s) : \E p : /\ Good(p, s, r)
                           /\ \A t \in Seq(Tokens) : ~StartsWith(t, "&") =>
                                Parse[Call("or", Null(s \o t))] = OrLoop(Parse, Node(p, t))

AllParsed(s) == FactorParsed(s) /\ TermParsed(s) /\ SumParsed(s)

(* A factor, when what is shorter is parsed. *)
LEMMA FactorIsParsed ==
  ASSUME NEW s \in Seq(Tokens), \A u \in Seq(Tokens) : Len(u) < Len(s) => AllParsed(u)
  PROVE  FactorParsed(s)
<1> SUFFICES ASSUME NEW r \in Factor(s)
             PROVE  \E p : Good(p, s, r) /\ \A t \in Seq(Tokens) : ParseNot(Parse, s \o t) = Node(p, t)
  BY Zenon DEF FactorParsed
<1>1. CASE \E u \in Seq(Tokens) : /\ s = <<Op("!")>> \o u /\ Len(u) < Len(s)
                                  /\ \E a \in Factor(u) : r = Combinations \ a
  <2>1. PICK u \in Seq(Tokens) : /\ s = <<Op("!")>> \o u /\ Len(u) < Len(s)
                                 /\ \E a \in Factor(u) : r = Combinations \ a
    BY <1>1, Zenon
  <2>2. PICK a \in Factor(u) : r = Combinations \ a
    BY <2>1, Zenon
  <2>3. PICK p : Good(p, u, a) /\ \A t \in Seq(Tokens) : ParseNot(Parse, u \o t) = Node(p, t)
    BY <2>1, Zenon DEF AllParsed, FactorParsed
  <2> DEFINE o == <<Op("!")>>
             q == p \o o
  <2>4. Good(q, s, r)
    BY <2>1, <2>2, <2>3, GoodNot, Zenon
  <2>5. ASSUME NEW t \in Seq(Tokens) PROVE ParseNot(Parse, s \o t) = Node(q, t)
    <3> DEFINE w == u \o t
    <3>1. w \in Seq(Tokens) /\ o \in Seq(Tokens) /\ p \in Seq(Tokens)
      BY <2>3, OpToken DEF Good
    <3>2. s \o t = o \o w
      <4>1. Regroups(o, u, t)
        BY <3>1, Regrouped
      <4> QED BY <2>1, <4>1, Zenon DEF Regroups
    <3>3. Parse[Call("not", Null(w))] = Node(p, t)
      BY <2>3, <3>1, RulesAsked, Zenon
    <3> HIDE DEF w
    <3>4. StartsWith(o \o w, "!") /\ Tail(o \o w) = w
      BY <3>1, Starts
    <3>5. Node(p, t).status = "node" /\ Node(p, t).rpn = p /\ Node(p, t).rest = t
      BY <3>1, ResultTypes
    <3> HIDE DEF o, q
    <3>6. ParseNot(Parse, o \o w) = Node(p \o <<Op("!")>>, t)
      BY <3>3, <3>4, <3>5 DEF ParseNot
    <3> QED BY <3>2, <3>6, Zenon DEF q, o
  <2> QED BY <2>4, <2>5, Zenon
<1>2. CASE \E u \in Seq(Tokens) : s = <<Op("(")>> \o u \o <<Op(")")>> /\ Len(u) < Len(s) /\ r \in Sum(u)
  <2>1. PICK u \in Seq(Tokens) : s = <<Op("(")>> \o u \o <<Op(")")>> /\ Len(u) < Len(s) /\ r \in Sum(u)
    BY <1>2, Zenon
  <2>2. PICK p : /\ Good(p, u, r)
                 /\ \A t \in Seq(Tokens) : ~StartsWith(t, "&") =>
                      Parse[Call("or", Null(u \o t))] = OrLoop(Parse, Node(p, t))
    BY <2>1, Zenon DEF AllParsed, SumParsed
  <2>3. Good(p, s, r)
    BY <2>1, <2>2, GoodEnclosed, Zenon
  <2>4. ASSUME NEW t \in Seq(Tokens) PROVE ParseNot(Parse, s \o t) = Node(p, t)
    <3> DEFINE b == <<Op("(")>>
               c == <<Op(")")>>
               ct == c \o t
               w == u \o ct
               i == Node(p, ct)
    <3>1. b \in Seq(Tokens) /\ c \in Seq(Tokens) /\ p \in Seq(Tokens)
      BY <2>2, OpToken DEF Good
    <3>2. ct \in Seq(Tokens) /\ Tail(ct) = t /\ StartsWith(ct, ")") /\ ~StartsWith(ct, "&") /\ ~StartsWith(ct, "|")
      BY Starts
    <3>3. s \o t = b \o w
      <4>1. Flattens(b, u, c, t)
        BY <3>1, Flattened
      <4> QED BY <2>1, <4>1, Zenon DEF Flattens
    <3> HIDE DEF c, ct
    <3>4. w \in Seq(Tokens) /\ Parse[Call("or", Null(w))] = i
      <4>1. w \in Seq(Tokens)
        BY <3>2
      <4>2. Parse[Call("or", Null(w))] = OrLoop(Parse, i)
        BY <2>2, <3>2, Zenon
      <4> QED BY <3>1, <3>2, <4>1, <4>2, LoopEnds, Zenon
    <3> HIDE DEF w
    <3>5. StartsWith(b \o w, "(") /\ ~StartsWith(b \o w, "!") /\ ~StartsWith(b \o w, "signal")
          /\ Tail(b \o w) = w /\ b \o w # <<>>
      BY <3>4, Starts
    <3> HIDE DEF b
    <3>6. ParseNot(Parse, b \o w) = [i EXCEPT !.rest = Tail(@)]
      <4>1. i.status = "node" /\ i.rest = ct
        BY <3>1, <3>2, ResultTypes
      <4> HIDE DEF i
      <4> QED BY <3>2, <3>4, <3>5, <4>1 DEF ParseNot, ParseValue
    <3>7. [i EXCEPT !.rest = Tail(@)] = Node(p, t)
      <4> DEFINE node(z) == [status |-> "node", rpn |-> p, rest |-> z]
      <4>1. i = node(ct) /\ Node(p, t) = node(t)
        BY Zenon DEF Node
      <4>2. [i EXCEPT !.rest = Tail(@)] = [node(ct) EXCEPT !.rest = t]
        <5>1. node(ct).rest = ct
          OBVIOUS
        <5> HIDE DEF node, i
        <5> QED BY <3>2, <4>1, <5>1, Zenon
      <4>3. [node(ct) EXCEPT !.rest = t] = node(t)
        <5> HIDE DEF ct
        <5> QED BY SMT
      <4> HIDE DEF node, i
      <4> QED BY <4>1, <4>2, <4>3, Zenon
    <3> QED BY <3>3, <3>6, <3>7, Zenon
  <2> QED BY <2>3, <2>4, Zenon
<1>3. CASE \E n \in Nat : s = <<Sig(n)>> /\ r = SignalReading(n)
  <2>1. PICK n \in Nat : s = <<Sig(n)>> /\ r = SignalReading(n)
    BY <1>3, Zenon
  <2>2. Good(s, s, r)
    BY <2>1, GoodSignal, Zenon
  <2>3. ASSUME NEW t \in Seq(Tokens) PROVE ParseNot(Parse, s \o t) = Node(s, t)
    <3>1. Sig(n) \in Tokens /\ Sig(n).kind = "signal"
      BY DEF Sig, Tokens
    <3> DEFINE w == s \o t
    <3>2. w \in Seq(Tokens) /\ w # <<>> /\ Head(w) = Sig(n) /\ Tail(w) = t
      BY <2>1, <3>1, Prefixed, Zenon
    <3> HIDE DEF w
    <3>3. StartsWith(w, "signal") /\ ~StartsWith(w, "!") /\ ~StartsWith(w, "(")
      BY <3>1, <3>2 DEF StartsWith
    <3>4. ParseNot(Parse, w) = Node(<<Head(w)>>, Tail(w))
      BY <3>2, <3>3 DEF ParseNot, ParseValue
    <3> QED BY <2>1, <3>2, <3>4, Zenon DEF w
  <2> QED BY <2>2, <2>3, Zenon
<1> QED BY <1>1, <1>2, <1>3, FactorMadeOf, Zenon

(* A term, when the factor and what is shorter is parsed. *)
LEMMA TermIsParsed ==
  ASSUME NEW s \in Seq(Tokens), FactorParsed(s),
         \A u \in Seq(Tokens) : Len(u) < Len(s) => AllParsed(u)
  PROVE  TermParsed(s)
<1> SUFFICES ASSUME NEW r \in Term(s)
             PROVE  \E p : /\ Good(p, s, r)
                           /\ \A t \in Seq(Tokens) :
                                Parse[Call("and", Null(s \o t))] = AndLoop(Parse, Node(p, t))
  BY Zenon DEF TermParsed
<1>1. CASE r \in Factor(s)
  <2>1. PICK p : Good(p, s, r) /\ \A t \in Seq(Tokens) : ParseNot(Parse, s \o t) = Node(p, t)
    BY <1>1, Zenon DEF FactorParsed
  <2>2. ASSUME NEW t \in Seq(Tokens)
        PROVE  Parse[Call("and", Null(s \o t))] = AndLoop(Parse, Node(p, t))
    BY <2>1, Cats, RulesAsked, Zenon
  <2> QED BY <2>1, <2>2, Zenon
<1>2. CASE TermSplit(s, r)
  <2>1. PICK u \in Seq(Tokens), v \in Seq(Tokens) :
             /\ s = u \o <<Op("&")>> \o v /\ Len(u) < Len(s) /\ Len(v) < Len(s)
             /\ \E a \in Term(u), b \in Factor(v) : r = a \cap b
    BY <1>2, Zenon DEF TermSplit
  <2>2. PICK a \in Term(u), b \in Factor(v) : r = a \cap b
    BY <2>1, Zenon
  <2>3. PICK p : /\ Good(p, u, a)
                 /\ \A t \in Seq(Tokens) : Parse[Call("and", Null(u \o t))] = AndLoop(Parse, Node(p, t))
    BY <2>1, Zenon DEF AllParsed, TermParsed
  <2>4. PICK q : Good(q, v, b) /\ \A t \in Seq(Tokens) : ParseNot(Parse, v \o t) = Node(q, t)
    BY <2>1, Zenon DEF AllParsed, FactorParsed
  <2> DEFINE m == p \o q \o <<Op("&")>>
  <2>5. Good(m, s, r)
    BY <2>1, <2>2, <2>3, <2>4, GoodBoth, Zenon
  <2>6. ASSUME NEW t \in Seq(Tokens)
        PROVE  Parse[Call("and", Null(s \o t))] = AndLoop(Parse, Node(m, t))
    <3> DEFINE o == <<Op("&")>>
               w == v \o t
               ow == o \o w
    <3>1. o \in Seq(Tokens) /\ p \in Seq(Tokens) /\ q \in Seq(Tokens) /\ w \in Seq(Tokens) /\ ow \in Seq(Tokens)
      BY <2>3, <2>4, OpToken, Cats DEF Good
    <3>2. s \o t = u \o ow
      <4>1. Flattens(u, o, v, t)
        BY <3>1, Flattened
      <4> QED BY <2>1, <4>1, Zenon DEF Flattens
    <3>3. Parse[Call("and", Null(u \o ow))] = AndLoop(Parse, Node(p, ow))
      BY <2>3, <3>1, Zenon
    <3>4. Parse[Call("not", Null(w))] = Node(q, t)
      BY <2>4, <3>1, RulesAsked, Zenon
    <3>5. AndLoop(Parse, Node(p, ow)) = AndLoop(Parse, Node(m, t))
      <4>1. AndGoesOn(p, q, w, t)
        BY <3>1, LoopGoesOn
      <4> QED BY <3>4, <4>1, Zenon DEF AndGoesOn
    <3> QED BY <3>2, <3>3, <3>5, Zenon
  <2> QED BY <2>5, <2>6, Zenon
<1> QED BY <1>1, <1>2, TermMadeOf

(* A sum, when the term and what is shorter is parsed. *)
LEMMA SumIsParsed ==
  ASSUME NEW s \in Seq(Tokens), TermParsed(s),
         \A u \in Seq(Tokens) : Len(u) < Len(s) => AllParsed(u)
  PROVE  SumParsed(s)
<1> SUFFICES ASSUME NEW r \in Sum(s)
             PROVE  \E p : /\ Good(p, s, r)
                           /\ \A t \in Seq(Tokens) : ~StartsWith(t, "&") =>
                                Parse[Call("or", Null(s \o t))] = OrLoop(Parse, Node(p, t))
  BY Zenon DEF SumParsed
<1>1. CASE r \in Term(s)
  <2>1. PICK p : /\ Good(p, s, r)
                 /\ \A t \in Seq(Tokens) : Parse[Call("and", Null(s \o t))] = AndLoop(Parse, Node(p, t))
    BY <1>1, Zenon DEF TermParsed
  <2>2. ASSUME NEW t \in Seq(Tokens), ~StartsWith(t, "&")
        PROVE  Parse[Call("or", Null(s \o t))] = OrLoop(Parse, Node(p, t))
    <3>1. p \in Seq(Tokens) /\ s \o t \in Seq(Tokens)
      BY <2>1, Cats, Zenon DEF Good
    <3>2. AndLoop(Parse, Node(p, t)) = Node(p, t)
      BY <2>2, <3>1, LoopEnds, Zenon
    <3> QED BY <2>1, <3>1, <3>2, RulesAsked, Zenon
  <2> QED BY <2>1, <2>2, Zenon
<1>2. CASE SumSplit(s, r)
  <2>1. PICK u \in Seq(Tokens), v \in Seq(Tokens) :
             /\ s = u \o <<Op("|")>> \o v /\ Len(u) < Len(s) /\ Len(v) < Len(s)
             /\ \E a \in Sum(u), b \in Term(v) : r = a \cup b
    BY <1>2, Zenon DEF SumSplit
  <2>2. PICK a \in Sum(u), b \in Term(v) : r = a \cup b
    BY <2>1, Zenon
  <2>3. PICK p : /\ Good(p, u, a)
                 /\ \A t \in Seq(Tokens) : ~StartsWith(t, "&") =>
                      Parse[Call("or", Null(u \o t))] = OrLoop(Parse, Node(p, t))
    BY <2>1, Zenon DEF AllParsed, SumParsed
  <2>4. PICK q : /\ Good(q, v, b)
                 /\ \A t \in Seq(Tokens) : Parse[Call("and", Null(v \o t))] = AndLoop(Parse, Node(q, t))
    BY <2>1, Zenon DEF AllParsed, TermParsed
  <2> DEFINE m == p \o q \o <<Op("|")>>
  <2>5. Good(m, s, r)
    BY <2>1, <2>2, <2>3, <2>4, GoodBoth, Zenon
  <2>6. ASSUME NEW t \in Seq(Tokens), ~StartsWith(t, "&")
        PROVE  Parse[Call("or", Null(s \o t))] = OrLoop(Parse, Node(m, t))
    <3> DEFINE o == <<Op("|")>>
               w == v \o t
               ow == o \o w
    <3>1. o \in Seq(Tokens) /\ p \in Seq(Tokens) /\ q \in Seq(Tokens) /\ w \in Seq(Tokens) /\ ow \in Seq(Tokens)
      BY <2>3, <2>4, OpToken, Cats DEF Good
    <3>2. s \o t = u \o ow
      <4>1. Flattens(u, o, v, t)
        BY <3>1, Flattened
      <4> QED BY <2>1, <4>1, Zenon DEF Flattens
    <3>3. ~StartsWith(ow, "&")
      <4> HIDE DEF w
      <4> QED BY <3>1, Starts
    <3>4. Parse[Call("or", Null(u \o ow))] = OrLoop(Parse, Node(p, ow))
      BY <2>3, <3>1, <3>3, Zenon
    <3>5. Parse[Call("and", Null(w))] = Node(q, t)
      BY <2>4, <2>6, <3>1, LoopEnds, Zenon
    <3>6. OrLoop(Parse, Node(p, ow)) = OrLoop(Parse, Node(m, t))
      <4>1. OrGoesOn(p, q, w, t)
        BY <3>1, LoopGoesOn
      <4> QED BY <3>5, <4>1, Zenon DEF OrGoesOn
    <3> QED BY <3>2, <3>4, <3>6, Zenon
  <2> QED BY <2>5, <2>6, Zenon
<1> QED BY <1>1, <1>2, SumMadeOf

(* All of them, by the shortest that is not. *)
LEMMA ParseComplete ==
  \A s \in Seq(Tokens) : AllParsed(s)
<1> DEFINE Off == {s \in Seq(Tokens) : ~AllParsed(s)}
           T == {Len(s) : s \in Off}
<1>1. SUFFICES ASSUME T # {} PROVE FALSE
  BY <1>1, Zenon
<1>2. T \subseteq Nat
  OBVIOUS
<1>3. PICK k \in T : \A l \in T : k <= l
  BY <1>1, <1>2, LeastElement
<1>4. PICK s \in Off : Len(s) = k
  BY <1>3
<1>5. ASSUME NEW u \in Seq(Tokens), Len(u) < Len(s) PROVE AllParsed(u)
  <2>1. Len(u) \in Nat /\ Len(s) \in Nat
    OBVIOUS
  <2>2. Len(u) \notin T
    <3> HIDE DEF T, Off
    <3> QED BY <1>3, <1>4, <1>5, <2>1
  <2> QED BY <2>2
<1>6. s \in Seq(Tokens) /\ ~AllParsed(s)
  OBVIOUS
<1>7. FactorParsed(s)
  BY <1>5, <1>6, FactorIsParsed
<1>8. TermParsed(s)
  BY <1>5, <1>6, <1>7, TermIsParsed
<1>9. SumParsed(s)
  BY <1>5, <1>6, <1>8, SumIsParsed
<1> QED BY <1>6, <1>7, <1>8, <1>9 DEF AllParsed

-----------------------------------------------------------------------------
(* From the commands to the table.                                              *)

(* Commands keeps what are only commands. *)
LEMMA CommandsKept ==
  ASSUME NEW p \in Seq(Tokens), \A n \in DOMAIN p : IsCommand(p[n])
  PROVE  Commands(p) = p
<1> DEFINE A(f) == f = [n \in 0 .. Len(p) |->
                          IF n = 0 THEN <<>> ELSE IF IsCommand(p[n]) THEN Append(f[n - 1], p[n]) ELSE f[n - 1]]
           kept == CHOOSE f : A(f)
           g == [n \in 0 .. Len(p) |-> SubSeq(p, 1, n)]
<1>1. Len(p) \in Nat /\ DOMAIN p = 1 .. Len(p) /\ \A n \in 1 .. Len(p) : p[n] \in Tokens
  OBVIOUS
<1>2. SubSeq(p, 1, 0) = <<>> /\ SubSeq(p, 1, Len(p)) = p
  <2>1. SubSeq(p, 1, Len(p)) \in Seq(Tokens) /\ Len(SubSeq(p, 1, Len(p))) = Len(p)
        /\ \A n \in 1 .. Len(p) : SubSeq(p, 1, Len(p))[n] = p[n]
    BY <1>1
  <2>2. SubSeq(p, 1, Len(p)) = p
    BY <2>1, SeqEqual
  <2>3. SubSeq(p, 1, 0) = <<>>
    OBVIOUS
  <2> QED BY <2>2, <2>3
<1>3. ASSUME NEW n \in 1 .. Len(p) PROVE SubSeq(p, 1, n) = Append(SubSeq(p, 1, n - 1), p[n])
  <2> DEFINE a == SubSeq(p, 1, n - 1)
             b == SubSeq(p, 1, n)
  <2>1. a \in Seq(Tokens) /\ Len(a) = n - 1 /\ \A i \in 1 .. n - 1 : a[i] = p[i]
    BY <1>1
  <2>2. b \in Seq(Tokens) /\ Len(b) = n /\ \A i \in 1 .. n : b[i] = p[i]
    BY <1>1
  <2> HIDE DEF a, b
  <2>3. p[n] \in Tokens /\ Len(b) = Len(a) + 1 /\ (\A i \in 1 .. Len(a) : b[i] = a[i]) /\ b[Len(a) + 1] = p[n]
    BY <1>1, <2>1, <2>2
  <2> QED BY <2>1, <2>2, <2>3, IsLonger DEF a, b
<1>4. A(g)
  <2>1. ASSUME NEW n \in 0 .. Len(p)
        PROVE  g[n] = IF n = 0 THEN <<>> ELSE IF IsCommand(p[n]) THEN Append(g[n - 1], p[n]) ELSE g[n - 1]
    <3>1. CASE n = 0
      BY <1>2, <3>1
    <3>2. CASE n # 0
      <4>1. n \in 1 .. Len(p) /\ n - 1 \in 0 .. Len(p) /\ IsCommand(p[n])
        BY <1>1, <3>2
      <4> QED BY <1>3, <3>2, <4>1, Zenon
    <3> QED BY <3>1, <3>2
  <2>2. g = [n \in 0 .. Len(p) |-> g[n]]
    OBVIOUS
  <2> HIDE DEF g
  <2> QED BY <2>1, <2>2
<1>5. A(kept)
  <2> HIDE DEF A
  <2> QED BY <1>4, Zenon
<1>6. kept[0] = <<>> /\ \A n \in 1 .. Len(p) : kept[n] = Append(kept[n - 1], p[n])
  <2>1. \A n \in 0 .. Len(p) :
          kept[n] = IF n = 0 THEN <<>> ELSE IF IsCommand(p[n]) THEN Append(kept[n - 1], p[n]) ELSE kept[n - 1]
    <3> HIDE DEF kept
    <3> QED BY <1>5, Zenon
  <2>2. 0 \in 0 .. Len(p) /\ \A n \in 1 .. Len(p) : n \in 0 .. Len(p) /\ n # 0 /\ IsCommand(p[n])
    BY <1>1
  <2> HIDE DEF kept
  <2> QED BY <2>1, <2>2, Zenon
<1>7. Commands(p) = kept[Len(p)]
  BY Zenon DEF Commands
<1> HIDE DEF kept, A
<1>8. kept[Len(p)] = SubSeq(p, 1, Len(p))
  <2> DEFINE T == {n \in 0 .. Len(p) : kept[n] # SubSeq(p, 1, n)}
  <2>1. SUFFICES ASSUME T # {} PROVE FALSE
    <3>1. Len(p) \in 0 .. Len(p)
      BY <1>1
    <3> QED BY <2>1, <3>1
  <2>2. PICK n \in T : \A m \in T : n <= m
    <3>1. T \subseteq Nat
      BY <1>1
    <3> HIDE DEF T
    <3> QED BY <2>1, <3>1, LeastElement
  <2>3. n # 0
    BY <1>2, <1>6, <2>2
  <2>4. n \in 1 .. Len(p) /\ n - 1 \in 0 .. Len(p) /\ n - 1 \notin T
    BY <1>1, <2>2, <2>3
  <2>5. kept[n - 1] = SubSeq(p, 1, n - 1)
    BY <2>4
  <2>6. kept[n] = SubSeq(p, 1, n)
    BY <1>3, <1>6, <2>4, <2>5, Zenon
  <2> QED BY <2>2, <2>6
<1> QED BY <1>2, <1>7, <1>8

(* h is the highest signal of s. *)
IsHighest(h, s) == h \in Nat /\ (\E i \in DOMAIN s : s[i].id = h) /\ (\A i \in DOMAIN s : s[i].id <= h)

(* The commands of s have its signals, and so its highest. *)
LEMMA HighestOfCommands ==
  ASSUME NsigMax \in Nat \ {0}, NEW s \in Seq(Tokens), NEW p, NEW r, Good(p, s, r),
         NEW h, IsHighest(h, s), h < NsigMax
  PROVE  (\A n \in DOMAIN p : IsCommand(p[n])) /\ SigMax(p) = h
<1>1. p \in Seq(Tokens) /\ h \in 0 .. NsigMax - 1 /\ h \in Nat
  BY DEF Good, IsHighest
<1>2. \A t \in ToSet(p) : t \in Tokens /\ (t.kind = "signal" => \E i \in DOMAIN s : s[i] = t)
  <2>1. \A t \in ToSet(p) : t \in Tokens
    BY <1>1 DEF ToSet
  <2>2. ASSUME NEW t \in ToSet(p), t.kind = "signal" PROVE \E i \in DOMAIN s : s[i] = t
    <3>1. t \in SignalsOf(s)
      BY <2>2 DEF Good, SignalsOf
    <3> QED BY <3>1 DEF SignalsOf, ToSet
  <2> QED BY <2>1, <2>2
<1>3. \A n \in DOMAIN p : p[n] \in ToSet(p)
  BY DEF ToSet
<1>4. \A n \in DOMAIN p : IsCommand(p[n])
  <2> SUFFICES ASSUME NEW n \in DOMAIN p PROVE IsCommand(p[n])
    OBVIOUS
  <2>1. p[n] \in ToSet(p)
    BY <1>3
  <2>2. p[n].kind = "signal" => p[n].id < NsigMax
    <3> SUFFICES ASSUME p[n].kind = "signal" PROVE p[n].id < NsigMax
      OBVIOUS
    <3>1. PICK i \in DOMAIN s : s[i] = p[n]
      BY <1>2, <2>1
    <3>2. p[n].id <= h /\ p[n].id \in Nat
      BY <1>2, <2>1, <3>1, KindOfToken DEF IsHighest
    <3> QED BY <1>1, <3>2
  <2>3. p[n].kind \in Ops \cup {"signal"}
    BY <2>1 DEF Good
  <2> QED BY <2>2, <2>3 DEF IsCommand, Ops
<1> DEFINE N == {n \in 0 .. NsigMax - 1 : n = 0 \/ \E i \in DOMAIN p : p[i] = Sig(n)}
<1>5. \A n \in N : n <= h
  <2> SUFFICES ASSUME NEW n \in N, n # 0 PROVE n <= h
    BY <1>1
  <2>1. PICK i \in DOMAIN p : p[i] = Sig(n)
    OBVIOUS
  <2>2. Sig(n).kind = "signal" /\ Sig(n).id = n
    BY DEF Sig
  <2>3. PICK k \in DOMAIN s : s[k] = Sig(n)
    BY <1>2, <1>3, <2>1, <2>2
  <2> QED BY <2>2, <2>3 DEF IsHighest
<1>6. h \in N
  <2>1. PICK i \in DOMAIN s : s[i].id = h
    BY DEF IsHighest
  <2>2. s[i] \in Tokens
    OBVIOUS
  <2>3. s[i].kind = "signal"
    BY <1>1, <2>1, <2>2 DEF Tokens
  <2>4. s[i] = Sig(h)
    BY <2>1, <2>2, <2>3, KindOfToken
  <2>5. Sig(h) \in SignalsOf(s)
    BY <2>3, <2>4 DEF SignalsOf, ToSet
  <2>6. Sig(h) \in ToSet(p)
    BY <2>5 DEF Good, SignalsOf
  <2> QED BY <1>1, <2>6 DEF ToSet
<1>7. SigMax(p) = Max(N)
  BY Zenon DEF SigMax
<1>8. Max(N) = h
  <2>1. N \subseteq Int
    OBVIOUS
  <2> HIDE DEF N
  <2>2. \A x \in N : (\A y \in N : x >= y) <=> x = h
    BY <1>1, <1>5, <1>6, <2>1
  <2>3. Max(N) = CHOOSE x \in N : \A y \in N : x >= y
    BY DEF Max
  <2> QED BY <1>6, <2>2, <2>3
<1> QED BY <1>4, <1>7, <1>8, Zenon

(* Every reading of a well-formed expression is computed by the commands that the parser makes of it.  *)
LEMMA ReadingsAreParsed ==
  ASSUME NEW s \in Seq(Tokens), NEW r \in Readings(s)
  PROVE  \E p : Good(p, s, r) /\ InfixToRPN(s) = Node(p, <<>>)
<1>1. r \in Sum(s)
  BY ReadsIsReadings DEF Sum
<1>2. PICK p : /\ Good(p, s, r)
               /\ \A t \in Seq(Tokens) : ~StartsWith(t, "&") =>
                    Parse[Call("or", Null(s \o t))] = OrLoop(Parse, Node(p, t))
  BY <1>1, ParseComplete, Zenon DEF AllParsed, SumParsed
<1>3. <<>> \in Seq(Tokens) /\ ~StartsWith(<<>>, "&") /\ ~StartsWith(<<>>, "|") /\ s \o <<>> = s
  BY Cats DEF StartsWith
<1>4. p \in Seq(Tokens)
  BY <1>2 DEF Good
<1>5. Parse[Call("or", Null(s))] = Node(p, <<>>)
  <2>1. Parse[Call("or", Null(s \o <<>>))] = OrLoop(Parse, Node(p, <<>>))
    BY <1>2, <1>3, Zenon
  <2>2. OrLoop(Parse, Node(p, <<>>)) = Node(p, <<>>)
    BY <1>3, <1>4, LoopEnds
  <2> QED BY <1>3, <2>1, <2>2
<1>6. Node(p, <<>>).rest = <<>>
  BY DEF Node
<1>7. InfixToRPN(s) = Node(p, <<>>)
  BY <1>5, <1>6 DEF InfixToRPN
<1> QED BY <1>2, <1>7

(* A well-formed expression has a highest signal. *)
LEMMA HasHighest ==
  ASSUME NEW s \in Seq(Tokens), WellFormed(s)
  PROVE  \E h : IsHighest(h, s)
<1> DEFINE Bound(n) == \E b \in Nat : \A i \in 1 .. n : s[i].id <= b
           T == {n \in 0 .. Len(s) : ~Bound(n)}
<1>1. /\ Len(s) \in Nat /\ DOMAIN s = 1 .. Len(s)
      /\ \A i \in DOMAIN s : s[i] \in Tokens /\ s[i].id \in Int
  BY DEF Tokens
<1>2. Bound(Len(s))
  <2>1. SUFFICES ASSUME T # {} PROVE FALSE
    <3>1. Len(s) \in 0 .. Len(s)
      BY <1>1
    <3> HIDE DEF Bound
    <3> QED BY <3>1
  <2>2. PICK n \in T : \A m \in T : n <= m
    <3>1. T \subseteq Nat
      BY <1>1
    <3> HIDE DEF T
    <3> QED BY <2>1, <3>1, LeastElement
  <2>3. n \in 0 .. Len(s) /\ ~Bound(n)
    BY <2>2
  <2>4. Bound(0)
    <3>1. 0 \in Nat /\ \A i \in 1 .. 0 : s[i].id <= 0
      OBVIOUS
    <3> QED BY <3>1
  <2>5. n - 1 \in 0 .. Len(s) /\ ~(n <= n - 1) /\ n \in 1 .. Len(s)
    <3>1. n # 0
      BY <2>3, <2>4
    <3> HIDE DEF Bound
    <3> QED BY <1>1, <2>3, <3>1
  <2>6. PICK b \in Nat : \A i \in 1 .. n - 1 : s[i].id <= b
    <3>1. Bound(n - 1)
      BY <2>2, <2>5
    <3> QED BY <3>1
  <2>7. PICK c \in Nat : s[n].id <= c
    <3>1. s[n].id \in Int
      BY <1>1, <2>5
    <3>2. \A x \in Int : \E c \in Nat : x <= c
      <4>1. \A x \in Int : x >= 0 => x \in Nat /\ x <= x
        OBVIOUS
      <4>2. \A x \in Int : ~(x >= 0) => 0 \in Nat /\ x <= 0
        OBVIOUS
      <4> QED BY <4>1, <4>2
    <3> QED BY <3>1, <3>2
  <2>8. b + c \in Nat
    <3> HIDE DEF T, Bound
    <3> QED OBVIOUS
  <2>9. ASSUME NEW i \in 1 .. n PROVE s[i].id <= b + c
    <3>1. s[i].id \in Int
      <4>1. i \in DOMAIN s
        <5> HIDE DEF T
        <5> QED BY <1>1, <2>5
      <4> QED BY <1>1, <4>1, Zenon
    <3>2. CASE i = n
      <4>1. s[i].id <= c
        BY <2>7, <3>2
      <4> HIDE DEF T
      <4> QED BY <3>1, <4>1
    <3>3. CASE i # n
      <4>1. i \in 1 .. n - 1
        BY <2>5, <3>3
      <4>2. s[i].id <= b
        BY <2>6, <4>1
      <4> HIDE DEF T
      <4> QED BY <3>1, <4>2
    <3> QED BY <3>2, <3>3
  <2>10. Bound(n)
    BY <2>8, <2>9
  <2> QED BY <2>3, <2>10
<1>3. PICK b \in Nat : \A i \in DOMAIN s : s[i].id <= b
  BY <1>1, <1>2
<1>4. PICK k \in DOMAIN s : s[k].id \in Nat
  <2>1. PICK r : r \in Readings(s)
    BY DEF WellFormed
  <2>2. SignalsOf(s) # {}
    BY <2>1, ReadingsAreParsed DEF Good
  <2>3. PICK k \in DOMAIN s : s[k].kind = "signal"
    BY <2>2 DEF SignalsOf, ToSet
  <2>4. s[k].id \in Nat
    <3>1. s[k] \in Tokens
      BY <1>1
    <3> QED BY <2>3, <3>1 DEF Tokens
  <2> QED BY <2>3, <2>4
<1> DEFINE B == {b - s[i].id : i \in DOMAIN s}
<1>5. B # {} /\ B \subseteq Nat
  <2>1. \A i \in DOMAIN s : b - s[i].id \in Nat
    BY <1>1, <1>3
  <2>2. b - s[k].id \in B
    OBVIOUS
  <2> QED BY <2>1, <2>2
<1>6. PICK y \in B : \A z \in B : y <= z
  <2> HIDE DEF B
  <2> QED BY <1>5, LeastElement
<1>7. PICK h \in DOMAIN s : y = b - s[h].id
  BY <1>6
<1>8. \A i \in DOMAIN s : s[i].id <= s[h].id
  <2> SUFFICES ASSUME NEW i \in DOMAIN s PROVE s[i].id <= s[h].id
    OBVIOUS
  <2>1. b - s[i].id \in B
    OBVIOUS
  <2>2. b - s[h].id <= b - s[i].id
    BY <1>6, <1>7, <2>1
  <2>3. s[i].id \in Int /\ s[h].id \in Int
    BY <1>1
  <2> HIDE DEF B
  <2> QED BY <2>2, <2>3
<1>9. s[h].id \in Nat
  <2>1. s[k].id <= s[h].id /\ s[h].id \in Int
    BY <1>1, <1>8
  <2> QED BY <1>4, <2>1
<1> QED BY <1>8, <1>9 DEF IsHighest

(* A well-formed expression has one reading, its meaning.  Of one whose signals are below the last id   *)
(* the program makes a table (infixtorpn::AstNode, LogiCalc::SetFormula, TriggerMap::MakeTable) that is *)
(* on for exactly the combinations of signals up to the highest that the expression is true for.        *)
THEOREM TableIsMeaning ==
  ASSUME NsigMax \in Nat \ {0}, NEW s \in Seq(Tokens), WellFormed(s), NEW h, IsHighest(h, s), h + 1 < NsigMax
  PROVE  LET formula  == InfixToRPN(s)
             commands == Commands(formula.rpn)
         IN  /\ Readings(s) = {Meaning(s)}
             /\ formula.status = "node" /\ Defined(commands)
             /\ \A on \in Combinations :
                  LookUp(MakeTable(commands), on) <=> on \subseteq 0 .. h /\ on \in Meaning(s)
<1> DEFINE formula  == InfixToRPN(s)
           c == Commands(formula.rpn)
<1>1. h \in Nat /\ h < NsigMax /\ 0 .. h \subseteq 0 .. NsigMax - 1
  BY DEF IsHighest
<1>2. ASSUME NEW r \in Readings(s)
      PROVE  formula.status = "node" /\ SigMax(c) = h
             /\ \A on \in Combinations : Calc(c, on).defined /\ Calc(c, on).value = (on \in r)
  <2>1. PICK p : Good(p, s, r) /\ formula = Node(p, <<>>)
    BY ReadingsAreParsed
  <2>2. p \in Seq(Tokens) /\ Computes(p, r)
    BY <2>1 DEF Good
  <2>3. formula.status = "node" /\ formula.rpn = p
    BY <2>1, <2>2 DEF Node
  <2>4. c = p /\ SigMax(p) = h
    BY <1>1, <2>1, <2>2, <2>3, HighestOfCommands, CommandsKept, Zenon
  <2>5. \A on \in Combinations : Calc(p, on).defined /\ Calc(p, on).value = (on \in r)
    BY <2>2, CalcComputes
  <2> HIDE DEF formula, c
  <2> QED BY <2>3, <2>4, <2>5
<1> HIDE DEF formula, c
<1>3. \A r \in Readings(s) : r \subseteq Combinations
  <2>1. Readings(s) \in ReadingSets
    BY ReadsIsReadings, ReadsTyped DEF ReadingsOf
  <2> QED BY <2>1 DEF ReadingSets
<1>4. PICK r : r \in Readings(s)
  BY DEF WellFormed
<1>5. Readings(s) = {r} /\ Meaning(s) = r
  <2>1. ASSUME NEW q \in Readings(s) PROVE q = r
    <3>1. \A on \in Combinations : (on \in q) = (on \in r)
      BY <1>2, <1>4, Zenon
    <3>2. \A on \in Combinations : on \in q <=> on \in r
      BY <3>1
    <3>3. q \subseteq Combinations /\ r \subseteq Combinations
      BY <1>3, <1>4
    <3> QED BY <3>2, <3>3, Zenon
  <2>2. Readings(s) = {r}
    BY <1>4, <2>1
  <2> QED BY <2>2 DEF Meaning
<1>6. Defined(c)
  <2>1. {} \in Combinations
    BY DEF Combinations
  <2> QED BY <1>2, <1>4, <2>1 DEF Defined
<1>7. ASSUME NEW on \in Combinations
      PROVE  LookUp(MakeTable(c), on) <=> on \subseteq 0 .. h /\ on \in r
  <2>1. /\ MakeTable(c).nsignal = h + 1
        /\ MakeTable(c).lut = {o \in SUBSET (0 .. h) : Calc(c, o).value}
    BY <1>2, <1>4 DEF MakeTable
  <2>2. (h + 1) - 1 = h
    BY <1>1
  <2>3. LookUp(MakeTable(c), on) <=> on \subseteq 0 .. h /\ on \in {o \in SUBSET (0 .. h) : Calc(c, o).value}
    BY <2>1, <2>2, Zenon DEF LookUp
  <2>4. Calc(c, on).value = (on \in r)
    BY <1>2, <1>4
  <2> QED BY <2>3, <2>4, Zenon
<1> QED BY <1>2, <1>4, <1>5, <1>6, <1>7, Zenon DEF formula, c

(* What the parser accepts beyond the grammar ends in an operator (infixtorpn::AstNode, AstOr). *)
THEOREM AcceptedIsWellFormed ==
  ASSUME NEW s \in Seq(Tokens), InfixToRPN(s).status = "node"
  PROVE  WellFormed(s) \/ (s # <<>> /\ Last(s).kind \in {"&", "|", "!"})
<1> DEFINE c == Call("or", Null(s))
           r == Parse[c]
<1>1. Null(s) \in Results /\ Null(s).rest = s
  BY ResultTypes
<1>2. c \in Calls /\ c.rule = "or" /\ c.left = Null(s)
  BY <1>1 DEF Call, Calls
<1>3. r.status = "node" /\ r.rest = <<>>
  <2>1. InfixToRPN(s) = IF r.rest # <<>> THEN Thrown ELSE r
    BY Zenon DEF InfixToRPN
  <2>2. Thrown.status # "node"
    BY DEF Thrown
  <2> HIDE DEF r
  <2> QED BY <2>1, <2>2
<1> HIDE DEF c
<1>4. Parsed("or", s, r)
  <2>1. r \in Outcomes(c)
    BY <1>2, ParseSound
  <2> HIDE DEF r
  <2> QED BY <1>1, <1>2, <2>1 DEF Outcomes
<1> HIDE DEF r
<1>5. PICK u \in Seq(Tokens) : s = u \o <<>> /\ (Is("or", u) \/ Broken(u))
  BY <1>3, <1>4 DEF Parsed
<1>6. s = u
  BY <1>5, Cats, Zenon
<1>7. Is("or", s) => WellFormed(s)
  BY ReadsIsReadings DEF Is, Sum, WellFormed
<1> QED BY <1>5, <1>6, <1>7 DEF Broken, Ops

=============================================================================
