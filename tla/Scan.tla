-------------------------------- MODULE Scan --------------------------------
(***************************************************************************)
(* Reading a sequence from its first element to its last: what a loop over *)
(* bytes, characters, lines or frames makes of what it had before, one     *)
(* Step at a time.  A module that has such a loop instantiates this one    *)
(* with its own step, and so gets the facts below about it.                *)
(***************************************************************************)
EXTENDS Integers, Sequences, WellFoundedInduction, TLAPS

CONSTANT Step(_, _)

After(init, s) ==
  LET At[n \in 0 .. Len(s)] == IF n = 0 THEN init ELSE Step(At[n - 1], s[n])
  IN  At[Len(s)]

-----------------------------------------------------------------------------
(* Numbers by induction: a set of them.                                    *)
LEMMA Counting == ASSUME NEW P, 0 \in P, \A n \in Nat : n \in P => n + 1 \in P PROVE Nat \subseteq P
<1> DEFINE R == {ss \in Nat \X Nat : ss[1] < ss[2]}
           S == Nat \ P
<1>1. IsWellFoundedOn(R, Nat)
  BY NatLessThanWellFounded, Zenon DEF OpToRel
<1>2. ASSUME S # {} PROVE FALSE
  <2>1. \E i \in S : \A j \in S : ~(<<j, i>> \in R)
    <3>1. S \subseteq Nat
      OBVIOUS
    <3> HIDE DEF R, S
    <3> QED BY <1>1, <1>2, <3>1, WFMin
  <2>2. PICK i \in S : \A j \in S : ~(<<j, i>> \in R)
    BY <2>1
  <2>3. i \in Nat /\ i # 0
    OBVIOUS
  <2>4. i - 1 \in Nat /\ <<i - 1, i>> \in R
    BY <2>3
  <2>5. i - 1 \in P
    BY <2>2, <2>4
  <2>6. (i - 1) + 1 = i
    BY <2>3
  <2> QED BY <2>4, <2>5, <2>6
<1> QED BY <1>2

(* What a sequence is read to, place by place.                             *)
Reads(f, init, s, n) ==
  /\ f = [i \in 0 .. n |-> f[i]] /\ f[0] = init
  /\ \A i \in 1 .. n : f[i] = Step(f[i - 1], s[i])

LEMMA ReadingExists == ASSUME NEW init, NEW s, NEW n \in Nat PROVE \E f : Reads(f, init, s, n)
<1> DEFINE P == {k \in Nat : \E f : Reads(f, init, s, k)}
<1>1. 0 \in P
  <2> DEFINE f == [i \in 0 .. 0 |-> init]
  <2>1. Reads(f, init, s, 0)
    BY DEF Reads
  <2> QED BY <2>1
<1>2. ASSUME NEW k \in Nat, k \in P PROVE k + 1 \in P
  <2>1. PICK f : Reads(f, init, s, k)
    BY <1>2
  <2> DEFINE x == Step(f[k], s[k + 1])
             g == [i \in 0 .. k + 1 |-> IF i = k + 1 THEN x ELSE f[i]]
  <2>2. g[k + 1] = x /\ \A i \in 0 .. k : g[i] = f[i]
    <3> HIDE DEF x
    <3> QED OBVIOUS
  <2>3. g = [i \in 0 .. k + 1 |-> g[i]] /\ g[0] = init
    BY <2>1, <2>2 DEF Reads
  <2> HIDE DEF g
  <2>4. ASSUME NEW i \in 1 .. k + 1 PROVE g[i] = Step(g[i - 1], s[i])
    <3>1. i - 1 \in 0 .. k /\ g[i - 1] = f[i - 1]
      BY <2>2
    <3>2. CASE i = k + 1
      <4>1. i - 1 = k
        BY <3>2
      <4> QED BY <2>2, <3>1, <3>2, <4>1
    <3>3. CASE i # k + 1
      <4>1. i \in 1 .. k /\ i \in 0 .. k
        BY <3>3
      <4> QED BY <2>1, <2>2, <3>1, <4>1 DEF Reads
    <3> QED BY <3>2, <3>3
  <2>5. Reads(g, init, s, k + 1)
    BY <2>3, <2>4 DEF Reads
  <2> QED BY <2>5
<1> HIDE DEF P
<1>3. Nat \subseteq P
  BY <1>1, <1>2, Counting
<1> QED BY <1>3 DEF P

(* Two readings of what begins alike agree as far as that goes.            *)
LEMMA ReadingsAgree ==
  ASSUME NEW init, NEW s, NEW t, NEW n \in Nat, NEW f, NEW g, NEW m \in Nat, NEW k \in Nat,
         Reads(f, init, s, m), Reads(g, init, t, k), n <= m, n <= k, \A i \in 1 .. n : s[i] = t[i]
  PROVE  f[n] = g[n]
<1> DEFINE P == {i \in Nat : i <= n => f[i] = g[i]}
<1>1. 0 \in P
  BY DEF Reads
<1>2. ASSUME NEW i \in Nat, i \in P PROVE i + 1 \in P
  <2>1. CASE i + 1 <= n
    <3>1. i + 1 \in 1 .. m /\ i + 1 \in 1 .. k /\ i + 1 \in 1 .. n /\ (i + 1) - 1 = i /\ f[i] = g[i]
      BY <1>2, <2>1
    <3>2. f[i + 1] = Step(f[i], s[i + 1]) /\ g[i + 1] = Step(g[i], t[i + 1]) /\ s[i + 1] = t[i + 1]
      BY <3>1 DEF Reads
    <3> QED BY <3>1, <3>2
  <2>2. CASE ~(i + 1 <= n)
    BY <2>2
  <2> QED BY <2>1, <2>2
<1> HIDE DEF P
<1>3. Nat \subseteq P
  BY <1>1, <1>2, Counting
<1> QED BY <1>3 DEF P

(* After is what its reading ends with.                                    *)
LEMMA AfterReads ==
  ASSUME NEW init, NEW s, Len(s) \in Nat
  PROVE  \E f : Reads(f, init, s, Len(s)) /\ After(init, s) = f[Len(s)]
<1> DEFINE Next(f) == [n \in 0 .. Len(s) |-> IF n = 0 THEN init ELSE Step(f[n - 1], s[n])]
           g == CHOOSE f : f = Next(f)
<1>1. After(init, s) = g[Len(s)]
  BY DEF After
<1>2. \E f : f = Next(f)
  <2>1. PICK f : Reads(f, init, s, Len(s))
    BY ReadingExists
  <2>2. f = [i \in 0 .. Len(s) |-> f[i]] /\ \A i \in 0 .. Len(s) : i = 0 \/ i \in 1 .. Len(s)
    BY <2>1 DEF Reads
  <2>3. \A i \in 0 .. Len(s) : f[i] = IF i = 0 THEN init ELSE Step(f[i - 1], s[i])
    BY <2>1, <2>2 DEF Reads
  <2>4. f = Next(f)
    BY <2>2, <2>3, Zenon
  <2> QED BY <2>4
<1>3. g = Next(g)
  <2> HIDE DEF Next
  <2> QED BY <1>2
<1> HIDE DEF g
<1>4. Reads(g, init, s, Len(s))
  <2> DEFINE h == Next(g)
  <2>1. h = [i \in 0 .. Len(s) |-> h[i]] /\ h[0] = init
    OBVIOUS
  <2>2. \A i \in 1 .. Len(s) : h[i] = Step(g[i - 1], s[i])
    OBVIOUS
  <2> HIDE DEF h
  <2>3. h = g
    BY <1>3 DEF h
  <2> QED BY <2>1, <2>2, <2>3 DEF Reads
<1> QED BY <1>1, <1>4

(* Nothing read changes nothing.                                           *)
THEOREM AfterNone == ASSUME NEW init PROVE After(init, <<>>) = init
<1>1. Len(<<>>) = 0
  OBVIOUS
<1>2. PICK f : Reads(f, init, <<>>, Len(<<>>)) /\ After(init, <<>>) = f[Len(<<>>)]
  BY <1>1, AfterReads
<1> QED BY <1>1, <1>2 DEF Reads

(* One more element is one more step.                                      *)
THEOREM AfterMore ==
  ASSUME NEW init, NEW S, NEW s \in Seq(S), NEW x \in S
  PROVE  After(init, Append(s, x)) = Step(After(init, s), x)
<1> DEFINE t == Append(s, x)
           n == Len(s)
<1>1. n \in Nat /\ Len(t) = n + 1 /\ t[n + 1] = x /\ \A i \in 1 .. n : s[i] = t[i]
  OBVIOUS
<1>2. PICK f : Reads(f, init, s, n) /\ After(init, s) = f[n]
  BY <1>1, AfterReads
<1> HIDE DEF t
<1>3. PICK g : Reads(g, init, t, n + 1) /\ After(init, t) = g[n + 1]
  <2>1. Len(t) \in Nat
    BY <1>1
  <2>2. PICK g : Reads(g, init, t, Len(t)) /\ After(init, t) = g[Len(t)]
    BY <2>1, AfterReads
  <2> QED BY <1>1, <2>2
<1> HIDE DEF n
<1>4. f[n] = g[n]
  <2>1. n \in Nat /\ n + 1 \in Nat /\ n <= n /\ n <= n + 1
    BY <1>1
  <2>2. \A i \in 1 .. n : s[i] = t[i]
    BY <1>1
  <2>3. Reads(f, init, s, n) /\ Reads(g, init, t, n + 1)
    BY <1>2, <1>3
  <2> QED BY ONLY <2>1, <2>2, <2>3, ReadingsAgree
<1>5. g[n + 1] = Step(g[(n + 1) - 1], t[n + 1]) /\ (n + 1) - 1 = n
  <2>1. n + 1 \in 1 .. n + 1
    BY <1>1
  <2>2. g[n + 1] = Step(g[(n + 1) - 1], t[n + 1])
    BY <1>3, <2>1 DEF Reads
  <2> QED BY <1>1, <2>2
<1> QED BY <1>1, <1>2, <1>3, <1>4, <1>5 DEF t

(* Sequences by induction: a set of them.                                  *)
THEOREM Lengthening ==
  ASSUME NEW S, NEW P, <<>> \in P, \A s \in Seq(S), x \in S : s \in P => Append(s, x) \in P
  PROVE  Seq(S) \subseteq P
<1> DEFINE Q == {n \in Nat : \A s \in Seq(S) : Len(s) = n => s \in P}
<1>1. 0 \in Q
  OBVIOUS
<1>2. ASSUME NEW n \in Nat, n \in Q PROVE n + 1 \in Q
  <2>1. ASSUME NEW s \in Seq(S), Len(s) = n + 1 PROVE s \in P
    <3> DEFINE a == SubSeq(s, 1, n)
    <3>1. n + 1 \in 1 .. Len(s) /\ s # <<>>
      BY <2>1
    <3>2. s[n + 1] \in S
      BY <3>1
    <3>3. a \in Seq(S) /\ Len(a) = n /\ s = Append(a, s[n + 1])
      <4>1. \A i \in 1 .. n : s[i] \in S
        BY <2>1
      <4>2. a \in Seq(S) /\ Len(a) = n /\ \A i \in 1 .. n : a[i] = s[i]
        BY <2>1, <4>1
      <4> HIDE DEF a
      <4> DEFINE b == Append(a, s[n + 1])
      <4>3. b \in Seq(S) /\ Len(b) = n + 1 /\ b[n + 1] = s[n + 1] /\ \A i \in 1 .. n : b[i] = s[i]
        BY <3>2, <4>2
      <4> HIDE DEF b
      <4>4. \A i \in 1 .. Len(s) : i \in 1 .. n \/ i = n + 1
        BY <2>1
      <4>5. s = b
        BY <2>1, <4>3, <4>4
      <4> QED BY <4>2, <4>5 DEF b
    <3> HIDE DEF a
    <3>4. a \in P
      BY <1>2, <3>3
    <3> QED BY <3>2, <3>3, <3>4
  <2> QED BY <2>1
<1> HIDE DEF Q
<1>3. Nat \subseteq Q
  BY <1>1, <1>2, Counting
<1>4. ASSUME NEW s \in Seq(S) PROVE s \in P
  BY <1>3 DEF Q
<1> QED BY <1>4

(* What is read in two parts is read on from what the first part left.     *)
THEOREM AfterJoined ==
  ASSUME NEW init, NEW S, NEW s \in Seq(S), NEW t \in Seq(S)
  PROVE  After(init, s \o t) = After(After(init, s), t)
<1> DEFINE P == {u \in Seq(S) : After(init, s \o u) = After(After(init, s), u)}
<1>1. <<>> \in P
  <2>1. s \o <<>> = s /\ <<>> \in Seq(S)
    OBVIOUS
  <2> QED BY <2>1, AfterNone
<1>2. ASSUME NEW u \in Seq(S), NEW x \in S, u \in P PROVE Append(u, x) \in P
  <2>1. s \o Append(u, x) = Append(s \o u, x) /\ s \o u \in Seq(S) /\ Append(u, x) \in Seq(S)
    OBVIOUS
  <2>2. After(init, Append(s \o u, x)) = Step(After(init, s \o u), x)
    BY <2>1, AfterMore
  <2>3. After(After(init, s), Append(u, x)) = Step(After(After(init, s), u), x)
    BY AfterMore
  <2> QED BY <1>2, <2>1, <2>2, <2>3
<1> HIDE DEF P
<1>3. Seq(S) \subseteq P
  BY <1>1, <1>2, Lengthening
<1> QED BY <1>3 DEF P

(* What every step keeps is kept.                                          *)
THEOREM AfterKeeps ==
  ASSUME NEW A, NEW S, NEW init \in A, NEW s \in Seq(S), \A a \in A, x \in S : Step(a, x) \in A
  PROVE  After(init, s) \in A
<1> DEFINE P == {u \in Seq(S) : After(init, u) \in A}
<1>1. <<>> \in P
  BY AfterNone
<1>2. ASSUME NEW u \in Seq(S), NEW x \in S, u \in P PROVE Append(u, x) \in P
  <2>1. After(init, Append(u, x)) = Step(After(init, u), x) /\ Append(u, x) \in Seq(S)
    BY AfterMore
  <2> QED BY <1>2, <2>1
<1> HIDE DEF P
<1>3. Seq(S) \subseteq P
  BY <1>1, <1>2, Lengthening
<1> QED BY <1>3 DEF P
=============================================================================
