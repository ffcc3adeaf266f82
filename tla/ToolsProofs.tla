----------------------------- MODULE ToolsProofs -----------------------------
(***************************************************************************)
(* What the tools send: proofs about Upload (the first half) and about     *)
(* WriteTools (the second).  The two models share no state; every name of  *)
(* Upload's carries its prefix.                                            *)
(*                                                                         *)
(* Uploads.  A path is walked and decoded by recursion on its length, and  *)
(* each such fact is proved from the least length that would break it.     *)
(* They end in UnderIsBelow: what the comparison of addresses lets through *)
(* lies below an allowed entry however a server reads the path.  UploadInv *)
(* carries that, and what a file passed, along the steps of a call.        *)
(*                                                                         *)
(* Updates.  WriteInv relates what a caller saw, what the tool read again  *)
(* and what the books hold: equal versions mean equal records.  Lemmas on  *)
(* the bodies say what a replacement keeps and that the service takes it.  *)
(***************************************************************************)
EXTENDS WriteTools, Upload, FiniteSetTheorems, SequenceTheorems, WellFoundedInduction, TLAPS

(* ------------------------------- Uploads ------------------------------- *)

LEMMA LeastNumber == ASSUME NEW T \in SUBSET Nat, T # {} PROVE \E m \in T : \A n \in T : ~(n < m)
<1> DEFINE R == OpToRel(<, Nat)
<1>1. IsWellFoundedOn(R, Nat)  BY NatLessThanWellFounded
<1>2. R = {p \in Nat \X Nat : p[1] < p[2]}  BY DEF OpToRel
<1> HIDE DEF R
<1>3. PICK m \in T : \A n \in T : ~(<<n, m>> \in R)  BY <1>1, WFMin
<1>4. \A a, b \in Nat : a < b => <<a, b>> \in R  BY <1>2
<1> QED BY <1>3, <1>4

LEMMA Counting ==
  ASSUME NEW S, 0 \in S, \A n \in Nat : n \in S => n + 1 \in S
  PROVE  \A n \in Nat : n \in S
<1> DEFINE T == Nat \ S
<1> SUFFICES ASSUME T # {} PROVE FALSE OBVIOUS
<1>1. PICK m \in T : \A n \in T : ~(n < m)  BY LeastNumber
<1>2. m # 0 /\ m - 1 \in Nat /\ m - 1 < m  BY <1>1
<1>3. m - 1 \in S  BY <1>1, <1>2
<1> QED BY <1>1, <1>2, <1>3

\* The recursive functions inside FlattenSeq and ReadAs, n elements on.
Joint(s, t) == s \o t
Joined(seqs, f, n) ==
    f = [i \in 1..n |-> IF i = 1 THEN seqs[i] ELSE Joint(f[i - 1], seqs[i])]
Walked(path, f, n) ==
    f = [i \in 0..n |-> IF i = 0 THEN << >> ELSE Climb(f[i - 1], path[i])]

LEMMA JoinedExists ==
  ASSUME NEW seqs, NEW n \in Nat PROVE \E f : Joined(seqs, f, n)
<1> DEFINE S == {k \in Nat : \E f : Joined(seqs, f, k)}
<1>1. 0 \in S
  <2>1. Joined(seqs, << >>, 0)  BY DEF Joined
  <2> QED BY <2>1
<1>2. ASSUME NEW k \in Nat, k \in S PROVE k + 1 \in S
  <2>1. PICK f : Joined(seqs, f, k)  BY <1>2
  <2> DEFINE g == [i \in 1..(k + 1) |-> IF i = 1 THEN seqs[i] ELSE Joint(f[i - 1], seqs[i])]
  <2>2. \A i \in 1..k : g[i] = f[i]  BY <2>1 DEF Joined
  <2>3. \A i \in 1..(k + 1) : i # 1 => g[i - 1] = f[i - 1]
    <3>1. \A i \in 1..(k + 1) : i # 1 => i - 1 \in 1..k  OBVIOUS
    <3> QED BY <2>2, <3>1
  <2>4. g = [i \in 1..(k + 1) |-> IF i = 1 THEN seqs[i] ELSE Joint(g[i - 1], seqs[i])]
    BY <2>3
  <2>5. Joined(seqs, g, k + 1)  BY <2>4 DEF Joined
  <2> QED BY <2>5
<1> HIDE DEF S
<1>3. n \in S  BY <1>1, <1>2, Counting
<1> QED BY <1>3 DEF S

LEMMA WalkedExists ==
  ASSUME NEW path, NEW n \in Nat PROVE \E f : Walked(path, f, n)
<1> DEFINE S == {k \in Nat : \E f : Walked(path, f, k)}
<1>1. 0 \in S
  <2>1. Walked(path, [i \in 0..0 |-> << >>], 0)  BY DEF Walked
  <2> QED BY <2>1
<1>2. ASSUME NEW k \in Nat, k \in S PROVE k + 1 \in S
  <2>1. PICK f : Walked(path, f, k)  BY <1>2
  <2> DEFINE g == [i \in 0..(k + 1) |-> IF i = 0 THEN << >> ELSE Climb(f[i - 1], path[i])]
  <2>2. \A i \in 0..k : g[i] = f[i]  BY <2>1 DEF Walked
  <2>3. \A i \in 0..(k + 1) : i # 0 => g[i - 1] = f[i - 1]
    <3>1. \A i \in 0..(k + 1) : i # 0 => i - 1 \in 0..k  OBVIOUS
    <3> QED BY <2>2, <3>1
  <2>4. g = [i \in 0..(k + 1) |-> IF i = 0 THEN << >> ELSE Climb(g[i - 1], path[i])]
    BY <2>3
  <2>5. Walked(path, g, k + 1)  BY <2>4 DEF Walked
  <2> QED BY <2>5
<1> HIDE DEF S
<1>3. n \in S  BY <1>1, <1>2, Counting
<1> QED BY <1>3 DEF S

Appended(p, x, q) ==
    /\ Len(p) \in Nat /\ Len(q) = Len(p) + 1 /\ q[Len(p) + 1] = x
    /\ \A i \in 1..Len(p) : p[i] = q[i]

LEMMA AppendItems ==
  ASSUME NEW T, NEW p \in Seq(T), NEW x \in T
  PROVE  Append(p, x) \in Seq(T) /\ Appended(p, x, Append(p, x))
  BY AppendProperties DEF Appended

LEMMA Single == ASSUME NEW T, NEW x \in T PROVE <<x>> \in Seq(T)
  OBVIOUS

LEMMA FrontItems ==
  ASSUME NEW T, NEW q \in Seq(T), q # << >>
  PROVE  Front(q) \in Seq(T) /\ Last(q) \in T /\ Appended(Front(q), Last(q), q)
<1> DEFINE n == Len(q) - 1
           p == SubSeq(q, 1, n)
<1>1. n \in Nat /\ Len(q) = n + 1 /\ n + 1 \in 1..Len(q)
  <2>1. Len(q) \in Nat \ {0}  BY EmptySeq
  <2> QED BY <2>1
<1>2. \A i \in 1..(n + 1) : q[i] \in T
  BY <1>1, ElementOfSeq
<1>3. p \in Seq(T) /\ Len(p) = n /\ \A i \in 1..n : p[i] = q[i]
  <2> HIDE DEF n
  <2>1. \A i \in 1..n : q[i] \in T  BY <1>1, <1>2
  <2>2. /\ p \in Seq(T) /\ Len(p) = IF 1 <= n THEN n - 1 + 1 ELSE 0
        /\ \A i \in 1..(n - 1 + 1) : p[i] = q[1 + i - 1]
    BY <1>1, <2>1, SubSeqProperties
  <2>3. Len(p) = n  BY <1>1, <2>2
  <2>4. \A i \in 1..n : i \in 1..(n - 1 + 1) /\ 1 + i - 1 = i  BY <1>1
  <2> QED BY <2>2, <2>3, <2>4
<1>4. Front(q) = p /\ Last(q) = q[n + 1]
  BY <1>1 DEF Front, Last
<1> HIDE DEF n, p
<1>5. Last(q) \in T  BY <1>1, <1>2, <1>4
<1>6. Appended(p, Last(q), q)  BY <1>1, <1>3, <1>4 DEF Appended
<1> QED BY <1>3, <1>4, <1>5, <1>6

LEMMA PrefixItems ==
  ASSUME NEW S, NEW T, NEW s \in Seq(S), NEW t \in Seq(T)
  PROVE  IsPrefix(s, t) <=> (Len(s) <= Len(t) /\ \A i \in 1..Len(s) : s[i] = t[i])
<1>1. CASE ~(Len(s) <= Len(t))
  BY <1>1 DEF IsPrefix
<1>2. CASE Len(s) <= Len(t)
  <2> DEFINE x == SubSeq(s, 1, Len(s))
             y == SubSeq(t, 1, Len(s))
  <2>1. /\ x \in Seq(S) /\ Len(x) = Len(s) /\ \A i \in 1..Len(s) : x[i] = s[i]
    BY SubSeqProperties
  <2>2. /\ y \in Seq(T) /\ Len(y) = Len(s) /\ \A i \in 1..Len(s) : y[i] = t[i]
    BY <1>2, SubSeqProperties
  <2> HIDE DEF x, y
  <2>3. x = y <=> \A i \in 1..Len(s) : x[i] = y[i]
    BY <2>1, <2>2, SeqEqual
  <2>4. IsPrefix(s, t) <=> x = y
    BY <1>2 DEF IsPrefix, x, y
  <2> QED BY <1>2, <2>1, <2>2, <2>3, <2>4
<1> QED BY <1>1, <1>2

Alike(p, q, n) == \A i \in 1..n : p[i] = q[i]

LEMMA JoinedStep ==
  ASSUME NEW seqs, NEW f, NEW n \in Nat, Joined(seqs, f, n), NEW i \in 1..n
  PROVE  f[i] = IF i = 1 THEN seqs[i] ELSE Joint(f[i - 1], seqs[i])
  BY DEF Joined

LEMMA WalkedStep ==
  ASSUME NEW path, NEW f, NEW n \in Nat, Walked(path, f, n), NEW i \in 1..n
  PROVE  f[i] = Climb(f[i - 1], path[i])
  BY DEF Walked

\* What two sequences have in common is joined, and walked, alike.
LEMMA JoinedAlike ==
  ASSUME NEW p, NEW q, NEW f, NEW g, NEW n \in Nat, NEW m \in Nat,
         Joined(p, f, n), Joined(q, g, m), n <= m, Alike(p, q, n)
  PROVE  Alike(f, g, n)
<1> DEFINE S == {j \in Nat : j \in 1..n => f[j] = g[j]}
<1>1. 0 \in S  OBVIOUS
<1>2. ASSUME NEW j \in Nat, j \in S PROVE j + 1 \in S
  <2> SUFFICES ASSUME j + 1 \in 1..n PROVE f[j + 1] = g[j + 1]  OBVIOUS
  <2>1. f[j + 1] = IF j = 0 THEN p[j + 1] ELSE Joint(f[j], p[j + 1])
    BY DEF Joined
  <2>2. g[j + 1] = IF j = 0 THEN q[j + 1] ELSE Joint(g[j], q[j + 1])
    BY DEF Joined
  <2>3. p[j + 1] = q[j + 1]  BY DEF Alike
  <2>4. j # 0 => f[j] = g[j]  BY <1>2
  <2> QED BY <2>1, <2>2, <2>3, <2>4
<1> HIDE DEF S
<1>3. \A j \in Nat : j \in S  BY <1>1, <1>2, Counting
<1> QED BY <1>3 DEF S, Alike

LEMMA WalkedAlike ==
  ASSUME NEW p, NEW q, NEW f, NEW g, NEW n \in Nat, NEW m \in Nat,
         Walked(p, f, n), Walked(q, g, m), n <= m, \A i \in 1..n : p[i] = q[i]
  PROVE  \A i \in 0..n : f[i] = g[i]
<1> DEFINE S == {j \in Nat : j \in 0..n => f[j] = g[j]}
<1>1. 0 \in S
  BY DEF Walked
<1>2. ASSUME NEW j \in Nat, j \in S PROVE j + 1 \in S
  <2> SUFFICES ASSUME j + 1 \in 0..n PROVE f[j + 1] = g[j + 1]  OBVIOUS
  <2>a. j + 1 \in 1..n /\ j + 1 \in 1..m /\ (j + 1) - 1 = j  OBVIOUS
  <2>1. f[j + 1] = Climb(f[j], p[j + 1])
    BY <2>a, WalkedStep
  <2>2. g[j + 1] = Climb(g[j], q[j + 1])
    BY <2>a, WalkedStep
  <2>3. p[j + 1] = q[j + 1]  OBVIOUS
  <2>4. f[j] = g[j]  BY <1>2
  <2> QED BY <2>1, <2>2, <2>3, <2>4
<1> HIDE DEF S
<1>3. \A j \in Nat : j \in S  BY <1>1, <1>2, Counting
<1> QED BY <1>3 DEF S

\* FlattenSeq and Walk, by the functions inside them.
LEMMA FlattenIs ==
  ASSUME NEW seqs, Len(seqs) \in Nat \ {0}
  PROVE  \E f : Joined(seqs, f, Len(seqs)) /\ FlattenSeq(seqs) = f[Len(seqs)]
<1> DEFINE f == CHOOSE g : Joined(seqs, g, Len(seqs))
<1>1. Joined(seqs, f, Len(seqs))
  BY JoinedExists
<1>2. FlattenSeq(seqs) = f[Len(seqs)]
  BY DEF FlattenSeq, Joined, Joint
<1> QED BY <1>1, <1>2

LEMMA WalkIs ==
  ASSUME NEW path, Len(path) \in Nat
  PROVE  \E f : Walked(path, f, Len(path)) /\ Walk(path) = f[Len(path)]
<1> DEFINE f == CHOOSE g : Walked(path, g, Len(path))
<1>1. Walked(path, f, Len(path))
  BY WalkedExists
<1>2. Walk(path) = f[Len(path)]
  BY DEF Walk, Walked
<1> QED BY <1>1, <1>2

LEMMA JoinedTyped ==
  ASSUME NEW T, NEW p \in Seq(Seq(T)), NEW f, Joined(p, f, Len(p))
  PROVE  \A i \in 1..Len(p) : f[i] \in Seq(T)
<1> DEFINE S == {j \in Nat : j \in 1..Len(p) => f[j] \in Seq(T)}
<1>1. 0 \in S  OBVIOUS
<1>2. ASSUME NEW j \in Nat, j \in S PROVE j + 1 \in S
  <2> SUFFICES ASSUME j + 1 \in 1..Len(p) PROVE f[j + 1] \in Seq(T)  OBVIOUS
  <2>1. f[j + 1] = IF j = 0 THEN p[j + 1] ELSE Joint(f[j], p[j + 1])
    BY DEF Joined
  <2>2. p[j + 1] \in Seq(T)  OBVIOUS
  <2>3. j # 0 => f[j] \in Seq(T)  BY <1>2
  <2>4. j # 0 => Joint(f[j], p[j + 1]) \in Seq(T)
    BY <2>2, <2>3 DEF Joint
  <2> QED BY <2>1, <2>2, <2>4
<1> HIDE DEF S
<1>3. \A j \in Nat : j \in S  BY <1>1, <1>2, Counting
<1> QED BY <1>3 DEF S

LEMMA WalkedTyped ==
  ASSUME NEW T, NEW p \in Seq(T), NEW f, Walked(p, f, Len(p)),
         \A i \in 1..Len(p) : p[i] # ".."
  PROVE  \A i \in 0..Len(p) : f[i] \in Seq(T)
<1> DEFINE S == {j \in Nat : j \in 0..Len(p) => f[j] \in Seq(T)}
<1>1. 0 \in S
  <2>1. f[0] = << >>  BY DEF Walked
  <2>2. f[0] \in Seq(T)  BY <2>1, EmptySeq
  <2> QED BY <2>2
<1>2. ASSUME NEW j \in Nat, j \in S PROVE j + 1 \in S
  <2> SUFFICES ASSUME j + 1 \in 0..Len(p) PROVE f[j + 1] \in Seq(T)  OBVIOUS
  <2>1. f[j + 1] = Climb(f[j], p[j + 1])
    BY DEF Walked
  <2>2. p[j + 1] \in T /\ p[j + 1] # ".."  OBVIOUS
  <2>3. f[j] \in Seq(T)  BY <1>2
  <2>4. f[j + 1] = f[j] \/ f[j + 1] = Append(f[j], p[j + 1])
    BY <2>1, <2>2 DEF Climb
  <2>5. Append(f[j], p[j + 1]) \in Seq(T)
    BY <2>2, <2>3
  <2> QED BY <2>3, <2>4, <2>5
<1> HIDE DEF S
<1>3. \A j \in Nat : j \in S  BY <1>1, <1>2, Counting
<1> QED BY <1>3 DEF S

LEMMA PrefixTransitive ==
  ASSUME NEW T, NEW s \in Seq(T), NEW t \in Seq(T), NEW u \in Seq(T),
         IsPrefix(s, t), IsPrefix(t, u)
  PROVE  IsPrefix(s, u)
<1>1. Len(s) \in Nat /\ Len(t) \in Nat /\ Len(u) \in Nat  OBVIOUS
<1>2. Len(s) <= Len(t) /\ \A i \in 1..Len(s) : s[i] = t[i]
  BY PrefixItems
<1>3. Len(t) <= Len(u) /\ \A i \in 1..Len(t) : t[i] = u[i]
  BY PrefixItems
<1>4. Len(s) <= Len(u)  BY <1>1, <1>2, <1>3
<1>5. ASSUME NEW i \in 1..Len(s) PROVE s[i] = u[i]
  <2>1. i \in 1..Len(t)  BY <1>1, <1>2
  <2> QED BY <1>2, <1>3, <2>1
<1> QED BY <1>4, <1>5, PrefixItems

LEMMA PrefixOfConcat ==
  ASSUME NEW T, NEW s \in Seq(T), NEW t \in Seq(T)
  PROVE  IsPrefix(s, s \o t)
<1>1. s \o t \in Seq(T) /\ Len(s) <= Len(s \o t)
  OBVIOUS
<1>2. \A i \in 1..Len(s) : s[i] = (s \o t)[i]
  OBVIOUS
<1> QED BY <1>1, <1>2, PrefixItems

\* Joining more, or walking on without a step up, never takes anything back.
LEMMA JoinedGrows ==
  ASSUME NEW T, NEW p \in Seq(Seq(T)), NEW f, Joined(p, f, Len(p)), NEW k \in 1..Len(p)
  PROVE  IsPrefix(f[k], f[Len(p)])
<1> DEFINE S == {j \in Nat : j \in k..Len(p) => IsPrefix(f[k], f[j])}
<1>0. \A i \in 1..Len(p) : f[i] \in Seq(T)
  BY JoinedTyped
<1>1. 0 \in S  OBVIOUS
<1>2. ASSUME NEW j \in Nat, j \in S PROVE j + 1 \in S
  <2> SUFFICES ASSUME j + 1 \in k..Len(p) PROVE IsPrefix(f[k], f[j + 1])  OBVIOUS
  <2>1. CASE j + 1 = k
    BY <2>1, <1>0, PrefixItems
  <2>2. CASE j + 1 # k
    <3>1. j \in k..Len(p) /\ j \in 1..Len(p) /\ j + 1 \in 1..Len(p)  BY <2>2
    <3>a. f[j + 1] = Joint(f[j], p[j + 1])
      BY <3>1 DEF Joined
    <3>2. f[j + 1] = f[j] \o p[j + 1]
      BY <3>a DEF Joint
    <3>3. f[k] \in Seq(T) /\ f[j] \in Seq(T) /\ p[j + 1] \in Seq(T) /\ f[j + 1] \in Seq(T)
      BY <3>1, <1>0
    <3>4. IsPrefix(f[k], f[j])  BY <1>2, <3>1
    <3>5. IsPrefix(f[j], f[j + 1])  BY <3>2, <3>3, PrefixOfConcat
    <3> QED BY <3>3, <3>4, <3>5, PrefixTransitive
  <2> QED BY <2>1, <2>2
<1> HIDE DEF S
<1>3. \A j \in Nat : j \in S  BY <1>1, <1>2, Counting
<1>4. Len(p) \in Nat /\ Len(p) \in k..Len(p)  OBVIOUS
<1> QED BY <1>3, <1>4 DEF S

LEMMA WalkedGrows ==
  ASSUME NEW T, NEW p \in Seq(T), NEW f, Walked(p, f, Len(p)),
         \A i \in 1..Len(p) : p[i] # "..", NEW k \in 0..Len(p)
  PROVE  IsPrefix(f[k], f[Len(p)])
<1> DEFINE S == {j \in Nat : j \in k..Len(p) => IsPrefix(f[k], f[j])}
<1>0. \A i \in 0..Len(p) : f[i] \in Seq(T)
  BY WalkedTyped
<1>1. 0 \in S
  BY <1>0, PrefixItems
<1>2. ASSUME NEW j \in Nat, j \in S PROVE j + 1 \in S
  <2> SUFFICES ASSUME j + 1 \in k..Len(p) PROVE IsPrefix(f[k], f[j + 1])  OBVIOUS
  <2>1. CASE j + 1 = k
    BY <2>1, <1>0, PrefixItems
  <2>2. CASE j + 1 # k
    <3>1. j \in k..Len(p) /\ j \in 0..Len(p) /\ j + 1 \in 1..Len(p)  BY <2>2
    <3>2. f[j + 1] = Climb(f[j], p[j + 1])
      BY <3>1 DEF Walked
    <3>3. f[k] \in Seq(T) /\ f[j] \in Seq(T) /\ p[j + 1] \in T /\ f[j + 1] \in Seq(T)
      BY <3>1, <1>0
    <3>4. IsPrefix(f[k], f[j])  BY <1>2, <3>1
    <3>5. f[j + 1] = f[j] \/ f[j + 1] = Append(f[j], p[j + 1])
      BY <3>1, <3>2 DEF Climb
    <3>6. f[j + 1] = f[j] \/ f[j + 1] = f[j] \o <<p[j + 1]>>
      BY <3>3, <3>5, AppendIsConcat
    <3>7. <<p[j + 1]>> \in Seq(T)  BY <3>3
    <3>8. IsPrefix(f[j], f[j] \o <<p[j + 1]>>)
      BY <3>3, <3>7, PrefixOfConcat
    <3> QED BY <3>3, <3>4, <3>6, <3>8, PrefixTransitive
  <2> QED BY <2>1, <2>2
<1> HIDE DEF S
<1>3. \A j \in Nat : j \in S  BY <1>1, <1>2, Counting
<1>4. Len(p) \in Nat /\ Len(p) \in k..Len(p)  OBVIOUS
<1> QED BY <1>3, <1>4 DEF S

LEMMA FlattenTyped ==
  ASSUME NEW T, NEW p \in Seq(Seq(T)) PROVE FlattenSeq(p) \in Seq(T)
<1>1. CASE Len(p) = 0
  <2>1. FlattenSeq(p) = p  BY <1>1 DEF FlattenSeq
  <2>2. p = << >>  BY <1>1
  <2> QED BY <2>1, <2>2, EmptySeq
<1>2. CASE Len(p) # 0
  <2>1. Len(p) \in Nat \ {0} /\ Len(p) \in 1..Len(p)  BY <1>2
  <2>2. PICK f : Joined(p, f, Len(p)) /\ FlattenSeq(p) = f[Len(p)]  BY <2>1, FlattenIs
  <2> QED BY <2>1, <2>2, JoinedTyped
<1> QED BY <1>1, <1>2

LEMMA FlattenPrefix ==
  ASSUME NEW T, NEW p \in Seq(Seq(T)), NEW q \in Seq(Seq(T)), IsPrefix(p, q)
  PROVE  IsPrefix(FlattenSeq(p), FlattenSeq(q))
<1>1. Len(p) \in Nat /\ Len(q) \in Nat /\ Len(p) <= Len(q) /\ \A i \in 1..Len(p) : p[i] = q[i]
  BY PrefixItems
<1>2. CASE Len(p) = 0
  <2>1. FlattenSeq(p) = << >>  BY <1>2 DEF FlattenSeq
  <2>2. << >> \in Seq(T) /\ Len(<< >>) = 0  BY EmptySeq
  <2>3. FlattenSeq(q) \in Seq(T)  BY FlattenTyped
  <2>4. IsPrefix(<< >>, FlattenSeq(q))
    <3> DEFINE t == FlattenSeq(q)
    <3>1. t \in Seq(T) /\ Len(t) \in Nat  BY <2>3
    <3> HIDE DEF t
    <3>2. SubSeq(<< >>, 1, 0) = << >> /\ SubSeq(t, 1, 0) = << >>  BY SubSeqEmpty
    <3>3. IsPrefix(<< >>, t)  BY <2>2, <3>1, <3>2 DEF IsPrefix
    <3> QED BY <3>3 DEF t
  <2> QED BY <2>1, <2>4
<1>3. CASE Len(p) # 0
  <2>1. Len(p) \in Nat \ {0} /\ Len(p) \in 1..Len(p) /\ Len(q) \in Nat \ {0} /\ Len(p) \in 1..Len(q)
    BY <1>1, <1>3
  <2>2. PICK f : Joined(p, f, Len(p)) /\ FlattenSeq(p) = f[Len(p)]  BY <2>1, FlattenIs
  <2>3. PICK g : Joined(q, g, Len(q)) /\ FlattenSeq(q) = g[Len(q)]  BY <2>1, FlattenIs
  <2>a. Joined(p, f, Len(p)) /\ Joined(q, g, Len(q))  BY <2>2, <2>3
  <2>b. Alike(p, q, Len(p))  BY <1>1 DEF Alike
  <2>c. Len(p) \in Nat /\ Len(q) \in Nat /\ Len(p) <= Len(q)  BY <1>1
  <2>d. Alike(f, g, Len(p))  BY <2>c, <2>a, <2>b, JoinedAlike
  <2>4. f[Len(p)] = g[Len(p)]  BY <2>1, <2>d DEF Alike
  <2>5. IsPrefix(g[Len(p)], g[Len(q)])  BY <2>1, <2>3, JoinedGrows
  <2> QED BY <2>2, <2>3, <2>4, <2>5
<1> QED BY <1>2, <1>3

LEMMA FlattenOneMore ==
  ASSUME NEW T, NEW p \in Seq(Seq(T)), NEW x \in Seq(T), NEW q \in Seq(Seq(T)), Appended(p, x, q)
  PROVE  FlattenSeq(q) = Joint(FlattenSeq(p), x)
<1> DEFINE n == Len(p)
<1>1. n \in Nat /\ n + 1 \in Nat \ {0} /\ n <= n + 1 /\ n + 1 \in 1..(n + 1) /\ Len(q) = n + 1
  BY DEF Appended
<1>2. q[n + 1] = x /\ \A i \in 1..n : p[i] = q[i]
  BY DEF Appended
<1>3. PICK g : Joined(q, g, n + 1) /\ FlattenSeq(q) = g[n + 1]
  BY <1>1, FlattenIs
<1>4. Joined(q, g, n + 1)  BY <1>3
<1>5. g[n + 1] = IF n + 1 = 1 THEN q[n + 1] ELSE Joint(g[n + 1 - 1], q[n + 1])
  BY <1>1, <1>4, JoinedStep
<1>6. CASE n = 0
  <2>1. FlattenSeq(p) = p /\ p = << >>  BY <1>6 DEF FlattenSeq
  <2>2. g[n + 1] = x  BY <1>2, <1>5, <1>6
  <2>3. Joint(<< >>, x) = x  BY ConcatEmptySeq DEF Joint
  <2> QED BY <1>3, <2>1, <2>2, <2>3
<1>7. CASE n # 0
  <2>1. PICK f : Joined(p, f, n) /\ FlattenSeq(p) = f[n]  BY <1>1, <1>7, FlattenIs
  <2>2. Joined(p, f, n)  BY <2>1
  <2>3. n \in 1..n  BY <1>1, <1>7
  <2>4. f[n] = g[n]
    <3>1. Alike(p, q, n)  BY <1>2 DEF Alike
    <3>2. Alike(f, g, n)
      <4> HIDE DEF n
      <4> QED BY <1>1, <1>4, <2>2, <3>1, JoinedAlike
    <3> QED BY <2>3, <3>2 DEF Alike
  <2>5. g[n + 1] = Joint(g[n], x)  BY <1>1, <1>2, <1>5, <1>7
  <2> QED BY <1>3, <2>1, <2>4, <2>5
<1> QED BY <1>6, <1>7

LEMMA FlattenSingles ==
  ASSUME NEW T, NEW s \in Seq(T)
  PROVE  FlattenSeq([i \in DOMAIN s |-> <<s[i]>>]) = s
<1> DEFINE p == [i \in DOMAIN s |-> <<s[i]>>]
<1>0. Len(s) \in Nat /\ DOMAIN s = 1..Len(s) /\ \A i \in 1..Len(s) : s[i] \in T
  BY LenProperties
<1>1. /\ p \in Seq(Seq(T)) /\ Len(p) = Len(s) /\ Len(s) \in Nat
      /\ \A i \in 1..Len(s) : p[i] = <<s[i]>>
  BY <1>0
<1> HIDE DEF p
<1>2. CASE Len(s) = 0
  <2>1. FlattenSeq(p) = p  BY <1>1, <1>2 DEF FlattenSeq
  <2>2. p = << >> /\ s = << >>  BY <1>1, <1>2
  <2> QED BY <2>1, <2>2 DEF p
<1>3. CASE Len(s) # 0
  <2>1. PICK f : Joined(p, f, Len(p)) /\ FlattenSeq(p) = f[Len(p)]  BY <1>1, <1>3, FlattenIs
  <2> DEFINE S == {j \in Nat : j \in 1..Len(s) => f[j] = SubSeq(s, 1, j)}
  <2>2. 0 \in S  OBVIOUS
  <2>3. ASSUME NEW j \in Nat, j \in S PROVE j + 1 \in S
    <3> SUFFICES ASSUME j + 1 \in 1..Len(s) PROVE f[j + 1] = SubSeq(s, 1, j + 1)  OBVIOUS
    <3>a. f[j + 1] = IF j = 0 THEN p[j + 1] ELSE Joint(f[j], p[j + 1])
      BY <1>1, <2>1, JoinedStep
    <3>1. f[j + 1] = IF j = 0 THEN <<s[j + 1]>> ELSE Joint(f[j], <<s[j + 1]>>)
      BY <1>1, <3>a
    <3>2. SubSeq(s, 1, j + 1) = SubSeq(s, 1, j) \o <<s[j + 1]>>
      BY <1>1, SubSeqRecursiveSecond
    <3>3. CASE j = 0
      <4>1. SubSeq(s, 1, 0) = << >>  BY SubSeqEmpty
      <4>2. << >> \o <<s[1]>> = <<s[1]>>  OBVIOUS
      <4> QED BY <3>1, <3>2, <3>3, <4>1, <4>2
    <3>4. CASE j # 0
      <4>1. f[j] = SubSeq(s, 1, j)  BY <2>3, <3>4
      <4> QED BY <3>1, <3>2, <3>4, <4>1 DEF Joint
    <3> QED BY <3>3, <3>4
  <2> HIDE DEF S
  <2>4. \A j \in Nat : j \in S  BY <2>2, <2>3, Counting
  <2>5. f[Len(s)] = SubSeq(s, 1, Len(s))  BY <1>1, <1>3, <2>4 DEF S
  <2> QED BY <1>1, <2>1, <2>5, SubSeqFull DEF p
<1> QED BY <1>2, <1>3

LEMMA WalkPrefix ==
  ASSUME NEW T, NEW p \in Seq(T), NEW q \in Seq(T), IsPrefix(p, q),
         \A i \in 1..Len(q) : q[i] # ".."
  PROVE  IsPrefix(Walk(p), Walk(q))
<1>1. Len(p) \in Nat /\ Len(q) \in Nat /\ Len(p) <= Len(q) /\ \A i \in 1..Len(p) : p[i] = q[i]
  BY PrefixItems
<1>a. Len(p) \in 0..Len(p)  BY <1>1
<1>2. PICK f : Walked(p, f, Len(p)) /\ Walk(p) = f[Len(p)]  BY <1>1, WalkIs
<1>3. PICK g : Walked(q, g, Len(q)) /\ Walk(q) = g[Len(q)]  BY <1>1, WalkIs
<1>4. f[Len(p)] = g[Len(p)]  BY <1>1, <1>a, <1>2, <1>3, WalkedAlike
<1>5. IsPrefix(g[Len(p)], g[Len(q)])  BY <1>1, <1>3, WalkedGrows
<1> QED BY <1>2, <1>3, <1>4, <1>5

LEMMA WalkOneMore ==
  ASSUME NEW T, NEW p \in Seq(T), NEW x \in T, NEW q \in Seq(T), Appended(p, x, q)
  PROVE  Walk(q) = Climb(Walk(p), x)
<1> DEFINE n == Len(p)
<1>1. n \in Nat /\ n + 1 \in Nat /\ n <= n + 1 /\ n + 1 \in 1..(n + 1) /\ n \in 0..n /\ Len(q) = n + 1
  BY DEF Appended
<1>2. q[n + 1] = x /\ \A i \in 1..n : p[i] = q[i]
  BY DEF Appended
<1>3. PICK g : Walked(q, g, n + 1) /\ Walk(q) = g[n + 1]
  BY <1>1, WalkIs
<1>4. PICK f : Walked(p, f, n) /\ Walk(p) = f[n]
  BY <1>1, WalkIs
<1>5. Walked(q, g, n + 1) /\ Walked(p, f, n)  BY <1>3, <1>4
<1>6. f[n] = g[n]
  <2> HIDE DEF n
  <2> QED BY <1>1, <1>2, <1>5, WalkedAlike
<1>7. g[n + 1] = Climb(g[n + 1 - 1], q[n + 1])
  BY <1>1, <1>5, WalkedStep
<1>8. g[n + 1] = Climb(g[n], x)  BY <1>1, <1>2, <1>7
<1> QED BY <1>3, <1>4, <1>6, <1>8

\* What a server sees of a plain path, before it takes any step up.
Segments == STRING \cup {Bare(segment) : segment \in STRING}

Decoded(path) == [i \in DOMAIN path |-> Decode(path[i])]

Bared(path) == [i \in DOMAIN path |-> Bare(path[i])]

Seen(path, way) == IF way.bare THEN Bared(DecodePath(path)) ELSE DecodePath(path)

LEMMA DecodedTyped ==
  ASSUME NEW path \in Seq(STRING)
  PROVE  /\ Decoded(path) \in Seq(Seq(STRING)) /\ Len(Decoded(path)) = Len(path)
         /\ \A i \in 1..Len(path) : Decoded(path)[i] = Decode(path[i])
         /\ DecodePath(path) = FlattenSeq(Decoded(path)) /\ DecodePath(path) \in Seq(STRING)
<1>1. Len(path) \in Nat /\ DOMAIN path = 1..Len(path) /\ \A i \in 1..Len(path) : path[i] \in STRING
  BY LenProperties
<1>2. ASSUME NEW i \in 1..Len(path) PROVE Decode(path[i]) \in Seq(STRING)
  <2>1. path[i] \in STRING  BY <1>1
  <2>2. <<path[i]>> \in Seq(STRING)  BY <2>1
  <2> QED BY <2>2, AddressAssumption DEF AddressAssumption, Decode
<1>3. Decoded(path) \in Seq(Seq(STRING)) /\ Len(Decoded(path)) = Len(path)
  BY <1>1, <1>2 DEF Decoded
<1>4. \A i \in 1..Len(path) : Decoded(path)[i] = Decode(path[i])
  BY <1>1 DEF Decoded
<1>5. DecodePath(path) = FlattenSeq(Decoded(path))
  BY DEF DecodePath, Decoded
<1> QED BY <1>3, <1>4, <1>5, FlattenTyped

LEMMA BaredTyped ==
  ASSUME NEW path \in Seq(STRING)
  PROVE  /\ Bared(path) \in Seq(Segments) /\ Len(Bared(path)) = Len(path)
         /\ \A i \in 1..Len(path) : Bared(path)[i] = Bare(path[i])
<1>1. Len(path) \in Nat /\ DOMAIN path = 1..Len(path) /\ \A i \in 1..Len(path) : path[i] \in STRING
  BY LenProperties
<1>2. \A i \in 1..Len(path) : Bare(path[i]) \in Segments
  BY <1>1 DEF Segments
<1> QED BY <1>1, <1>2 DEF Bared

LEMMA SeenTyped ==
  ASSUME NEW path \in Seq(STRING), NEW way PROVE Seen(path, way) \in Seq(Segments)
<1>1. DecodePath(path) \in Seq(STRING)  BY DecodedTyped
<1>2. STRING \subseteq Segments  BY DEF Segments
<1>3. DecodePath(path) \in Seq(Segments)  BY <1>1, <1>2, SeqMonotonic
<1> QED BY <1>1, <1>3, BaredTyped DEF Seen

\* Decoded again, or parted at backslashes, a plain path stays what it is.
LEMMA PlainStays ==
  ASSUME NEW path \in Seq(STRING), PlainPath(path), NEW way \in Ways
  PROVE  /\ ReadAs(path, way) = Walk(Seen(path, way))
         /\ \A i \in 1..Len(Seen(path, way)) : Seen(path, way)[i] # ".."
<1> DEFINE d == DecodePath(path)
<1>1. d \in Seq(STRING)  BY DecodedTyped
<1>2. Len(d) \in Nat /\ DOMAIN d = 1..Len(d) /\ \A i \in 1..Len(d) : d[i] \in STRING
  BY <1>1, LenProperties
<1>3. \A i \in DOMAIN d : /\ d[i] \notin DOMAIN Backslashed /\ d[i] \notin DOMAIN Unquoted
                          /\ Bare(d[i]) \notin {".", ".."}
  BY DEF PlainPath, ToSet, Percented
<1> HIDE DEF d
<1>4. FlattenSeq([i \in DOMAIN d |-> <<d[i]>>]) = d
  BY <1>1, FlattenSingles
<1>5. DecodePath(d) = d
  <2>1. [i \in DOMAIN d |-> Decode(d[i])] = [i \in DOMAIN d |-> <<d[i]>>]
    BY <1>3 DEF Decode
  <2> QED BY <1>4, <2>1 DEF DecodePath
<1>6. FlattenSeq([i \in DOMAIN d |-> Slashes(d[i])]) = d
  <2>1. [i \in DOMAIN d |-> Slashes(d[i])] = [i \in DOMAIN d |-> <<d[i]>>]
    BY <1>3 DEF Slashes
  <2> QED BY <1>4, <2>1
<1>7. ReadAs(path, way) = Walk(Seen(path, way))
  <2>1. Seen(path, way) = IF way.bare THEN [i \in DOMAIN d |-> Bare(d[i])] ELSE d
    BY DEF Seen, Bared, d
  <2>2. (IF way.twice THEN DecodePath(d) ELSE d) = d
    BY <1>5
  <2>3. (IF way.backslash THEN FlattenSeq([i \in DOMAIN d |-> Slashes(d[i])]) ELSE d) = d
    BY <1>6
  <2>4. ReadAs(path, way) = Walk(IF way.bare THEN [i \in DOMAIN d |-> Bare(d[i])] ELSE d)
    BY <2>2, <2>3 DEF ReadAs, d
  <2> QED BY <2>1, <2>4
<1>8. \A i \in 1..Len(d) : d[i] # ".."
  BY <1>2, <1>3, AddressAssumption DEF AddressAssumption, Bare
<1>9. \A i \in 1..Len(Bared(d)) : Bared(d)[i] # ".."
  BY <1>1, <1>2, <1>3, BaredTyped
<1> QED BY <1>7, <1>8, <1>9 DEF Seen, d

LEMMA SeenPrefix ==
  ASSUME NEW p \in Seq(STRING), NEW q \in Seq(STRING), IsPrefix(p, q), NEW way
  PROVE  IsPrefix(Seen(p, way), Seen(q, way))
<1>1. IsPrefix(Decoded(p), Decoded(q))
  <2>1. Len(p) <= Len(q) /\ \A i \in 1..Len(p) : p[i] = q[i]
    BY PrefixItems
  <2>2. Len(p) \in Nat /\ Len(q) \in Nat  OBVIOUS
  <2>3. \A i \in 1..Len(p) : Decoded(p)[i] = Decoded(q)[i]
    BY <2>1, <2>2, DecodedTyped
  <2>4. Len(Decoded(p)) <= Len(Decoded(q)) /\ Len(Decoded(p)) = Len(p)
    BY <2>1, DecodedTyped
  <2>5. Decoded(p) \in Seq(Seq(STRING)) /\ Decoded(q) \in Seq(Seq(STRING))
    BY DecodedTyped
  <2> QED BY <2>3, <2>4, <2>5, PrefixItems
<1>2. DecodePath(p) \in Seq(STRING) /\ DecodePath(q) \in Seq(STRING)
  BY DecodedTyped
<1>3. IsPrefix(DecodePath(p), DecodePath(q))
  <2>1. /\ DecodePath(p) = FlattenSeq(Decoded(p)) /\ DecodePath(q) = FlattenSeq(Decoded(q))
        /\ Decoded(p) \in Seq(Seq(STRING)) /\ Decoded(q) \in Seq(Seq(STRING))
    BY DecodedTyped
  <2> QED BY <1>1, <2>1, FlattenPrefix
<1>4. IsPrefix(Bared(DecodePath(p)), Bared(DecodePath(q)))
  <2> DEFINE d == DecodePath(p)
             e == DecodePath(q)
  <2>1. d \in Seq(STRING) /\ e \in Seq(STRING) /\ IsPrefix(d, e)  BY <1>2, <1>3
  <2> HIDE DEF d, e
  <2>2. Len(d) <= Len(e) /\ \A i \in 1..Len(d) : d[i] = e[i]
    BY <2>1, PrefixItems
  <2>3. Len(d) \in Nat /\ Len(e) \in Nat  BY <2>1
  <2>4. \A i \in 1..Len(d) : Bared(d)[i] = Bared(e)[i]
    BY <2>1, <2>2, <2>3, BaredTyped
  <2>5. /\ Bared(d) \in Seq(Segments) /\ Bared(e) \in Seq(Segments)
        /\ Len(Bared(d)) = Len(d) /\ Len(Bared(e)) = Len(e)
    BY <2>1, BaredTyped
  <2>6. IsPrefix(Bared(d), Bared(e))  BY <2>2, <2>4, <2>5, PrefixItems
  <2> QED BY <2>6 DEF d, e
<1> QED BY <1>3, <1>4 DEF Seen

\* A slash at the end leads nowhere.
Nowhere(x) == Decode(x) = <<x>> /\ Bare(x) = x /\ \A s : Climb(s, x) = s

LEMMA SlashAtEnd ==
  ASSUME NEW p \in Seq(STRING), NEW q \in Seq(STRING), NEW x \in STRING, Appended(p, x, q),
         Nowhere(x), NEW way
  PROVE  Walk(Seen(q, way)) = Walk(Seen(p, way))
<1>1. Decoded(p) \in Seq(Seq(STRING)) /\ Decoded(q) \in Seq(Seq(STRING))
  BY DecodedTyped
<1>2. <<x>> \in Seq(STRING)  BY Single
<1>3. Appended(Decoded(p), <<x>>, Decoded(q))
  <2> DEFINE n == Len(p)
  <2>1. n \in Nat /\ Len(q) = n + 1 /\ q[n + 1] = x /\ \A i \in 1..n : p[i] = q[i]
    BY DEF Appended
  <2>2. n + 1 \in 1..(n + 1) /\ \A i \in 1..n : i \in 1..(n + 1)  BY <2>1
  <2>3. /\ Len(Decoded(p)) = n /\ Len(Decoded(q)) = n + 1
        /\ \A i \in 1..n : Decoded(p)[i] = Decode(p[i])
        /\ \A i \in 1..(n + 1) : Decoded(q)[i] = Decode(q[i])
    BY <2>1, DecodedTyped
  <2> HIDE DEF n
  <2>4. Decoded(q)[n + 1] = <<x>>  BY <2>1, <2>2, <2>3 DEF Nowhere
  <2>5. \A i \in 1..n : Decoded(p)[i] = Decoded(q)[i]
    <3> SUFFICES ASSUME NEW i \in 1..n PROVE Decoded(p)[i] = Decoded(q)[i]  OBVIOUS
    <3>1. p[i] = q[i] /\ i \in 1..(n + 1)  BY <2>1, <2>2
    <3> QED BY <2>3, <3>1
  <2> QED BY <2>1, <2>3, <2>4, <2>5 DEF Appended
<1>4. DecodePath(q) = Joint(DecodePath(p), <<x>>)
  <2>1. FlattenSeq(Decoded(q)) = Joint(FlattenSeq(Decoded(p)), <<x>>)
    BY <1>1, <1>2, <1>3, FlattenOneMore
  <2>2. DecodePath(p) = FlattenSeq(Decoded(p)) /\ DecodePath(q) = FlattenSeq(Decoded(q))
    BY DecodedTyped
  <2> QED BY <2>1, <2>2
<1> DEFINE d == DecodePath(p)
           e == DecodePath(q)
<1>5. d \in Seq(STRING) /\ e \in Seq(STRING) /\ Appended(d, x, e)
  <2>1. d \in Seq(STRING) /\ e = Joint(d, <<x>>)  BY <1>4, DecodedTyped
  <2> HIDE DEF d, e
  <2>2. Joint(d, <<x>>) = Append(d, x)  BY <2>1, AppendIsConcat DEF Joint
  <2> QED BY <2>1, <2>2, AppendItems
<1> HIDE DEF d, e
<1>6. Bared(d) \in Seq(Segments) /\ Bared(e) \in Seq(Segments) /\ Appended(Bared(d), x, Bared(e))
  <2> DEFINE n == Len(d)
  <2>1. n \in Nat /\ Len(e) = n + 1 /\ e[n + 1] = x /\ \A i \in 1..n : d[i] = e[i]
    BY <1>5 DEF Appended
  <2>2. n + 1 \in 1..(n + 1) /\ \A i \in 1..n : i \in 1..(n + 1)  BY <2>1
  <2>3. /\ Len(Bared(d)) = n /\ Len(Bared(e)) = n + 1
        /\ \A i \in 1..n : Bared(d)[i] = Bare(d[i])
        /\ \A i \in 1..(n + 1) : Bared(e)[i] = Bare(e[i])
    BY <1>5, <2>1, BaredTyped
  <2>4. Bared(d) \in Seq(Segments) /\ Bared(e) \in Seq(Segments)  BY <1>5, BaredTyped
  <2> HIDE DEF n
  <2>5. Bared(e)[n + 1] = x  BY <2>1, <2>2, <2>3 DEF Nowhere
  <2>6. \A i \in 1..n : Bared(d)[i] = Bared(e)[i]
    BY <2>1, <2>2, <2>3
  <2> QED BY <2>1, <2>3, <2>4, <2>5, <2>6 DEF Appended
<1>7. x \in Segments /\ d \in Seq(Segments) /\ e \in Seq(Segments)
  <2>1. STRING \subseteq Segments  BY DEF Segments
  <2> QED BY <1>5, <2>1, SeqMonotonic
<1>8. Walk(e) = Walk(d)
  BY <1>5, <1>7, WalkOneMore DEF Nowhere
<1>9. Walk(Bared(e)) = Walk(Bared(d))
  BY <1>6, <1>7, WalkOneMore DEF Nowhere
<1> QED BY <1>8, <1>9 DEF Seen, d, e

(* A path that the comparison puts under an entry (_under) lies below it in    *)
(* each of the ways another server may read it - unescaped or not, backslashes *)
(* as slashes or not, parameters cut off or not, dots resolved -, as long as   *)
(* both are plain (plain_path), whatever their length.                         *)
THEOREM UnderIsBelow ==
  ASSUME NEW path \in Seq(STRING), NEW base \in Seq(STRING),
         PlainPath(path), PlainPath(base), Under(path, base)
  PROVE  Below(path, base)
<1> SUFFICES ASSUME NEW way \in Ways PROVE IsPrefix(ReadAs(base, way), ReadAs(path, way))
  BY DEF Below
<1>1. /\ ReadAs(path, way) = Walk(Seen(path, way)) /\ ReadAs(base, way) = Walk(Seen(base, way))
      /\ Seen(path, way) \in Seq(Segments)
      /\ \A i \in 1..Len(Seen(path, way)) : Seen(path, way)[i] # ".."
  BY PlainStays, SeenTyped
<1>2. ASSUME NEW p \in Seq(STRING), IsPrefix(p, path)
      PROVE  IsPrefix(Walk(Seen(p, way)), Walk(Seen(path, way)))
  <2>1. IsPrefix(Seen(p, way), Seen(path, way)) /\ Seen(p, way) \in Seq(Segments)
    BY <1>2, SeenPrefix, SeenTyped
  <2> QED BY <1>1, <2>1, WalkPrefix
<1>3. CASE IsPrefix(base, path)
  BY <1>1, <1>2, <1>3
<1>4. CASE ~IsPrefix(base, path)
  <2>1. base # << >>
    <3>1. Len(path) \in Nat /\ Len(<< >>) = 0 /\ SubSeq(<< >>, 1, 0) = SubSeq(path, 1, 0)
      BY SubSeqEmpty
    <3>2. IsPrefix(<< >>, path)  BY <3>1 DEF IsPrefix
    <3> QED BY <1>4, <3>2
  <2> DEFINE p == Front(base)
             x == Last(base)
  <2>2. x = "" /\ IsPrefix(p, OrSlash(path)) /\ Len(OrSlash(path)) >= Len(base)
    BY <1>4, <2>1 DEF Under, OrSlash
  <2>3. p \in Seq(STRING) /\ x \in STRING /\ Appended(p, x, base)
    BY <2>1, FrontItems
  <2>4. IsPrefix(p, path)
    <3>1. CASE path = << >>
      <4>a. OrSlash(path) = <<"">>  BY <3>1 DEF OrSlash
      <4>d. Len(<<"">>) >= Len(base)  BY <2>2, <4>a
      <4> HIDE DEF p, x
      <4>b. Len(base) <= 1 /\ Len(base) \in Nat  BY <4>d
      <4>c. Len(p) \in Nat /\ Len(base) = Len(p) + 1  BY <2>3 DEF Appended
      <4>1. Len(p) = 0  BY <4>b, <4>c
      <4>2. p = << >>  BY <2>3, <4>1
      <4> QED BY <3>1, <4>2 DEF IsPrefix
    <3>2. CASE path # << >>
      BY <2>2, <3>2 DEF OrSlash
    <3> QED BY <3>1, <3>2
  <2>5. Nowhere(x)
    BY <2>2, AddressAssumption DEF AddressAssumption, Nowhere, Decode, Bare, Climb
  <2> HIDE DEF p, x
  <2>6. Walk(Seen(base, way)) = Walk(Seen(p, way))
    BY <2>3, <2>5, SlashAtEnd
  <2> QED BY <1>1, <1>2, <2>3, <2>4, <2>6
<1> QED BY <1>3, <1>4
\* What an upload is while it is under way: a source that is a path has no URL,
\* the place a path leads to was compared before its file is looked for, and
\* what is ready passed the one check.
IsUpload(x) ==
    /\ DOMAIN x = {"pc", "url", "path", "response", "size", "type", "name", "answer"}
    /\ x.url \in Urls \cup {NoUrl} /\ x.response \in Responses \cup {NoResponse}
    /\ x.size \in 0..MaxUpload /\ IsName(x.name)

Checked(file, url, said, begins) ==
    /\ file.size \in 1..MaxUpload
    /\ TypeOf(file.name.ext) = file.type
    /\ url # NoUrl => /\ NameWidth(file.name) <= MaxName
                      /\ said \in Unsaid => begins = file.type

UploadStands(x) ==
    /\ x.pc \in {"idle", "looking", "measuring", "reading"} => x.url = NoUrl
    /\ x.pc = "looking" => Inside(x.path)
    /\ x.pc = "body" => x.type = Aliases(x.response.type)
    /\ x.pc = "ready" => Checked(x, x.url, x.response.type, x.response.begins)

UploadInv ==
    /\ allowed \subseteq Entries /\ \A entry \in allowed : UrlPrefix(entry)
    /\ disk \in 0..(MaxUpload + 2)
    /\ IsUpload(upload)
    /\ UploadStands(upload)
    /\ ReachedOnlyWhatIsAllowed
    /\ SentAsAccepted

LEMMA WidthFits == \A e : Width(e) \in Nat /\ Width(e) <= 5
  BY DEF Width

Receipt == [stem |-> 7, ext |-> "", device |-> FALSE]

LEMMA ReceiptIsName == IsName(Receipt) /\ Receipt.ext \notin DOMAIN UploadTypes
<1>1. IsName(Receipt)  BY DEF Receipt, IsName
<1>2. Receipt.ext \notin DOMAIN UploadTypes  BY DEF Receipt, UploadTypes
<1> QED BY <1>1, <1>2

\* A name fits, however long what it is made of.
LEMMA SafeNameFits ==
  ASSUME NEW name, IsName(name)
  PROVE  IsName(SafeName(name)) /\ NameWidth(SafeName(name)) <= MaxName
<1>1. MaxName \in Nat /\ MaxName > 5  BY UploadAssumption DEF UploadAssumption
<1>2. \A e : Width(e) \in Nat /\ Width(e) <= 5  BY WidthFits
<1>3. name.stem \in Nat /\ name.device \in BOOLEAN  BY DEF IsName
<1> DEFINE x == Shortened(name)
<1>4. IsName(x) /\ NameWidth(x) <= MaxName
  <2>1. CASE NameWidth(name) > MaxName
    <3>1. x = [name EXCEPT !.stem = MaxName - Width(name.ext)]  BY <2>1 DEF Shortened
    <3>2. MaxName - Width(name.ext) \in Nat  BY <1>1, <1>2, <1>3
    <3>3. IsName(x) /\ x.stem = MaxName - Width(name.ext) /\ x.ext = name.ext
      BY <3>1, <3>2 DEF IsName
    <3>4. Width(name.ext) \in Nat  BY <1>2, <1>3
    <3> QED BY <1>1, <3>3, <3>4 DEF NameWidth
  <2>2. CASE ~(NameWidth(name) > MaxName)
    <3>1. x = name  BY <2>2 DEF Shortened
    <3>2. NameWidth(name) \in Nat  BY <1>2, <1>3 DEF NameWidth
    <3> QED BY <1>1, <2>2, <3>1, <3>2
  <2> QED BY <2>1, <2>2
<1> HIDE DEF x
<1>5. IsName(NoDevice(x)) /\ NameWidth(NoDevice(x)) <= MaxName
  <2>0. x.stem \in Nat /\ Width(x.ext) \in Nat  BY <1>2, <1>4 DEF IsName
  <2>1. CASE ~x.device
    BY <1>4, <2>1 DEF NoDevice
  <2>2. CASE x.device /\ NameWidth(x) < MaxName
    <3>1. NoDevice(x) = [x EXCEPT !.stem = x.stem + 1]  BY <2>2 DEF NoDevice
    <3>2. IsName(NoDevice(x)) /\ NoDevice(x).stem = x.stem + 1 /\ NoDevice(x).ext = x.ext
      BY <1>4, <2>0, <3>1 DEF IsName
    <3> QED BY <1>1, <2>0, <2>2, <3>2 DEF NameWidth
  <2>3. CASE x.device /\ ~(NameWidth(x) < MaxName) /\ x.ext = ""
    BY <1>4, <2>3 DEF NoDevice
  <2>4. CASE x.device /\ ~(NameWidth(x) < MaxName) /\ x.ext # ""
    <3> DEFINE e == Cut(x.ext)
               w == Width(e)
    <3>1. NoDevice(x) = [x EXCEPT !.stem = MaxName - w, !.ext = e]  BY <2>4 DEF NoDevice
    <3>2. w \in Nat /\ w <= 5  BY <1>2
    <3> HIDE DEF e
    <3>3. w \in Nat /\ w <= 5 /\ MaxName - w \in Nat  BY <1>1, <3>2
    <3>4. IsName(NoDevice(x)) /\ NoDevice(x).stem = MaxName - w /\ NoDevice(x).ext = e
      BY <1>4, <3>1, <3>3 DEF IsName
    <3> QED BY <1>1, <3>3, <3>4 DEF NameWidth
  <2> QED BY <2>1, <2>2, <2>3, <2>4
<1> QED BY <1>5 DEF SafeName, x

LEMMA UploadNameFits ==
  ASSUME NEW disposition, IsName(disposition), NEW last, IsName(last), NEW type \in DOMAIN Extension
  PROVE  /\ IsName(UploadName(disposition, last, type))
         /\ NameWidth(UploadName(disposition, last, type)) <= MaxName
<1>1. MaxName \in Nat /\ MaxName > 5  BY UploadAssumption DEF UploadAssumption
<1>2. \A e : Width(e) \in Nat /\ Width(e) <= 5  BY WidthFits
<1> DEFINE name == FirstNamed(disposition, last)
           ext == Extension[type]
           room == MaxName - Width(ext)
<1>3. IsName(name) /\ (name.ext \in DOMAIN UploadTypes => NameWidth(name) <= MaxName)
  <2>1. name \in {SafeName(disposition), SafeName(last), Receipt}
    BY DEF FirstNamed, Receipt
  <2> QED BY <2>1, ReceiptIsName, SafeNameFits
<1> DEFINE to == UploadName(disposition, last, type)
<1>5. to = IF name.ext \in DOMAIN UploadTypes THEN name
           ELSE [name EXCEPT !.stem = IF NameWidth(name) < room THEN NameWidth(name) ELSE room,
                             !.ext = ext]
  BY DEF UploadName
<1> HIDE DEF name, ext, to
<1>6. room \in Nat /\ Width(ext) \in Nat /\ room + Width(ext) = MaxName
  <2>1. Width(ext) \in Nat /\ Width(ext) <= 5  BY <1>2
  <2> QED BY <1>1, <2>1
<1>7. NameWidth(name) \in Nat
  BY <1>2, <1>3 DEF NameWidth, IsName
<1>8. CASE name.ext \in DOMAIN UploadTypes
  BY <1>3, <1>5, <1>8 DEF to
<1>9. CASE name.ext \notin DOMAIN UploadTypes
  <2> DEFINE stem == IF NameWidth(name) < room THEN NameWidth(name) ELSE room
  <2>1. stem \in Nat /\ stem <= room  BY <1>6, <1>7
  <2>2. to = [name EXCEPT !.stem = stem, !.ext = ext]  BY <1>5, <1>9
  <2> HIDE DEF stem, room
  <2>3. IsName(to) /\ to.stem = stem /\ to.ext = ext  BY <1>3, <2>1, <2>2 DEF IsName
  <2>4. NameWidth(to) <= MaxName  BY <1>1, <1>6, <2>1, <2>3 DEF NameWidth
  <2> QED BY <2>3, <2>4 DEF to
<1> QED BY <1>8, <1>9

LEMMA UploadInvInit == UploadInit => UploadInv
<1> SUFFICES ASSUME UploadInit PROVE UploadInv  OBVIOUS
<1>1. allowed \subseteq Entries /\ \A entry \in allowed : UrlPrefix(entry)
  BY DEF UploadInit
<1>2. disk \in 0..(MaxUpload + 2)
  BY UploadAssumption DEF UploadAssumption, UploadInit, Absent
<1>3. upload = NoUpload  BY DEF UploadInit
<1>4. IsUpload(NoUpload)
  <2>1. NoUpload.size \in 0..MaxUpload
    BY UploadAssumption DEF UploadAssumption, NoUpload
  <2>2. IsName(NoUpload.name)  BY DEF NoUpload, NoName, IsName
  <2>3. NoUpload.url = NoUrl /\ NoUpload.response = NoResponse  BY DEF NoUpload
  <2>4. DOMAIN NoUpload = {"pc", "url", "path", "response", "size", "type", "name", "answer"}
    BY DEF NoUpload
  <2> QED BY <2>1, <2>2, <2>3, <2>4 DEF IsUpload
<1>5. UploadStands(NoUpload)
  BY DEF UploadStands, NoUpload
<1>6. ReachedOnlyWhatIsAllowed /\ SentAsAccepted
  BY DEF UploadInit, ReachedOnlyWhatIsAllowed, SentAsAccepted
<1> QED BY <1>1, <1>2, <1>3, <1>4, <1>5, <1>6 DEF UploadInv

LEMMA NamesGiven ==
  /\ \A url \in Urls \cup {NoUrl} : IsName(url.last)
  /\ \A response \in Responses \cup {NoResponse} : IsName(response.disposition)
<1>1. NoUrl.last = NoName /\ NoResponse.disposition = NoName  BY DEF NoUrl, NoResponse
<1>2. IsName(NoName)  BY DEF NoName, IsName
<1> QED BY <1>1, <1>2, UploadAssumption DEF UploadAssumption

LEMMA AnswerStands ==
  ASSUME IsUpload(upload), NEW answer, Answer(answer)
  PROVE  IsUpload(upload') /\ UploadStands(upload')
  BY DEF Answer, IsUpload, UploadStands

\* UploadStands reads a setting, which no step changes.
LEMMA SettingsStay ==
  ASSUME UNCHANGED settings, allowed \subseteq Entries, \A entry \in allowed : UrlPrefix(entry),
         UploadStands(upload')
  PROVE  UploadStands(upload)' /\ (allowed \subseteq Entries /\ \A entry \in allowed : UrlPrefix(entry))'
  BY DEF settings, UploadStands, Inside

\* A step that asks for nothing and sends nothing only has its own place to keep.
LEMMA UploadQuiet ==
  ASSUME UploadInv, UNCHANGED <<settings, history>>, disk' \in 0..(MaxUpload + 2),
         IsUpload(upload'), UploadStands(upload')
  PROVE  UploadInv'
<1>1. ReachedOnlyWhatIsAllowed'
  BY DEF UploadInv, settings, history, ReachedOnlyWhatIsAllowed
<1>2. SentAsAccepted'
  BY DEF UploadInv, history, SentAsAccepted, Checked
<1> QED BY <1>1, <1>2, SettingsStay DEF UploadInv

LEMMA FetchStep ==
  ASSUME UploadInv, NEW url \in Urls, Fetch(url) PROVE UploadInv'
<1>1. CASE ~Within(url, allowed)
  <2>1. Answer("refused") /\ UNCHANGED <<settings, history, disk>>
    BY <1>1 DEF Fetch, history
  <2> QED BY <2>1, AnswerStands, UploadQuiet DEF UploadInv
<1>2. CASE Within(url, allowed)
  <2>1. /\ asked' = asked \cup {[url |-> url, by |-> By(url)]}
        /\ upload' = [upload EXCEPT !.pc = "asking", !.url = url]
        /\ UNCHANGED <<settings, disk, touched, looked, sent>>
    BY <1>2 DEF Fetch
  <2>2. IsUpload(upload') /\ UploadStands(upload')
    BY <2>1 DEF UploadInv, IsUpload, UploadStands
  <2>3. PICK entry \in allowed : SamePlace(url, entry) /\ Under(url.path, entry.path)
    BY <1>2 DEF Within
  <2>4. UrlPrefix(entry) /\ entry.path \in Seq(STRING) /\ url.path \in Seq(STRING)
    BY UploadAssumption DEF UploadInv, UploadAssumption
  <2>5. Below(url.path, entry.path)
    BY <1>2, <2>3, <2>4, UnderIsBelow DEF Within, UrlPrefix
  <2>6. url.scheme = "http" => url.host \in LoopbackNames
    BY <2>3, <2>4 DEF SamePlace, UrlPrefix
  <2>7. url.host \in LoopbackNames => By(url) = "direct"
    BY DEF By
  <2>8. ReachedOnlyWhatIsAllowed'
    <3> DEFINE new == [url |-> url, by |-> By(url)]
    <3>1. new.url = url /\ new.by = By(url)  OBVIOUS
    <3> HIDE DEF new
    <3>2. /\ \E e \in allowed : SamePlace(new.url, e) /\ Below(new.url.path, e.path)
          /\ new.url.host \in LoopbackNames => new.by = "direct"
          /\ new.url.scheme = "http" => new.url.host \in LoopbackNames
      BY <2>3, <2>5, <2>6, <2>7, <3>1
    <3>3. asked' = asked \cup {new}  BY <2>1 DEF new
    <3> QED BY <2>1, <3>2, <3>3 DEF UploadInv, settings, ReachedOnlyWhatIsAllowed
  <2>9. SentAsAccepted'
    BY <2>1 DEF UploadInv, SentAsAccepted
  <2> QED BY <2>1, <2>2, <2>8, <2>9, SettingsStay DEF UploadInv
<1> QED BY <1>1, <1>2

LEMMA ResponseSteps ==
  ASSUME UploadInv,
         \/ \E response \in Responses : Respond(response)
         \/ \E size \in 1..MaxUpload : Chunk(size)
         \/ BodyEnds
  PROVE  UploadInv'
<1>0. UNCHANGED <<settings, history>> /\ disk' = disk /\ disk' \in 0..(MaxUpload + 2)
  BY DEF Respond, Chunk, BodyEnds, UploadInv
<1>a. IsUpload(upload) /\ UploadStands(upload)  BY DEF UploadInv
<1>1. ASSUME NEW response \in Responses, Respond(response) PROVE UploadInv'
  <2>1. CASE TakesResponse(response)
    <3>1. upload' = [upload EXCEPT !.pc = "body", !.response = response,
                                   !.type = Aliases(response.type)]
      BY <1>1, <2>1 DEF Respond
    <3>2. IsUpload(upload') /\ UploadStands(upload')
      BY <1>a, <3>1 DEF IsUpload, UploadStands
    <3> QED BY <1>0, <3>2, UploadQuiet
  <2>2. CASE ~TakesResponse(response)
    BY <1>0, <1>a, <1>1, <2>2, AnswerStands, UploadQuiet DEF Respond
  <2> QED BY <2>1, <2>2
<1>2. ASSUME NEW size \in 1..MaxUpload, Chunk(size) PROVE UploadInv'
  <2>1. CASE upload.size + size > MaxUpload
    BY <1>0, <1>a, <1>2, <2>1, AnswerStands, UploadQuiet DEF Chunk
  <2>2. CASE ~(upload.size + size > MaxUpload)
    <3>1. upload' = [upload EXCEPT !.size = upload.size + size] /\ upload.pc = "body"
      BY <1>2, <2>2 DEF Chunk, At
    <3>2. upload.size + size \in 0..MaxUpload
      BY <1>a, <2>2, UploadAssumption DEF UploadAssumption, IsUpload
    <3>3. IsUpload(upload') /\ UploadStands(upload')
      BY <1>a, <3>1, <3>2 DEF IsUpload, UploadStands
    <3> QED BY <1>0, <3>3, UploadQuiet
  <2> QED BY <2>1, <2>2
<1>3. ASSUME BodyEnds PROVE UploadInv'
  <2> DEFINE type == Sniffed(upload.type, upload.response.begins)
             name == UploadName(upload.response.disposition, upload.url.last, type)
  <2>1. CASE ~(type \in DOMAIN Extension /\ Accepted(upload.size, name, type))
    <3>1. Answer("refused")  BY <1>3, <2>1 DEF BodyEnds
    <3> QED BY <1>0, <1>a, <3>1, AnswerStands, UploadQuiet
  <2>2. CASE type \in DOMAIN Extension /\ Accepted(upload.size, name, type)
    <3>1. upload' = [upload EXCEPT !.pc = "ready", !.name = name, !.type = type]
      BY <1>3, <2>2 DEF BodyEnds
    <3> HIDE DEF name, type
    <3>2. IsName(upload.response.disposition) /\ IsName(upload.url.last)
      BY <1>a, NamesGiven DEF IsUpload
    <3>3. IsName(name) /\ NameWidth(name) <= MaxName
      BY <2>2, <3>2, UploadNameFits DEF name
    <3>4. upload.response.type \in Unsaid => upload.response.begins = type
      <4>1. upload.type = Aliases(upload.response.type)
        BY <1>3, <1>a DEF BodyEnds, At, UploadStands
      <4> QED BY <4>1 DEF type, Sniffed, Unsaid, Aliases
    <3>5. upload.size \in 1..MaxUpload /\ TypeOf(name.ext) = type
      BY <1>a, <2>2, UploadAssumption DEF UploadAssumption, Accepted, IsUpload
    <3>6. IsUpload(upload')
      BY <1>a, <3>1, <3>3 DEF IsUpload
    <3>7. UploadStands(upload')
      BY <1>a, <3>1, <3>3, <3>4, <3>5 DEF IsUpload, UploadStands, Checked
    <3> QED BY <1>0, <3>6, <3>7, UploadQuiet
  <2> QED BY <2>1, <2>2
<1> QED BY <1>1, <1>2, <1>3

LEMMA ReadUploadStep ==
  ASSUME UploadInv, NEW path \in Paths, ReadUpload(path) PROVE UploadInv'
<1>a. IsUpload(upload) /\ UploadStands(upload)  BY DEF UploadInv
<1>1. CASE RefuseAnotherShare(path) \/ ~path.home
  <2>1. Answer("refused") /\ UNCHANGED <<settings, history>> /\ disk' = disk
    BY <1>1 DEF ReadUpload, history
  <2> QED BY <1>a, <2>1, AnswerStands, UploadQuiet DEF UploadInv
<1>2. CASE ~(RefuseAnotherShare(path) \/ ~path.home)
  <2>1. /\ touched' = touched \cup {path} /\ disk' \in Sizes \cup {Absent}
        /\ IF Inside(path) THEN upload' = [upload EXCEPT !.pc = "looking", !.path = path]
           ELSE Answer("refused")
        /\ UNCHANGED <<settings, asked, looked, sent>> /\ upload.pc = "idle"
    BY <1>2 DEF ReadUpload, At
  <2>2. IsUpload(upload') /\ UploadStands(upload')
    <3>1. CASE Inside(path)
      <4>1. directory' = directory  BY <2>1 DEF settings
      <4> QED BY <1>a, <2>1, <3>1, <4>1 DEF IsUpload, UploadStands, Inside
    <3>2. CASE ~Inside(path)
      BY <1>a, <2>1, <3>2, AnswerStands
    <3> QED BY <3>1, <3>2
  <2>3. disk' \in 0..(MaxUpload + 2)
    BY <2>1, UploadAssumption DEF UploadAssumption, Sizes, Absent
  <2>4. ReachedOnlyWhatIsAllowed'
    BY <1>2, <2>1 DEF UploadInv, settings, ReachedOnlyWhatIsAllowed, RefuseAnotherShare
  <2>5. SentAsAccepted'
    BY <2>1 DEF UploadInv, SentAsAccepted
  <2> QED BY <2>1, <2>2, <2>3, <2>4, <2>5, SettingsStay DEF UploadInv
<1> QED BY <1>1, <1>2

LEMMA FileSteps ==
  ASSUME UploadInv,
         \/ IsFile \/ Stat \/ ReadBytes
         \/ \E size \in Sizes \cup {Absent} : OtherWrites(size)
  PROVE  UploadInv'
<1>a. IsUpload(upload) /\ UploadStands(upload) /\ disk \in 0..(MaxUpload + 2)  BY DEF UploadInv
<1>1. CASE IsFile
  <2>1. /\ looked' = looked \cup {upload.path} /\ upload.pc = "looking"
        /\ UNCHANGED <<settings, disk, asked, touched, sent>>
    BY <1>1 DEF IsFile, At
  <2>2. IsUpload(upload') /\ UploadStands(upload')
    <3>1. CASE disk = Absent
      BY <1>a, <1>1, <3>1, AnswerStands DEF IsFile
    <3>2. CASE disk # Absent
      <4>1. upload' = [upload EXCEPT !.pc = "measuring"]  BY <1>1, <3>2 DEF IsFile, Goto
      <4> QED BY <1>a, <2>1, <4>1 DEF IsUpload, UploadStands
    <3> QED BY <3>1, <3>2
  <2>3. ReachedOnlyWhatIsAllowed'
    <3>1. directory.at # "" => upload.path.leads = directory.at
      BY <1>a, <2>1 DEF UploadStands, Inside
    <3> QED BY <2>1, <3>1 DEF UploadInv, settings, ReachedOnlyWhatIsAllowed
  <2>4. SentAsAccepted'
    BY <2>1 DEF UploadInv, SentAsAccepted
  <2> QED BY <2>1, <2>2, <2>3, <2>4, SettingsStay DEF UploadInv
<1>2. CASE Stat
  <2>1. UNCHANGED <<settings, history>> /\ disk' = disk /\ upload.pc = "measuring"
    BY <1>2 DEF Stat, At
  <2>2. IsUpload(upload') /\ UploadStands(upload')
    <3>1. CASE Answer("refused")
      BY <1>a, <3>1, AnswerStands
    <3>2. CASE upload' = [upload EXCEPT !.pc = "reading", !.type = TypeOf(upload.path.ext),
                                        !.name = [NoName EXCEPT !.ext = upload.path.ext]]
      <4>1. IsName([NoName EXCEPT !.ext = upload.path.ext])
        BY DEF NoName, IsName
      <4> QED BY <1>a, <2>1, <3>2, <4>1 DEF IsUpload, UploadStands
    <3> QED BY <1>2, <3>1, <3>2 DEF Stat
  <2> QED BY <1>a, <2>1, <2>2, UploadQuiet
<1>3. CASE ReadBytes
  <2>1. UNCHANGED <<settings, history>> /\ disk' = disk /\ upload.pc = "reading"
    BY <1>3 DEF ReadBytes, At
  <2>2. IsUpload(upload') /\ UploadStands(upload')
    <3>1. CASE ~Accepted(disk, upload.name, upload.type)
      BY <1>a, <1>3, <3>1, AnswerStands DEF ReadBytes
    <3>2. CASE Accepted(disk, upload.name, upload.type)
      <4>1. upload' = [upload EXCEPT !.pc = "ready", !.size = disk]
        BY <1>3, <3>2 DEF ReadBytes
      <4>2. disk \in 1..MaxUpload /\ TypeOf(upload.name.ext) = upload.type
        BY <1>a, <3>2, UploadAssumption DEF UploadAssumption, Accepted
      <4>3. upload.url = NoUrl  BY <1>a, <2>1 DEF UploadStands
      <4>4. disk \in 0..MaxUpload  BY <4>2, UploadAssumption DEF UploadAssumption
      <4>5. IsUpload(upload')  BY <1>a, <4>1, <4>4 DEF IsUpload
      <4>6. UploadStands(upload')
        BY <1>a, <4>1, <4>2, <4>3 DEF IsUpload, UploadStands, Checked
      <4> QED BY <4>5, <4>6
    <3> QED BY <3>1, <3>2
  <2> QED BY <1>a, <2>1, <2>2, UploadQuiet
<1>4. ASSUME NEW size \in Sizes \cup {Absent}, OtherWrites(size) PROVE UploadInv'
  <2>1. UNCHANGED <<settings, history>> /\ disk' = size /\ upload' = upload /\ directory' = directory
    BY <1>4 DEF OtherWrites, settings
  <2>2. disk' \in 0..(MaxUpload + 2)
    BY <2>1, UploadAssumption DEF UploadAssumption, Sizes, Absent
  <2>3. IsUpload(upload') /\ UploadStands(upload')
    BY <1>a, <2>1 DEF UploadStands, Inside
  <2> QED BY <2>1, <2>2, <2>3, UploadQuiet
<1> QED BY <1>1, <1>2, <1>3, <1>4

LEMMA AnsweredSteps ==
  ASSUME UploadInv, FileUrl \/ FetchFails \/ ReadFails \/ NoKey \/ Cancelled
  PROVE  UploadInv'
<1>1. UNCHANGED <<settings, history>> /\ disk' = disk /\ \E answer : Answer(answer)
  BY DEF FileUrl, FetchFails, ReadFails, NoKey, Cancelled
<1> QED BY <1>1, AnswerStands, UploadQuiet DEF UploadInv

LEMMA PostStep ==
  ASSUME UploadInv, NEW to, Post(to) PROVE UploadInv'
<1> DEFINE file == [to |-> to, size |-> upload.size, name |-> upload.name, type |-> upload.type,
                    url |-> upload.url, said |-> upload.response.type,
                    begins |-> upload.response.begins]
<1>1. /\ sent' = sent \cup {file} /\ Answer("sent")
      /\ UNCHANGED <<settings, disk, asked, touched, looked>> /\ upload.pc = "ready"
  BY DEF Post, At
<1>2. IsUpload(upload') /\ UploadStands(upload')
  BY <1>1, AnswerStands DEF UploadInv
<1>3. SentAsAccepted'
  <2>1. Checked(upload, upload.url, upload.response.type, upload.response.begins)
    BY <1>1 DEF UploadInv, UploadStands
  <2>2. /\ file.size = upload.size /\ file.name = upload.name /\ file.type = upload.type
        /\ file.url = upload.url /\ file.said = upload.response.type
        /\ file.begins = upload.response.begins
    OBVIOUS
  <2> HIDE DEF file
  <2>3. Checked(file, file.url, file.said, file.begins)
    BY <2>1, <2>2 DEF Checked
  <2> QED BY <1>1, <2>3 DEF UploadInv, SentAsAccepted, Checked
<1>4. ReachedOnlyWhatIsAllowed'
  BY <1>1 DEF UploadInv, settings, ReachedOnlyWhatIsAllowed
<1> QED BY <1>1, <1>2, <1>3, <1>4, SettingsStay DEF UploadInv

LEMMA UploadInvNext == UploadInv /\ [UploadNext]_uploadVars => UploadInv'
<1> SUFFICES ASSUME UploadInv, [UploadNext]_uploadVars PROVE UploadInv'  OBVIOUS
<1>1. CASE UNCHANGED uploadVars
  <2>1. UNCHANGED <<settings, history>> /\ disk' = disk /\ upload' = upload /\ directory' = directory
    BY <1>1 DEF uploadVars, settings
  <2>2. IsUpload(upload') /\ UploadStands(upload')
    BY <2>1 DEF UploadInv, UploadStands, Inside
  <2> QED BY <2>1, <2>2, UploadQuiet DEF UploadInv
<1>2. CASE UploadFrom
  BY <1>2, AnsweredSteps, FetchStep, ReadUploadStep DEF UploadFrom
<1>3. CASE UploadFile \/ AttachFile
  BY <1>3, PostStep DEF UploadFile, AttachFile
<1> QED
  BY <1>1, <1>2, <1>3, ResponseSteps, FileSteps, AnsweredSteps DEF UploadNext

LEMMA AlwaysUploadInv == UploadSpec => []UploadInv
  BY UploadInvInit, UploadInvNext, PTL DEF UploadSpec

(* Whatever source a model names and whatever a server answers, a request     *)
(* goes nowhere the setting does not name, however its path is read there     *)
(* (_within, plain_path), and no file outside the directory is looked for.    *)
THEOREM OnlyAllowedIsReached == UploadSpec => []ReachedOnlyWhatIsAllowed
<1>1. UploadInv => ReachedOnlyWhatIsAllowed  BY DEF UploadInv
<1> QED BY <1>1, AlwaysUploadInv, PTL

(* What reaches Lexware is something, no larger than it takes and called what *)
(* it is, whatever a program did to the file between two steps and whatever a *)
(* server declared, and a fetched file's name fits (accepted, upload_name).   *)
THEOREM SentIsAccepted == UploadSpec => []SentAsAccepted
<1>1. UploadInv => SentAsAccepted  BY DEF UploadInv
<1> QED BY <1>1, AlwaysUploadInv, PTL

(* ------------------------------- Updates ------------------------------- *)

\* The books are a sequence of records the service has a place for.
IsRecord(r) == /\ DOMAIN r = {"kind", "doc"} /\ r.kind \in Kinds
               /\ r.doc = Nothing \/ Valid(r.kind, r.doc)

BooksStand(b) == b \in Seq(ToSet(b)) /\ \A i \in DOMAIN b : IsRecord(b[i])

\* What a caller has seen is what the record is, unless that has a later version.
Tracks(b, x) ==
    /\ x.ask.id \in DOMAIN b /\ b[x.ask.id].kind = x.ask.kind
    /\ x.seen.version \in Nat
    /\ LET doc == b[x.ask.id].doc
       IN  doc # Nothing => /\ doc.version >= x.seen.version
                            /\ doc.version = x.seen.version
                                  => View(x.by, x.ask.kind, doc) = x.seen

\* And so is what the tool has read again.
RestsOn(b, x) ==
    /\ Valid(x.ask.kind, x.base)
    /\ LET doc == b[x.ask.id].doc
       IN  doc # Nothing => /\ doc.version >= x.base.version
                            /\ doc.version = x.base.version => doc = x.base

\* A request holds what its tool makes of what it was given and has read.
Made(x) ==
    /\ x.ask.does = "create" => x.body = Creation(x.ask.kind, x.ask.args)
    /\ x.ask.does = "update" =>
          /\ x.base.version = x.seen.version
          /\ x.ask.kind = "contact" => ~UpdateContactRefuses(x.base, x.ask.args)
          /\ x.body = Replacement(x.ask.kind, x.base, x.ask.args)

CallPcs == {"idle", "found", "looked", "read", "sent", "ended"}

CallStands(c, x, on, b) ==
    /\ DOMAIN x = {"pc", "ask", "by", "seen", "base", "body", "told"} /\ x.pc \in CallPcs
    /\ on => x.pc \in {"sent", "ended"}
    /\ x.pc \in CallPcs \ {"idle", "ended"} \/ on => x.ask \in Asks[c]
    /\ x.pc = "read" \/ on => ~RefusedAtOnce(x.ask)
    /\ x.pc = "read" => x.ask.does = "update"
    /\ (x.pc \in {"looked", "read"} \/ on) /\ x.ask.does = "update" => Tracks(b, x)
    /\ (x.pc = "read" \/ on) /\ x.ask.does = "update" => RestsOn(b, x)
    /\ on => Made(x)

WriteInv == /\ BooksStand(books) /\ wire \subseteq Calls
            /\ DOMAIN call = Calls
            /\ \A c \in Calls : CallStands(c, call[c], c \in wire, books)
------------------------------------------------------------------------------
\* Objects, and what is laid over them.
LEMMA Laid ==
  ASSUME NEW a, NEW b
  PROVE  /\ DOMAIN (a ++ b) = DOMAIN a \cup DOMAIN b
         /\ \A f \in DOMAIN a : (a ++ b)[f] = a[f]
         /\ \A f \in DOMAIN b : f \notin DOMAIN a => (a ++ b)[f] = b[f]
  BY DEF ++

LEMMA LaidUnder ==
  ASSUME NEW a, NEW b, NEW f, f \notin DOMAIN a, f \in DOMAIN b
  PROVE  f \in DOMAIN (a ++ b) /\ (a ++ b)[f] = b[f]
  BY DEF ++

LEMMA LaidOver ==
  ASSUME NEW a, NEW b, NEW f, f \in DOMAIN a
  PROVE  f \in DOMAIN (a ++ b) /\ (a ++ b)[f] = a[f]
  BY DEF ++

LEMMA NothingIsEmpty == DOMAIN Nothing = {}
  BY DEF Nothing

LEMMA SoleIs ==
  ASSUME NEW f, NEW v PROVE DOMAIN Sole(f, v) = {f} /\ Sole(f, v)[f] = v /\ Sole(f, v) # Nothing
  BY NothingIsEmpty DEF Sole

LEMMA PutIs ==
  ASSUME NEW f, NEW v
  PROVE  /\ v = Nothing => DOMAIN Put(f, v) = {}
         /\ v # Nothing => DOMAIN Put(f, v) = {f} /\ Put(f, v)[f] = v
  BY SoleIs, NothingIsEmpty DEF Put

LEMMA PutWithin == \A f, v : DOMAIN Put(f, v) \subseteq {f}
  BY PutIs

\* A table of fields that names none twice.
Tabled(names) == \A g, h \in DOMAIN names : names[g] = names[h] => g = h

LEMMA MentionedIs ==
  ASSUME NEW args, NEW names
  PROVE  /\ \A f \in DOMAIN Mentioned(args, names) :
               \E g \in DOMAIN args \cap DOMAIN names : names[g] = f
         /\ \A g \in DOMAIN args \cap DOMAIN names :
               names[g] \in DOMAIN Mentioned(args, names)
         /\ Tabled(names) => \A g \in DOMAIN args \cap DOMAIN names :
                                Mentioned(args, names)[names[g]] = args[g]
<1> DEFINE given == DOMAIN args \cap DOMAIN names
           fields == {names[g] : g \in given}
<1>1. Mentioned(args, names) = [f \in fields |-> args[CHOOSE g \in given : names[g] = f]]
  BY DEF Mentioned
<1>2. ASSUME Tabled(names), NEW g \in given PROVE (CHOOSE h \in given : names[h] = names[g]) = g
  BY <1>2 DEF Tabled
<1> QED BY <1>1, <1>2

LEMMA BaseIs ==
  ASSUME NEW base
  PROVE  /\ base # Nothing => Base(base) = base
         /\ Base(Nothing) = [version |-> 0]
  BY DEF Base
------------------------------------------------------------------------------
\* Where the fields of a contact's body come from.
Noted(args) == Mentioned(args, [note |-> "note"])

CompanyFields == [name |-> "name", tax_number |-> "taxNumber",
                  vat_registration_id |-> "vatRegistrationId"]
PersonFields == [name |-> "lastName", first_name |-> "firstName", salutation |-> "salutation"]
AddressFields == [billing_address |-> "billing", shipping_address |-> "shipping"]

LEMMA ContactTables ==
  /\ Tabled(CompanyFields) /\ DOMAIN CompanyFields = {"name", "tax_number", "vat_registration_id"}
  /\ Tabled(PersonFields) /\ DOMAIN PersonFields = {"name", "first_name", "salutation"}
  /\ Tabled(AddressFields) /\ DOMAIN AddressFields = {"billing_address", "shipping_address"}
  BY DEF Tabled, CompanyFields, PersonFields, AddressFields

LEMMA NotedIs ==
  ASSUME NEW args
  PROVE  /\ DOMAIN Noted(args) = {"note"} \cap DOMAIN args
         /\ Given(args, "note") => Noted(args)["note"] = args["note"]
<1> DEFINE names == [note |-> "note"]
<1>1. Tabled(names) /\ DOMAIN names = {"note"} /\ names["note"] = "note"  BY DEF Tabled
<1> HIDE DEF names
<1>2. Noted(args) = Mentioned(args, names)  BY DEF Noted, names
<1> QED BY <1>1, <1>2, MentionedIs DEF Given

LEMMA RolesOfIs ==
  ASSUME NEW base, NEW args
  PROVE  /\ Given(args, "roles") =>
               /\ DOMAIN RolesOf(base, args) = {"roles"}
               /\ RolesOf(base, args).roles = RolesBody(Block(base, "roles"), args.roles)
         /\ ~Given(args, "roles") /\ Given(base, "roles") => DOMAIN RolesOf(base, args) = {}
         /\ ~Given(args, "roles") /\ ~Given(base, "roles") =>
               /\ DOMAIN RolesOf(base, args) = {"roles"}
               /\ RolesOf(base, args).roles = [customer |-> Nothing]
  BY NothingIsEmpty DEF RolesOf, Given

\* The block a contact's own fields are in.
Own(base, args) == IF IsCompany(base, args) THEN "company" ELSE "person"
OwnFields(base, args) ==
    Mentioned(args, IF IsCompany(base, args) THEN CompanyFields ELSE PersonFields)
        ++ Block(base, Own(base, args))

LEMMA IdentityIs ==
  ASSUME NEW base, NEW args
  PROVE  Identity(base, args) = Put(Own(base, args), OwnFields(base, args))
  BY DEF Identity, Own, OwnFields, CompanyFields, PersonFields

LEMMA ReachabilityIs ==
  ASSUME NEW base, NEW args, NEW default
  PROVE  /\ DOMAIN Reachability(base, args, default) =
              {f \in {"emailAddresses", "phoneNumbers"} :
                 \/ f = "emailAddresses" /\ Given(args, "email")
                 \/ f = "phoneNumbers" /\ Given(args, "phone")}
         /\ Given(args, "email") => Reachability(base, args, default)["emailAddresses"]
                 = Sole(Kind(Block(base, "emailAddresses"), default), <<args["email"]>>)
         /\ Given(args, "phone") => Reachability(base, args, default)["phoneNumbers"]
                 = Sole(Kind(Block(base, "phoneNumbers"), default), <<args["phone"]>>)
<1> DEFINE Replaced(arg, f) == IF Given(args, arg)
                               THEN Sole(f, Sole(Kind(Block(base, f), default), <<args[arg]>>))
                               ELSE Nothing
<1>1. Reachability(base, args, default) = Replaced("email", "emailAddresses")
                                          ++ Replaced("phone", "phoneNumbers")
  BY DEF Reachability
<1>2. \A arg, f : DOMAIN Replaced(arg, f) = IF Given(args, arg) THEN {f} ELSE {}
  BY SoleIs, NothingIsEmpty
<1>3. DOMAIN Reachability(base, args, default) = DOMAIN Replaced("email", "emailAddresses")
                                                 \cup DOMAIN Replaced("phone", "phoneNumbers")
  <2> HIDE DEF Replaced
  <2> QED BY <1>1, Laid
<1>4. /\ DOMAIN Replaced("email", "emailAddresses")
           = IF Given(args, "email") THEN {"emailAddresses"} ELSE {}
      /\ DOMAIN Replaced("phone", "phoneNumbers")
           = IF Given(args, "phone") THEN {"phoneNumbers"} ELSE {}
  BY <1>2
<1>5. /\ Given(args, "email") => Replaced("email", "emailAddresses")["emailAddresses"]
               = Sole(Kind(Block(base, "emailAddresses"), default), <<args["email"]>>)
      /\ Given(args, "phone") => Replaced("phone", "phoneNumbers")["phoneNumbers"]
               = Sole(Kind(Block(base, "phoneNumbers"), default), <<args["phone"]>>)
  BY SoleIs
<1> HIDE DEF Replaced
<1> DEFINE e == Replaced("email", "emailAddresses")
           t == Replaced("phone", "phoneNumbers")
           r == e ++ t
<1>6. /\ \A f \in DOMAIN e : r[f] = e[f]
      /\ \A f \in DOMAIN t : f \notin DOMAIN e => r[f] = t[f]
  BY Laid
<1>7. Reachability(base, args, default) = r  BY <1>1
<1> HIDE DEF r
<1>8. /\ Given(args, "email") => r["emailAddresses"] = e["emailAddresses"]
      /\ Given(args, "phone") => r["phoneNumbers"] = t["phoneNumbers"]
  BY <1>4, <1>6
<1> QED BY <1>3, <1>4, <1>5, <1>7, <1>8

\* A category in use is one, and there is one where their number is not zero.
LEMMA KindIs ==
  ASSUME NEW current, NEW default, Cardinality(InUse(current)) = 1
  PROVE  Kind(current, default) \in InUse(current)
<1>1. InUse(current) # {}
  <2>1. Cardinality({}) = 0  BY FS_EmptySet
  <2> QED BY <2>1
<1> QED BY <1>1 DEF Kind

Addressed(base, args) == Mentioned(args, AddressFields) ++ Block(base, "addresses")

LEMMA AddressesIs ==
  ASSUME NEW base, NEW args
  PROVE  Addresses(base, args) = Put("addresses", Addressed(base, args))
  BY DEF Addresses, Addressed, AddressFields

Default(base, args) == IF IsCompany(base, args) THEN "business" ELSE "private"

\* Each field is the part's that is named for it, or the base's.
ContactTakes(body, base, args) ==
    /\ \A f \in DOMAIN Base(base) :
          /\ f \in DOMAIN body
          /\ f \notin {"roles", "company", "person", "emailAddresses", "phoneNumbers",
                       "addresses", "note"} => body[f] = Base(base)[f]
    /\ \A f \in DOMAIN body \ DOMAIN Base(base) :
          f \in {"roles", "company", "person", "emailAddresses", "phoneNumbers",
                 "addresses", "note"}

Part(body, part, base, f) ==
    /\ f \in DOMAIN body <=> f \in DOMAIN part \cup DOMAIN Base(base)
    /\ f \in DOMAIN part => body[f] = part[f]
    /\ f \in DOMAIN Base(base) \ DOMAIN part => body[f] = Base(base)[f]

\* Each field is the first's that has it.
FirstOfSix(body, a, b, r, d, n, o) ==
    /\ DOMAIN body = DOMAIN a \cup DOMAIN b \cup DOMAIN r \cup DOMAIN d \cup DOMAIN n \cup DOMAIN o
    /\ \A f : f \in DOMAIN a => body[f] = a[f]
    /\ \A f : f \in DOMAIN b /\ f \notin DOMAIN a => body[f] = b[f]
    /\ \A f : f \in DOMAIN r /\ f \notin DOMAIN a \cup DOMAIN b => body[f] = r[f]
    /\ \A f : f \in DOMAIN d /\ f \notin DOMAIN a \cup DOMAIN b \cup DOMAIN r => body[f] = d[f]
    /\ \A f : f \in DOMAIN n /\ f \notin DOMAIN a \cup DOMAIN b \cup DOMAIN r \cup DOMAIN d
              => body[f] = n[f]
    /\ \A f : /\ f \in DOMAIN o
              /\ f \notin DOMAIN a \cup DOMAIN b \cup DOMAIN r \cup DOMAIN d \cup DOMAIN n
              => body[f] = o[f]

LEMMA LaidSix ==
  ASSUME NEW a, NEW b, NEW r, NEW d, NEW n, NEW o
  PROVE  FirstOfSix(a ++ b ++ r ++ d ++ n ++ o, a, b, r, d, n, o)
<1> DEFINE p == a ++ b
           q == p ++ r
           s == q ++ d
           t == s ++ n
           body == t ++ o
<1>1. /\ DOMAIN p = DOMAIN a \cup DOMAIN b
      /\ \A f \in DOMAIN a : p[f] = a[f]
      /\ \A f \in DOMAIN b : f \notin DOMAIN a => p[f] = b[f]
  BY Laid
<1> HIDE DEF p
<1>2. /\ DOMAIN q = DOMAIN p \cup DOMAIN r
      /\ \A f \in DOMAIN p : q[f] = p[f]
      /\ \A f \in DOMAIN r : f \notin DOMAIN p => q[f] = r[f]
  BY Laid
<1> HIDE DEF q
<1>3. /\ DOMAIN s = DOMAIN q \cup DOMAIN d
      /\ \A f \in DOMAIN q : s[f] = q[f]
      /\ \A f \in DOMAIN d : f \notin DOMAIN q => s[f] = d[f]
  BY Laid
<1> HIDE DEF s
<1>4. /\ DOMAIN t = DOMAIN s \cup DOMAIN n
      /\ \A f \in DOMAIN s : t[f] = s[f]
      /\ \A f \in DOMAIN n : f \notin DOMAIN s => t[f] = n[f]
  BY Laid
<1> HIDE DEF t
<1>5. /\ DOMAIN body = DOMAIN t \cup DOMAIN o
      /\ \A f \in DOMAIN t : body[f] = t[f]
      /\ \A f \in DOMAIN o : f \notin DOMAIN t => body[f] = o[f]
  BY Laid
<1>6. body = a ++ b ++ r ++ d ++ n ++ o  BY DEF p, q, s, t
<1> HIDE DEF body
<1>7. FirstOfSix(body, a, b, r, d, n, o)
  BY <1>1, <1>2, <1>3, <1>4, <1>5 DEF FirstOfSix
<1> QED BY <1>6, <1>7

LEMMA ContactBodyIs ==
  ASSUME NEW base, NEW args
  PROVE  LET body == ContactBody(base, args)
         IN  /\ ContactTakes(body, base, args)
             /\ Part(body, RolesOf(base, args), base, "roles")
             /\ Part(body, Identity(base, args), base, "company")
             /\ Part(body, Identity(base, args), base, "person")
             /\ \A f \in {"emailAddresses", "phoneNumbers"} :
                   Part(body, Reachability(base, args, Default(base, args)), base, f)
             /\ Part(body, Addresses(base, args), base, "addresses")
             /\ Part(body, Noted(args), base, "note")
<1> DEFINE a == RolesOf(base, args)
           b == Identity(base, args)
           r == Reachability(base, args, Default(base, args))
           d == Addresses(base, args)
           n == Noted(args)
           o == Base(base)
           body == a ++ b ++ r ++ d ++ n ++ o
<1>1. ContactBody(base, args) = body
  BY DEF ContactBody, Noted, Default
<1>2. /\ DOMAIN a \subseteq {"roles"} /\ DOMAIN b \subseteq {"company", "person"}
      /\ DOMAIN r \subseteq {"emailAddresses", "phoneNumbers"}
      /\ DOMAIN d \subseteq {"addresses"} /\ DOMAIN n \subseteq {"note"}
  <2>1. DOMAIN a \subseteq {"roles"}  BY RolesOfIs
  <2>2. DOMAIN b \subseteq {"company", "person"}  BY IdentityIs, PutWithin DEF Own
  <2>3. DOMAIN r \subseteq {"emailAddresses", "phoneNumbers"}
    <3> HIDE DEF a, b, d, n, o, body
    <3> QED BY ReachabilityIs
  <2>4. DOMAIN d \subseteq {"addresses"}  BY AddressesIs, PutWithin
  <2>5. DOMAIN n \subseteq {"note"}  BY NotedIs
  <2> QED BY <2>1, <2>2, <2>3, <2>4, <2>5
<1> HIDE DEF a, b, r, d, n, o
<1>3. FirstOfSix(body, a, b, r, d, n, o)
  BY LaidSix DEF body
<1> HIDE DEF body
<1>4. ContactTakes(body, base, args)
  BY <1>2, <1>3 DEF FirstOfSix, ContactTakes, o
<1>5. Part(body, a, base, "roles") /\ Part(body, b, base, "company") /\ Part(body, b, base, "person")
  BY <1>2, <1>3 DEF FirstOfSix, Part, o
<1>6. /\ \A f \in {"emailAddresses", "phoneNumbers"} : Part(body, r, base, f)
      /\ Part(body, d, base, "addresses") /\ Part(body, n, base, "note")
  BY <1>2, <1>3 DEF FirstOfSix, Part, o
<1> QED BY <1>1, <1>4, <1>5, <1>6 DEF a, b, r, d, n
------------------------------------------------------------------------------
\* Where the fields of a voucher's body come from.
TotalFields == [total_tax_amount |-> "totalTaxAmount", total_gross_amount |-> "totalGrossAmount"]
LineFields == [items |-> "voucherItems"] ++ VoucherFields

LEMMA VoucherTables ==
  /\ Tabled(TotalFields) /\ DOMAIN TotalFields = {"total_tax_amount", "total_gross_amount"}
  /\ Tabled(LineFields)
  /\ DOMAIN LineFields = {"items", "voucher_type", "voucher_number", "voucher_date", "due_date",
                          "shipping_date", "tax_type", "remark"}
  /\ LineFields["items"] = "voucherItems" /\ LineFields["tax_type"] = "taxType"
  /\ LineFields["voucher_number"] = "voucherNumber" /\ LineFields["remark"] = "remark"
  /\ LineFields["voucher_date"] = "voucherDate" /\ LineFields["due_date"] = "dueDate"
  /\ \A g \in DOMAIN LineFields :
        LineFields[g] \in {"voucherItems", "type", "voucherNumber", "voucherDate", "dueDate",
                           "shippingDate", "taxType", "remark"}
<1>1. Tabled(TotalFields) /\ DOMAIN TotalFields = {"total_tax_amount", "total_gross_amount"}
  BY DEF Tabled, TotalFields
<1> DEFINE first == [items |-> "voucherItems"]
<1>2. DOMAIN first = {"items"} /\ first["items"] = "voucherItems"  OBVIOUS
<1>3. /\ DOMAIN VoucherFields = {"voucher_type", "voucher_number", "voucher_date", "due_date",
                                 "shipping_date", "tax_type", "remark"}
      /\ VoucherFields["voucher_type"] = "type" /\ VoucherFields["voucher_number"] = "voucherNumber"
      /\ VoucherFields["voucher_date"] = "voucherDate" /\ VoucherFields["due_date"] = "dueDate"
      /\ VoucherFields["shipping_date"] = "shippingDate" /\ VoucherFields["tax_type"] = "taxType"
      /\ VoucherFields["remark"] = "remark"
  BY DEF VoucherFields
<1> HIDE DEF first
<1>4. LineFields = first ++ VoucherFields  BY DEF LineFields, first
<1>5. /\ DOMAIN LineFields = DOMAIN first \cup DOMAIN VoucherFields
      /\ LineFields["items"] = "voucherItems"
      /\ \A g \in DOMAIN VoucherFields : LineFields[g] = VoucherFields[g]
  <2> DEFINE names == first ++ VoucherFields
  <2>0. /\ DOMAIN names = DOMAIN first \cup DOMAIN VoucherFields
        /\ \A f \in DOMAIN first : names[f] = first[f]
        /\ \A f \in DOMAIN VoucherFields : f \notin DOMAIN first => names[f] = VoucherFields[f]
    BY Laid
  <2>1. /\ DOMAIN LineFields = DOMAIN first \cup DOMAIN VoucherFields
        /\ \A f \in DOMAIN first : LineFields[f] = first[f]
        /\ \A f \in DOMAIN VoucherFields : f \notin DOMAIN first => LineFields[f] = VoucherFields[f]
    BY <1>4, <2>0
  <2> QED BY <1>2, <1>3, <2>1
<1>6. Tabled(LineFields)  BY <1>2, <1>3, <1>5 DEF Tabled
<1> QED BY <1>1, <1>2, <1>3, <1>5, <1>6

Totalled(args) == Mentioned(args, TotalFields)
Lined(args) == Mentioned(args, LineFields)
Status(args) == IF Finalizes(args) THEN [voucherStatus |-> "open"] ELSE Nothing
KeptOf(base, args) ==
    Without(Base(base), VoucherPutDrop \cup IF LeavesContact(args) THEN {"contactId"} ELSE {})
Unsummed(base, args) == Lined(args) ++ VoucherContact(args) ++ Status(args) ++ KeptOf(base, args)
Summed(base, args) ==
    LET lines == Field(Unsummed(base, args), "voucherItems", << >>)
    IN  IF Derives(base, args)
        THEN [totalTaxAmount |-> TaxTotal(lines),
              totalGrossAmount |-> GrossTotal(lines, Field(Unsummed(base, args), "taxType", "none"))]
        ELSE Nothing

LEMMA VoucherBodyParts ==
  ASSUME NEW base, NEW args
  PROVE  VoucherBody(base, args) = (Totalled(args) ++ Summed(base, args)) ++ Unsummed(base, args)
  BY Zenon
  DEF VoucherBody, Totalled, Summed, Unsummed, Lined, Status, KeptOf, TotalFields, LineFields

LEMMA VoucherBodyIs ==
  ASSUME NEW base, NEW args
  PROVE  /\ VoucherBody(base, args) = (Totalled(args) ++ Summed(base, args)) ++ Unsummed(base, args)
         /\ FirstOfSix(VoucherBody(base, args), Totalled(args), Summed(base, args), Lined(args),
                       VoucherContact(args), Status(args), KeptOf(base, args))
<1> DEFINE m == Totalled(args)
           v == Summed(base, args)
           i == Lined(args)
           c == VoucherContact(args)
           s == Status(args)
           k == KeptOf(base, args)
           p == i ++ c
           q == p ++ s
           u == q ++ k
           t == m ++ v
           body == t ++ u
<1>1. Unsummed(base, args) = u  BY DEF Unsummed
<1>2. VoucherBody(base, args) = t ++ Unsummed(base, args)
  BY VoucherBodyParts
<1> HIDE DEF m, v, i, c, s, k
<1>3. /\ DOMAIN p = DOMAIN i \cup DOMAIN c
      /\ \A f \in DOMAIN i : p[f] = i[f]
      /\ \A f \in DOMAIN c : f \notin DOMAIN i => p[f] = c[f]
  BY Laid
<1> HIDE DEF p
<1>4. /\ DOMAIN q = DOMAIN p \cup DOMAIN s
      /\ \A f \in DOMAIN p : q[f] = p[f]
      /\ \A f \in DOMAIN s : f \notin DOMAIN p => q[f] = s[f]
  BY Laid
<1> HIDE DEF q
<1>5. /\ DOMAIN u = DOMAIN q \cup DOMAIN k
      /\ \A f \in DOMAIN q : u[f] = q[f]
      /\ \A f \in DOMAIN k : f \notin DOMAIN q => u[f] = k[f]
  BY Laid
<1> HIDE DEF u
<1>6. /\ DOMAIN t = DOMAIN m \cup DOMAIN v
      /\ \A f \in DOMAIN m : t[f] = m[f]
      /\ \A f \in DOMAIN v : f \notin DOMAIN m => t[f] = v[f]
  BY Laid
<1> HIDE DEF t
<1>7. /\ DOMAIN body = DOMAIN t \cup DOMAIN u
      /\ \A f \in DOMAIN t : body[f] = t[f]
      /\ \A f \in DOMAIN u : f \notin DOMAIN t => body[f] = u[f]
  BY Laid
<1>8. VoucherBody(base, args) = body  BY <1>1, <1>2
<1> HIDE DEF body
<1>9. FirstOfSix(body, m, v, i, c, s, k)
  BY <1>3, <1>4, <1>5, <1>6, <1>7 DEF FirstOfSix
<1> QED BY <1>1, <1>2, <1>8, <1>9 DEF m, v, i, c, s, k, t

VoucherLines == {"voucherItems", "type", "voucherNumber", "voucherDate", "dueDate", "shippingDate",
                 "taxType", "remark"}

LEMMA TotalledIs ==
  ASSUME NEW args PROVE DOMAIN Totalled(args) \subseteq {"totalTaxAmount", "totalGrossAmount"}
<1>1. \A g \in DOMAIN TotalFields : TotalFields[g] \in {"totalTaxAmount", "totalGrossAmount"}
  BY DEF TotalFields
<1> QED BY <1>1, MentionedIs DEF Totalled

LEMMA SummedIs ==
  ASSUME NEW base, NEW args
  PROVE  DOMAIN Summed(base, args)
           = IF Derives(base, args) THEN {"totalTaxAmount", "totalGrossAmount"} ELSE {}
<1>1. \A x, y : DOMAIN [totalTaxAmount |-> x, totalGrossAmount |-> y]
                  = {"totalTaxAmount", "totalGrossAmount"}
  OBVIOUS
<1> QED BY <1>1, NothingIsEmpty DEF Summed

LEMMA LinedIs ==
  ASSUME NEW args PROVE DOMAIN Lined(args) \subseteq VoucherLines
  BY VoucherTables, MentionedIs DEF Lined, VoucherLines

LEMMA VoucherContactIs ==
  ASSUME NEW args
  PROVE  /\ DOMAIN VoucherContact(args) \subseteq {"contactId", "useCollectiveContact"}
         /\ Given(args, "contact_id") =>
               /\ DOMAIN VoucherContact(args) = {"contactId", "useCollectiveContact"}
               /\ VoucherContact(args)["contactId"] = args["contact_id"]
               /\ VoucherContact(args)["useCollectiveContact"] = FALSE
         /\ ~Given(args, "contact_id") =>
               /\ DOMAIN VoucherContact(args)
                    = IF Given(args, "use_collective_contact") THEN {"useCollectiveContact"} ELSE {}
               /\ Given(args, "use_collective_contact") =>
                    VoucherContact(args)["useCollectiveContact"] = args["use_collective_contact"]
<1> DEFINE names == [use_collective_contact |-> "useCollectiveContact"]
           named == [contactId |-> args["contact_id"], useCollectiveContact |-> FALSE]
<1>1. /\ DOMAIN named = {"contactId", "useCollectiveContact"}
      /\ named["contactId"] = args["contact_id"] /\ named["useCollectiveContact"] = FALSE
  OBVIOUS
<1>2. /\ DOMAIN names = {"use_collective_contact"} /\ Tabled(names)
      /\ names["use_collective_contact"] = "useCollectiveContact"
  BY DEF Tabled
<1>3. VoucherContact(args) = IF Given(args, "contact_id") THEN named ELSE Mentioned(args, names)
  BY DEF VoucherContact
<1> HIDE DEF names, named
<1>4. CASE Given(args, "contact_id")  BY <1>1, <1>3, <1>4
<1>5. CASE ~Given(args, "contact_id")
  <2> DEFINE said == Mentioned(args, names)
  <2>1. /\ DOMAIN said
             = IF Given(args, "use_collective_contact") THEN {"useCollectiveContact"} ELSE {}
        /\ Given(args, "use_collective_contact") =>
              said["useCollectiveContact"] = args["use_collective_contact"]
    <3>1. /\ \A f \in DOMAIN said : \E g \in DOMAIN args \cap DOMAIN names : names[g] = f
          /\ \A g \in DOMAIN args \cap DOMAIN names : names[g] \in DOMAIN said
          /\ \A g \in DOMAIN args \cap DOMAIN names : said[names[g]] = args[g]
      BY <1>2, MentionedIs
    <3> HIDE DEF said
    <3> QED BY <1>2, <3>1 DEF Given
  <2> HIDE DEF said
  <2> QED BY <1>3, <1>5, <2>1 DEF said
<1> QED BY <1>4, <1>5

LEMMA StatusIs ==
  ASSUME NEW args
  PROVE  /\ DOMAIN Status(args) = IF Finalizes(args) THEN {"voucherStatus"} ELSE {}
         /\ Finalizes(args) => Status(args)["voucherStatus"] = "open"
  BY NothingIsEmpty DEF Status

LEMMA KeptIs ==
  ASSUME NEW base, NEW args
  PROVE  /\ DOMAIN KeptOf(base, args)
              = DOMAIN Base(base) \ (VoucherPutDrop
                                     \cup IF LeavesContact(args) THEN {"contactId"} ELSE {})
         /\ \A f \in DOMAIN KeptOf(base, args) : KeptOf(base, args)[f] = Base(base)[f]
<1> DEFINE dropped == VoucherPutDrop \cup IF LeavesContact(args) THEN {"contactId"} ELSE {}
<1>1. KeptOf(base, args) = Without(Base(base), dropped)  BY DEF KeptOf
<1> HIDE DEF dropped
<1> DEFINE kept == Without(Base(base), dropped)
<1>2. /\ DOMAIN kept = DOMAIN Base(base) \ dropped
      /\ \A f \in DOMAIN kept : kept[f] = Base(base)[f]
  BY DEF Without
<1>3. KeptOf(base, args) = kept  BY <1>1
<1> HIDE DEF kept
<1> QED BY <1>2, <1>3 DEF dropped
------------------------------------------------------------------------------
\* Where the fields of an article's body come from.
ArticleFields == [title |-> "title", article_type |-> "type", unit_name |-> "unitName",
                  article_number |-> "articleNumber", gtin |-> "gtin",
                  description |-> "description", note |-> "note"]

LEMMA ArticleTables ==
  /\ Tabled(ArticleFields)
  /\ DOMAIN ArticleFields = {"title", "article_type", "unit_name", "article_number", "gtin",
                             "description", "note"}
  /\ ArticleFields["title"] = "title" /\ ArticleFields["unit_name"] = "unitName"
  /\ ArticleFields["note"] = "note" /\ ArticleFields["article_type"] = "type"
  /\ ArticleFields["article_number"] = "articleNumber" /\ ArticleFields["gtin"] = "gtin"
  /\ ArticleFields["description"] = "description"
  /\ \A g \in DOMAIN ArticleFields :
        ArticleFields[g] \in {"title", "type", "unitName", "articleNumber", "gtin",
                              "description", "note"}
  BY DEF Tabled, ArticleFields

Described(args) == Mentioned(args, ArticleFields)
PricePart(base, args) == PriceSent(PriceBody(Block(base, "price"), args))
PriceSends(price) == Without(price, DOMAIN price \ PriceKeys)
ArticleKept(base) == Without(Base(base), ArticlePutDrop)

LEMMA ArticleBodyIs ==
  ASSUME NEW base, NEW args
  PROVE  LET body == ArticleBody(base, args)
         IN  /\ DOMAIN body = DOMAIN PricePart(base, args) \cup DOMAIN Described(args)
                              \cup DOMAIN ArticleKept(base)
             /\ \A f \in DOMAIN PricePart(base, args) : body[f] = PricePart(base, args)[f]
             /\ \A f \in DOMAIN Described(args) :
                   f \notin DOMAIN PricePart(base, args) => body[f] = Described(args)[f]
             /\ \A f \in DOMAIN ArticleKept(base) :
                   f \notin DOMAIN PricePart(base, args) \cup DOMAIN Described(args)
                      => body[f] = ArticleKept(base)[f]
<1> DEFINE a == PricePart(base, args)
           d == Described(args)
           k == ArticleKept(base)
           p == a ++ d
           body == p ++ k
<1>1. ArticleBody(base, args) = body
  BY DEF ArticleBody, PricePart, Described, ArticleKept, ArticleFields
<1> HIDE DEF a, d, k
<1>2. /\ DOMAIN p = DOMAIN a \cup DOMAIN d
      /\ \A f \in DOMAIN a : p[f] = a[f]
      /\ \A f \in DOMAIN d : f \notin DOMAIN a => p[f] = d[f]
  BY Laid
<1> HIDE DEF p
<1>3. /\ DOMAIN body = DOMAIN p \cup DOMAIN k
      /\ \A f \in DOMAIN p : body[f] = p[f]
      /\ \A f \in DOMAIN k : f \notin DOMAIN p => body[f] = k[f]
  BY Laid
<1> HIDE DEF body
<1> QED BY <1>1, <1>2, <1>3 DEF a, d, k

LEMMA ArticlePartsAre ==
  ASSUME NEW base, NEW args
  PROVE  /\ DOMAIN PricePart(base, args) \subseteq {"price"}
         /\ DOMAIN Described(args) \subseteq {"title", "type", "unitName", "articleNumber", "gtin",
                                              "description", "note"}
         /\ DOMAIN ArticleKept(base) = DOMAIN Base(base) \ ArticlePutDrop
         /\ \A f \in DOMAIN ArticleKept(base) : ArticleKept(base)[f] = Base(base)[f]
<1>1. DOMAIN PricePart(base, args) \subseteq {"price"}
  BY NothingIsEmpty, SoleIs DEF PricePart, PriceSent
<1>2. DOMAIN Described(args) \subseteq {"title", "type", "unitName", "articleNumber", "gtin",
                                        "description", "note"}
  BY ArticleTables, MentionedIs DEF Described
<1>3. /\ DOMAIN ArticleKept(base) = DOMAIN Base(base) \ ArticlePutDrop
      /\ \A f \in DOMAIN ArticleKept(base) : ArticleKept(base)[f] = Base(base)[f]
  BY DEF ArticleKept, Without
<1> QED BY <1>1, <1>2, <1>3

------------------------------------------------------------------------------
\* A body made on a record has its version, and so has what a caller is shown.
LEMMA ReplacementKeepsVersion ==
  ASSUME NEW kind \in {"contact", "voucher", "article"}, NEW base, Valid(kind, base), NEW args
  PROVE  /\ "version" \in DOMAIN Replacement(kind, base, args)
         /\ Replacement(kind, base, args).version = base.version
<1>1. Base(base) = base /\ "version" \in DOMAIN base
  BY BaseIs, NothingIsEmpty DEF Valid
<1>2. CASE kind = "contact"
  <2>1. ContactTakes(ContactBody(base, args), base, args)  BY ContactBodyIs
  <2>2. /\ "version" \in DOMAIN ContactBody(base, args)
        /\ ContactBody(base, args).version = base.version
    BY <1>1, <2>1 DEF ContactTakes
  <2> QED BY <1>2, <2>2 DEF Replacement, UpdateContact
<1>3. CASE kind = "voucher"
  <2> DEFINE body == VoucherBody(base, args)
  <2>1. FirstOfSix(body, Totalled(args), Summed(base, args), Lined(args),
                   VoucherContact(args), Status(args), KeptOf(base, args))
    BY VoucherBodyIs
  <2> HIDE DEF body
  <2>2. "version" \in DOMAIN KeptOf(base, args) /\ KeptOf(base, args).version = base.version
    BY <1>1, KeptIs DEF VoucherPutDrop
  <2>3. "version" \notin DOMAIN Totalled(args) \cup DOMAIN Summed(base, args) \cup DOMAIN Lined(args)
                         \cup DOMAIN VoucherContact(args) \cup DOMAIN Status(args)
    <3>1. "version" \notin DOMAIN Totalled(args) /\ "version" \notin DOMAIN Summed(base, args)
      BY TotalledIs, SummedIs
    <3>2. "version" \notin DOMAIN Lined(args)  BY LinedIs DEF VoucherLines
    <3>3. DOMAIN VoucherContact(args) \subseteq {"contactId", "useCollectiveContact"}
      BY VoucherContactIs
    <3>4. DOMAIN Status(args) \subseteq {"voucherStatus"}  BY StatusIs
    <3> QED BY <3>1, <3>2, <3>3, <3>4
  <2>4. "version" \in DOMAIN body /\ body.version = base.version
    BY <2>1, <2>2, <2>3 DEF FirstOfSix
  <2> QED BY <1>3, <2>4 DEF body, Replacement, UpdateVoucher
<1>4. CASE kind = "article"
  <2>1. "version" \in DOMAIN ArticleKept(base) /\ ArticleKept(base).version = base.version
    BY <1>1, ArticlePartsAre DEF ArticlePutDrop
  <2>2. "version" \notin DOMAIN PricePart(base, args) \cup DOMAIN Described(args)
    BY ArticlePartsAre
  <2> DEFINE body == ArticleBody(base, args)
  <2>4. /\ DOMAIN body = DOMAIN PricePart(base, args) \cup DOMAIN Described(args)
                         \cup DOMAIN ArticleKept(base)
        /\ \A f \in DOMAIN ArticleKept(base) :
              f \notin DOMAIN PricePart(base, args) \cup DOMAIN Described(args)
                 => body[f] = ArticleKept(base)[f]
    BY ArticleBodyIs
  <2> HIDE DEF body
  <2>3. "version" \in DOMAIN body /\ body.version = base.version
    BY <2>1, <2>2, <2>4
  <2> QED BY <1>4, <2>3 DEF body, Replacement, UpdateArticle
<1> QED BY <1>2, <1>3, <1>4

LEMMA ShownHasVersion ==
  ASSUME NEW doc, "version" \in DOMAIN doc
  PROVE  Shown(doc).version = doc.version
<1> DEFINE kept == Without(doc, {"organizationId"})
           rest == Without(kept, {"roles"})
           put == Put("roles", Cleaned(kept.roles))
<1>1. "version" \in DOMAIN kept /\ kept.version = doc.version  BY DEF Without
<1> HIDE DEF kept
<1>2. "version" \in DOMAIN rest /\ rest.version = doc.version  BY <1>1 DEF Without
<1>3. "version" \notin DOMAIN put
  <2> HIDE DEF rest
  <2>1. DOMAIN put \subseteq {"roles"}  BY PutWithin
  <2> QED BY <2>1
<1> HIDE DEF put, rest
<1>4. (put ++ rest)["version"] = rest["version"]  BY <1>2, <1>3, LaidUnder
<1>5. Shown(doc) = IF Given(kept, "roles") THEN put ++ rest ELSE kept
  BY DEF Shown, kept, put, rest
<1> QED BY <1>1, <1>2, <1>4, <1>5

LEMMA ContactRowHasVersion ==
  ASSUME NEW doc
  PROVE  ContactRow(doc).version = doc.version
<1>1. \A f, block, kinds : DOMAIN FirstEntry(f, block, kinds) \subseteq {f}
  <2> SUFFICES ASSUME NEW f, NEW block, NEW kinds
               PROVE  DOMAIN FirstEntry(f, block, kinds) \subseteq {f}
    OBVIOUS
  <2> DEFINE there == SelectSeq(kinds, LAMBDA k : k \in InUse(block))
  <2>1. FirstEntry(f, block, kinds)
          = IF there = << >> THEN Nothing ELSE Sole(f, Head(block[Head(there)]))
    BY DEF FirstEntry
  <2> HIDE DEF there
  <2>2. CASE there = << >>  BY <2>1, <2>2, NothingIsEmpty
  <2>3. CASE there # << >>  BY <2>1, <2>3, SoleIs
  <2> QED BY <2>2, <2>3
<1> DEFINE e == FirstEntry("email", Block(doc, "emailAddresses"), EmailKinds)
           p == FirstEntry("phone", Block(doc, "phoneNumbers"), PhoneKinds)
           row == [version |-> doc.version, name |-> ContactName(doc), roles |-> DOMAIN doc.roles,
                   type |-> IF Given(doc, "company") THEN "company" ELSE "person",
                   numbers |-> {doc.roles[r] : r \in DOMAIN doc.roles} \ {Nothing}]
           q == e ++ p
<1>2. "version" \in DOMAIN row /\ row.version = doc.version  OBVIOUS
<1>3. "version" \notin DOMAIN e /\ "version" \notin DOMAIN p  BY <1>1
<1>4. ContactRow(doc) = q ++ row  BY DEF ContactRow
<1> HIDE DEF e, p, row
<1>5. "version" \notin DOMAIN q  BY <1>3, Laid
<1> HIDE DEF q
<1>6. (q ++ row)["version"] = row["version"]  BY <1>2, <1>5, LaidUnder
<1> QED BY <1>2, <1>4, <1>6

LEMMA ViewHasVersion ==
  ASSUME NEW by, NEW kind \in {"contact", "voucher", "article"}, NEW doc, "version" \in DOMAIN doc,
         by = "search" => kind # "voucher"
  PROVE  View(by, kind, doc).version = doc.version
<1>1. CASE by # "search"
  BY <1>1, ShownHasVersion DEF View
<1>2. CASE by = "search" /\ kind = "contact"
  BY <1>2, ContactRowHasVersion DEF View, Row
<1>3. CASE by = "search" /\ kind = "article"
  <2>1. ArticleRow(doc).version = doc.version  BY DEF ArticleRow, Without
  <2> QED BY <1>3, <2>1 DEF View, Row
<1> QED BY <1>1, <1>2, <1>3
------------------------------------------------------------------------------
\* What the service makes of a body is a record it has a place for.
Assigned(kind, body, old) ==
    CASE kind = "contact" -> [roles |-> Numbered(body.roles)]
      [] kind = "voucher" ->
            [voucherStatus |-> Field(body, "voucherStatus", Field(old, "voucherStatus", "open"))]
      [] kind = "article" -> [price |-> Priced(body.price)]
      [] OTHER -> Nothing

StoredOf(s, x, body, old) ==
    /\ DOMAIN s = {"version", "organizationId"} \cup DOMAIN x \cup DOMAIN body
    /\ s["version"] = Field(old, "version", 0) + 1
    /\ \A f \in DOMAIN x : f # "version" => s[f] = x[f]
    /\ \A f \in DOMAIN body : f # "version" /\ f \notin DOMAIN x => s[f] = body[f]
    /\ "organizationId" \notin DOMAIN x \cup DOMAIN body => s["organizationId"] = "org"

LEMMA StoredIs ==
  ASSUME NEW kind, NEW body, NEW old
  PROVE  StoredOf(Stored(kind, body, old), Assigned(kind, body, old), body, old)
<1> DEFINE v == [version |-> Field(old, "version", 0) + 1]
           x == Assigned(kind, body, old)
           o == [organizationId |-> "org"]
           p == v ++ x
           q == p ++ body
           s == q ++ o
<1>1. Stored(kind, body, old) = s  BY DEF Stored, Assigned
<1>2. DOMAIN v = {"version"} /\ v["version"] = Field(old, "version", 0) + 1  OBVIOUS
<1>3. DOMAIN o = {"organizationId"} /\ o["organizationId"] = "org"  OBVIOUS
<1> HIDE DEF v, x, o
<1>4. /\ DOMAIN p = DOMAIN v \cup DOMAIN x
      /\ \A f \in DOMAIN v : p[f] = v[f]
      /\ \A f \in DOMAIN x : f \notin DOMAIN v => p[f] = x[f]
  BY Laid
<1> HIDE DEF p
<1>5. /\ DOMAIN q = DOMAIN p \cup DOMAIN body
      /\ \A f \in DOMAIN p : q[f] = p[f]
      /\ \A f \in DOMAIN body : f \notin DOMAIN p => q[f] = body[f]
  BY Laid
<1> HIDE DEF q
<1>6. /\ DOMAIN s = DOMAIN q \cup DOMAIN o
      /\ \A f \in DOMAIN q : s[f] = q[f]
      /\ \A f \in DOMAIN o : f \notin DOMAIN q => s[f] = o[f]
  BY Laid
<1> HIDE DEF s
<1>7. StoredOf(s, x, body, old)
  BY <1>2, <1>3, <1>4, <1>5, <1>6 DEF StoredOf
<1> QED BY <1>1, <1>7 DEF x

LEMMA AssignedIs ==
  ASSUME NEW body, NEW old
  PROVE  /\ DOMAIN Assigned("contact", body, old) = {"roles"}
         /\ Assigned("contact", body, old)["roles"] = Numbered(body.roles)
         /\ DOMAIN Assigned("voucher", body, old) = {"voucherStatus"}
         /\ Assigned("voucher", body, old)["voucherStatus"]
              = Field(body, "voucherStatus", Field(old, "voucherStatus", "open"))
         /\ DOMAIN Assigned("article", body, old) = {"price"}
         /\ Assigned("article", body, old)["price"] = Priced(body.price)
         /\ DOMAIN Assigned("document", body, old) = {}
<1> DEFINE r == [roles |-> Numbered(body.roles)]
           v == [voucherStatus |-> Field(body, "voucherStatus", Field(old, "voucherStatus", "open"))]
           p == [price |-> Priced(body.price)]
<1>1. DOMAIN r = {"roles"} /\ r["roles"] = Numbered(body.roles)  OBVIOUS
<1>2. /\ DOMAIN v = {"voucherStatus"}
      /\ v["voucherStatus"] = Field(body, "voucherStatus", Field(old, "voucherStatus", "open"))
  OBVIOUS
<1>3. DOMAIN p = {"price"} /\ p["price"] = Priced(body.price)  OBVIOUS
<1>4. /\ Assigned("contact", body, old) = r /\ Assigned("voucher", body, old) = v
      /\ Assigned("article", body, old) = p /\ Assigned("document", body, old) = Nothing
  BY DEF Assigned
<1> HIDE DEF r, v, p
<1> QED BY <1>1, <1>2, <1>3, <1>4, NothingIsEmpty

\* What a tool's body has whatever is asked of it.
ContactBodyFits(body) ==
    /\ "roles" \in DOMAIN body
    /\ ("company" \in DOMAIN body) # ("person" \in DOMAIN body)
    /\ \A block \in {"company", "person"} \cap DOMAIN body : body[block] # Nothing

VoucherBodyFits(body) ==
    {"useCollectiveContact", "totalTaxAmount", "totalGrossAmount"} \subseteq DOMAIN body

PriceFits(price) ==
    /\ "leadingPrice" \in DOMAIN price /\ price["leadingPrice"] \in {"NET", "GROSS"}
    /\ Leading(price["leadingPrice"]) \in DOMAIN price

ArticleBodyFits(body) == "price" \in DOMAIN body /\ PriceFits(body["price"])

BodyFits(kind, body) ==
    /\ {"id", "contactName", "createdDate", "updatedDate"} \cap DOMAIN body = {}
    /\ "organizationId" \in DOMAIN body => body["organizationId"] = "org"
    /\ kind = "contact" => ContactBodyFits(body)
    /\ kind = "voucher" => VoucherBodyFits(body)
    /\ kind = "article" => ArticleBodyFits(body)

LEMMA NumberedIs ==
  ASSUME NEW roles
  PROVE  /\ DOMAIN Numbered(roles) = DOMAIN roles
         /\ \A r \in DOMAIN roles : /\ Numbered(roles)[r] # Nothing
                                    /\ roles[r] # Nothing => Numbered(roles)[r] = roles[r]
<1> DEFINE first == [number |-> 1]
<1>1. first # Nothing
  <2>1. DOMAIN first = {"number"}  OBVIOUS
  <2> QED BY <2>1, NothingIsEmpty
<1>2. Numbered(roles) = [r \in DOMAIN roles |-> IF roles[r] = Nothing THEN first ELSE roles[r]]
  BY DEF Numbered
<1> HIDE DEF first
<1> QED BY <1>1, <1>2

LEMMA PricedIs ==
  ASSUME NEW price, PriceFits(price)
  PROVE  /\ {"leadingPrice", "netPrice", "grossPrice"} \subseteq DOMAIN Priced(price)
         /\ DOMAIN Priced(price) = DOMAIN price \cup {"netPrice", "grossPrice"}
         /\ \A f \in DOMAIN price : Priced(price)[f] = price[f]
<1> DEFINE rate == Field(price, "taxRate", 0)
           gross == [grossPrice |-> price.netPrice + rate]
           net == [netPrice |-> price.grossPrice - rate]
<1>1. DOMAIN gross = {"grossPrice"} /\ DOMAIN net = {"netPrice"}  OBVIOUS
<1>2. Priced(price) = IF price["leadingPrice"] = "NET" THEN price ++ gross ELSE price ++ net
  BY DEF Priced
<1> HIDE DEF gross, net
<1>3. CASE price["leadingPrice"] = "NET"
  <2>1. DOMAIN (price ++ gross) = DOMAIN price \cup DOMAIN gross
        /\ \A f \in DOMAIN price : (price ++ gross)[f] = price[f]
    BY Laid
  <2> DEFINE s == price ++ gross
  <2>2. DOMAIN s = DOMAIN price \cup {"grossPrice"} /\ \A f \in DOMAIN price : s[f] = price[f]
    BY <1>1, <2>1
  <2>3. Priced(price) = s  BY <1>2, <1>3
  <2> HIDE DEF s
  <2> QED BY <1>3, <2>2, <2>3 DEF PriceFits, Leading
<1>4. CASE price["leadingPrice"] # "NET"
  <2>1. DOMAIN (price ++ net) = DOMAIN price \cup DOMAIN net
        /\ \A f \in DOMAIN price : (price ++ net)[f] = price[f]
    BY Laid
  <2> DEFINE s == price ++ net
  <2>2. DOMAIN s = DOMAIN price \cup {"netPrice"} /\ \A f \in DOMAIN price : s[f] = price[f]
    BY <1>1, <2>1
  <2>3. Priced(price) = s  BY <1>2, <1>4
  <2> HIDE DEF s
  <2> QED BY <1>4, <2>2, <2>3 DEF PriceFits, Leading
<1> QED BY <1>3, <1>4

LEMMA StoredIsValid ==
  ASSUME NEW does, NEW kind \in Kinds, NEW body, NEW old, Field(old, "version", 0) \in Nat,
         BodyFits(kind, body), ~Refusable(does, kind, body)
  PROVE  Valid(kind, Stored(kind, body, old))
<1> DEFINE s == Stored(kind, body, old)
           x == Assigned(kind, body, old)
<1>1. /\ DOMAIN s = {"version", "organizationId"} \cup DOMAIN x \cup DOMAIN body
      /\ s["version"] = Field(old, "version", 0) + 1
      /\ \A f \in DOMAIN x : f # "version" => s[f] = x[f]
      /\ \A f \in DOMAIN body : f # "version" /\ f \notin DOMAIN x => s[f] = body[f]
      /\ "organizationId" \notin DOMAIN x \cup DOMAIN body => s["organizationId"] = "org"
  <2>1. StoredOf(s, x, body, old)  BY StoredIs
  <2> HIDE DEF s, x
  <2> QED BY <2>1 DEF StoredOf
<1>2. DOMAIN x \subseteq {"roles", "voucherStatus", "price"}
  BY AssignedIs DEF Kinds
<1> HIDE DEF s
<1>3. /\ {"version", "organizationId"} \subseteq DOMAIN s
      /\ s["version"] \in Nat /\ s["organizationId"] = "org"
      /\ {"id", "contactName", "createdDate", "updatedDate"} \cap DOMAIN s = {}
  <2> HIDE DEF x
  <2>1. s["organizationId"] = "org"  BY <1>1, <1>2 DEF BodyFits
  <2>2. {"id", "contactName", "createdDate", "updatedDate"} \cap DOMAIN s = {}
    BY <1>1, <1>2 DEF BodyFits
  <2> QED BY <1>1, <2>1, <2>2
<1>4. CASE kind = "contact"
  <2>1. DOMAIN x = {"roles"} /\ x["roles"] = Numbered(body.roles)  BY <1>4, AssignedIs
  <2> HIDE DEF x
  <2>2. /\ ("company" \in DOMAIN s) # ("person" \in DOMAIN s)
        /\ \A block \in {"company", "person"} \cap DOMAIN s : s[block] # Nothing
    BY <1>1, <1>4, <2>1 DEF BodyFits, ContactBodyFits
  <2>3. "roles" \in DOMAIN s /\ \A r \in DOMAIN s["roles"] : s["roles"][r] # Nothing
    BY <1>1, <2>1, NumberedIs
  <2>4. ValidContact(s)  BY <2>2, <2>3 DEF ValidContact
  <2> QED BY <1>3, <1>4, <2>4 DEF Valid, s
<1>5. CASE kind = "voucher"
  <2>1. DOMAIN x = {"voucherStatus"}  BY <1>5, AssignedIs
  <2> HIDE DEF x
  <2>2. {"voucherStatus", "useCollectiveContact", "totalTaxAmount", "totalGrossAmount"}
          \subseteq DOMAIN s
    BY <1>1, <1>5, <2>1 DEF BodyFits, VoucherBodyFits
  <2>3. /\ \A f \in {"useCollectiveContact", "totalTaxAmount", "totalGrossAmount"} : s[f] = body[f]
        /\ \A f \in {"contactId", "voucherItems", "taxType"} :
              /\ f \in DOMAIN s <=> f \in DOMAIN body
              /\ f \in DOMAIN body => s[f] = body[f]
    BY <1>1, <1>5, <2>1 DEF BodyFits, VoucherBodyFits
  <2>4. Given(s, "contactId") # s["useCollectiveContact"]
    BY <1>5, <2>3 DEF Refusable, Given
  <2>5. ~Disagree(s)
    <3>1. ~Disagree(body)  BY <1>5 DEF Refusable
    <3>2. /\ Field(s, "voucherItems", << >>) = Field(body, "voucherItems", << >>)
          /\ Field(s, "taxType", "none") = Field(body, "taxType", "none")
      BY <2>3 DEF Field
    <3>3. s.totalTaxAmount = body.totalTaxAmount /\ s.totalGrossAmount = body.totalGrossAmount
      BY <2>3
    <3> QED BY <3>1, <3>2, <3>3 DEF Disagree
  <2>6. ValidVoucher(s)  BY <2>2, <2>4, <2>5 DEF ValidVoucher
  <2> QED BY <1>3, <1>5, <2>6 DEF Valid, s
<1>6. CASE kind = "article"
  <2>1. DOMAIN x = {"price"} /\ x["price"] = Priced(body["price"])  BY <1>6, AssignedIs
  <2> HIDE DEF x
  <2>2. "price" \in DOMAIN s /\ s["price"] = Priced(body["price"])  BY <1>1, <2>1
  <2>3. PriceFits(body["price"])  BY <1>6 DEF BodyFits, ArticleBodyFits
  <2>4. /\ {"leadingPrice", "netPrice", "grossPrice"} \subseteq DOMAIN s["price"]
        /\ s["price"]["leadingPrice"] \in {"NET", "GROSS"}
    BY <2>2, <2>3, PricedIs DEF PriceFits
  <2>5. ValidArticle(s)  BY <2>2, <2>4 DEF ValidArticle
  <2> QED BY <1>3, <1>6, <2>5 DEF Valid, s
<1>7. CASE kind = "document"
  BY <1>3, <1>7 DEF Valid, s
<1> QED BY <1>4, <1>5, <1>6, <1>7 DEF Kinds
------------------------------------------------------------------------------
\* Every body fits its kind, and none is refused for what it holds.
LEMMA BaseOfNothing ==
  Base(Nothing) = [version |-> 0] /\ DOMAIN Base(Nothing) = {"version"}
<1>1. DOMAIN [version |-> 0] = {"version"}  OBVIOUS
<1> QED BY <1>1 DEF Base

LEMMA OwnFieldsOfNamed ==
  ASSUME NEW base, NEW args, Given(args, "name") PROVE OwnFields(base, args) # Nothing
<1> DEFINE names == IF IsCompany(base, args) THEN CompanyFields ELSE PersonFields
           said == Mentioned(args, names)
           block == Block(base, Own(base, args))
<1>1. "name" \in DOMAIN names  BY ContactTables
<1>2. names["name"] \in DOMAIN said  BY <1>1, MentionedIs DEF Given
<1>3. OwnFields(base, args) = said ++ block  BY DEF OwnFields
<1> HIDE DEF said, names, block
<1>4. names["name"] \in DOMAIN (said ++ block)  BY <1>2, LaidOver
<1> QED BY <1>3, <1>4, NothingIsEmpty

LEMMA IdentityHas ==
  ASSUME NEW base, NEW args
  PROVE  /\ DOMAIN Identity(base, args) \subseteq {Own(base, args)}
         /\ \A f \in DOMAIN Identity(base, args) : Identity(base, args)[f] # Nothing
         /\ Given(args, "name") => DOMAIN Identity(base, args) = {Own(base, args)}
<1> DEFINE own == Own(base, args)
           fields == OwnFields(base, args)
<1>1. Identity(base, args) = Put(own, fields)  BY IdentityIs
<1>2. Given(args, "name") => fields # Nothing  BY OwnFieldsOfNamed
<1> HIDE DEF own, fields
<1>3. CASE fields = Nothing  BY <1>1, <1>2, <1>3, PutIs DEF own
<1>4. CASE fields # Nothing
  <2>1. DOMAIN Put(own, fields) = {own} /\ Put(own, fields)[own] = fields  BY <1>4, PutIs
  <2> QED BY <1>1, <1>4, <2>1 DEF own
<1> QED BY <1>3, <1>4

\* The one block of a contact that is there is its own.
LEMMA OwnOfValid ==
  ASSUME NEW base, ValidContact(base), NEW args, ~Given(args, "kind")
  PROVE  Own(base, args) \in DOMAIN base /\ \A f \in {"company", "person"} \cap DOMAIN base : f = Own(base, args)
<1>1. CASE "company" \in DOMAIN base
  BY <1>1 DEF ValidContact, Own, IsCompany, Block, Field
<1>2. CASE "company" \notin DOMAIN base
  BY <1>2 DEF ValidContact, Own, IsCompany, Block, Field
<1> QED BY <1>1, <1>2

LEMMA ContactCreationFits ==
  ASSUME NEW args, Given(args, "name")
  PROVE  BodyFits("contact", ContactBody(Nothing, args))
<1> DEFINE body == ContactBody(Nothing, args)
           own == Own(Nothing, args)
<1>1. /\ ContactTakes(body, Nothing, args)
      /\ Part(body, RolesOf(Nothing, args), Nothing, "roles")
      /\ Part(body, Identity(Nothing, args), Nothing, "company")
      /\ Part(body, Identity(Nothing, args), Nothing, "person")
  BY ContactBodyIs
<1> HIDE DEF body
<1>2. "roles" \in DOMAIN body
  <2>1. DOMAIN RolesOf(Nothing, args) = {"roles"}  BY RolesOfIs, NothingIsEmpty DEF Given
  <2> QED BY <1>1, <2>1 DEF Part
<1>3. /\ DOMAIN Identity(Nothing, args) = {own} /\ own \in {"company", "person"}
      /\ Identity(Nothing, args)[own] # Nothing
  BY IdentityHas DEF Own
<1> HIDE DEF own
<1>4. \A f \in {"company", "person"} : /\ f \in DOMAIN body <=> f = own
                                       /\ f = own => body[f] # Nothing
  BY <1>1, <1>3, BaseOfNothing DEF Part
<1>5. ContactBodyFits(body)  BY <1>2, <1>3, <1>4 DEF ContactBodyFits
<1>6. {"id", "contactName", "createdDate", "updatedDate", "organizationId"} \cap DOMAIN body = {}
  BY <1>1, BaseOfNothing DEF ContactTakes
<1> QED BY <1>5, <1>6 DEF BodyFits, body

LEMMA ContactReplacementFits ==
  ASSUME NEW base, Valid("contact", base), NEW args, ~Given(args, "kind")
  PROVE  BodyFits("contact", ContactBody(base, args))
<1> DEFINE body == ContactBody(base, args)
           own == Own(base, args)
<1>0. ValidContact(base) /\ Base(base) = base
  BY BaseIs, NothingIsEmpty DEF Valid
<1>1. /\ ContactTakes(body, base, args)
      /\ Part(body, RolesOf(base, args), base, "roles")
      /\ Part(body, Identity(base, args), base, "company")
      /\ Part(body, Identity(base, args), base, "person")
  BY ContactBodyIs
<1> HIDE DEF body
<1>2. "roles" \in DOMAIN body
  BY <1>0, <1>1 DEF Part, ValidContact
<1>3. /\ DOMAIN Identity(base, args) \subseteq {own} /\ own \in {"company", "person"}
      /\ \A f \in DOMAIN Identity(base, args) : Identity(base, args)[f] # Nothing
      /\ own \in DOMAIN base /\ \A f \in {"company", "person"} \cap DOMAIN base : f = own
      /\ base[own] # Nothing
  <2>1. own \in DOMAIN base /\ \A f \in {"company", "person"} \cap DOMAIN base : f = own
    BY <1>0, OwnOfValid
  <2>2. DOMAIN Identity(base, args) \subseteq {own}
        /\ \A f \in DOMAIN Identity(base, args) : Identity(base, args)[f] # Nothing
    BY IdentityHas
  <2>3. own \in {"company", "person"}  BY DEF Own
  <2> HIDE DEF own
  <2> QED BY <1>0, <2>1, <2>2, <2>3 DEF ValidContact
<1> HIDE DEF own
<1>4. \A f \in {"company", "person"} : /\ f \in DOMAIN body <=> f = own
                                       /\ f = own => body[f] # Nothing
  BY <1>0, <1>1, <1>3 DEF Part
<1>5. ContactBodyFits(body)  BY <1>2, <1>3, <1>4 DEF ContactBodyFits
<1>6. /\ {"id", "contactName", "createdDate", "updatedDate"} \cap DOMAIN body = {}
      /\ body["organizationId"] = "org"
  BY <1>0, <1>1 DEF ContactTakes, Valid
<1> QED BY <1>5, <1>6 DEF BodyFits, body
------------------------------------------------------------------------------
LEMMA VoucherBodyFields ==
  ASSUME NEW base, NEW args
  PROVE  DOMAIN VoucherBody(base, args)
           \subseteq {"totalTaxAmount", "totalGrossAmount", "contactId", "useCollectiveContact",
                      "voucherStatus"}
                     \cup VoucherLines \cup (DOMAIN Base(base) \ VoucherPutDrop)
<1> DEFINE body == VoucherBody(base, args)
<1>1. FirstOfSix(body, Totalled(args), Summed(base, args), Lined(args),
                 VoucherContact(args), Status(args), KeptOf(base, args))
  BY VoucherBodyIs
<1> HIDE DEF body
<1>2. /\ DOMAIN Totalled(args) \subseteq {"totalTaxAmount", "totalGrossAmount"}
      /\ DOMAIN Summed(base, args) \subseteq {"totalTaxAmount", "totalGrossAmount"}
  BY TotalledIs, SummedIs
<1>3. DOMAIN Lined(args) \subseteq VoucherLines  BY LinedIs
<1>4. DOMAIN VoucherContact(args) \subseteq {"contactId", "useCollectiveContact"}
  BY VoucherContactIs
<1>5. DOMAIN Status(args) \subseteq {"voucherStatus"}  BY StatusIs
<1>6. DOMAIN KeptOf(base, args) \subseteq DOMAIN Base(base) \ VoucherPutDrop  BY KeptIs
<1>7. DOMAIN body = DOMAIN Totalled(args) \cup DOMAIN Summed(base, args) \cup DOMAIN Lined(args)
                    \cup DOMAIN VoucherContact(args) \cup DOMAIN Status(args)
                    \cup DOMAIN KeptOf(base, args)
  BY <1>1 DEF FirstOfSix
<1> QED BY <1>2, <1>3, <1>4, <1>5, <1>6, <1>7 DEF body

\* A voucher goes to one contact, or to the collective one.
LEMMA VoucherGoesToOne ==
  ASSUME NEW base, NEW args,
         Given(args, "use_collective_contact") => args["use_collective_contact"] \in BOOLEAN,
         ~TwoContactsOrNone(args),
         \/ Given(args, "contact_id") \/ Given(args, "use_collective_contact")
         \/ /\ "useCollectiveContact" \in DOMAIN Base(base)
            /\ Given(Base(base), "contactId") # Base(base)["useCollectiveContact"]
  PROVE  LET body == VoucherBody(base, args)
         IN  /\ "useCollectiveContact" \in DOMAIN body
             /\ Given(body, "contactId") # body["useCollectiveContact"]
<1> DEFINE body == VoucherBody(base, args)
<1>1. FirstOfSix(body, Totalled(args), Summed(base, args), Lined(args),
                 VoucherContact(args), Status(args), KeptOf(base, args))
  BY VoucherBodyIs
<1> HIDE DEF body
<1>2. {"contactId", "useCollectiveContact"}
        \cap (DOMAIN Totalled(args) \cup DOMAIN Summed(base, args) \cup DOMAIN Lined(args)) = {}
  <2>1. DOMAIN Totalled(args) \cup DOMAIN Summed(base, args)
          \subseteq {"totalTaxAmount", "totalGrossAmount"}
    BY TotalledIs, SummedIs
  <2>2. DOMAIN Lined(args) \subseteq VoucherLines  BY LinedIs
  <2> QED BY <2>1, <2>2 DEF VoucherLines
<1>3. DOMAIN Status(args) \subseteq {"voucherStatus"}  BY StatusIs
<1>4. /\ DOMAIN KeptOf(base, args)
            = DOMAIN Base(base) \ (VoucherPutDrop
                                   \cup IF LeavesContact(args) THEN {"contactId"} ELSE {})
      /\ \A f \in DOMAIN KeptOf(base, args) : KeptOf(base, args)[f] = Base(base)[f]
  BY KeptIs
<1>5. CASE Given(args, "contact_id")
  <2>1. /\ DOMAIN VoucherContact(args) = {"contactId", "useCollectiveContact"}
        /\ VoucherContact(args)["useCollectiveContact"] = FALSE
    BY <1>5, VoucherContactIs
  <2>2. /\ {"contactId", "useCollectiveContact"} \subseteq DOMAIN body
        /\ body["useCollectiveContact"] = FALSE
    BY <1>1, <1>2, <2>1 DEF FirstOfSix
  <2> QED BY <2>2 DEF body, Given
<1>6. CASE ~Given(args, "contact_id") /\ Given(args, "use_collective_contact")
  <2>1. args["use_collective_contact"] = TRUE
    BY <1>6 DEF TwoContactsOrNone, Field, Given
  <2>2. /\ DOMAIN VoucherContact(args) = {"useCollectiveContact"}
        /\ VoucherContact(args)["useCollectiveContact"] = TRUE
    BY <1>6, <2>1, VoucherContactIs
  <2>3. "contactId" \notin DOMAIN KeptOf(base, args)
    BY <1>4, <1>6, <2>1 DEF LeavesContact, Field, Given
  <2>4. "contactId" \notin DOMAIN body
    BY <1>1, <1>2, <1>3, <2>2, <2>3 DEF FirstOfSix
  <2>5. "useCollectiveContact" \in DOMAIN body /\ body["useCollectiveContact"] = TRUE
    BY <1>1, <1>2, <2>2 DEF FirstOfSix
  <2> QED BY <2>4, <2>5 DEF body, Given
<1>7. CASE ~Given(args, "contact_id") /\ ~Given(args, "use_collective_contact")
  <2>1. DOMAIN VoucherContact(args) = {}  BY <1>7, VoucherContactIs
  <2>2. ~LeavesContact(args)  BY <1>7 DEF LeavesContact, Field, Given
  <2>3. /\ "useCollectiveContact" \in DOMAIN KeptOf(base, args)
        /\ KeptOf(base, args)["useCollectiveContact"] = Base(base)["useCollectiveContact"]
        /\ "contactId" \in DOMAIN KeptOf(base, args) <=> "contactId" \in DOMAIN Base(base)
    BY <1>4, <1>7, <2>2 DEF VoucherPutDrop
  <2>4. /\ "useCollectiveContact" \in DOMAIN body
        /\ body["useCollectiveContact"] = Base(base)["useCollectiveContact"]
        /\ "contactId" \in DOMAIN body <=> "contactId" \in DOMAIN Base(base)
    BY <1>1, <1>2, <1>3, <2>1, <2>3 DEF FirstOfSix
  <2> QED BY <1>7, <2>4 DEF body, Given
<1> QED BY <1>5, <1>6, <1>7

\* Its lines and its tax type are what its totals were worked out from.
LEMMA VoucherLinesKept ==
  ASSUME NEW base, NEW args
  PROVE  /\ Field(VoucherBody(base, args), "voucherItems", << >>)
              = Field(Unsummed(base, args), "voucherItems", << >>)
         /\ Field(VoucherBody(base, args), "taxType", "none")
              = Field(Unsummed(base, args), "taxType", "none")
<1> DEFINE t == Totalled(args) ++ Summed(base, args)
           u == Unsummed(base, args)
           body == t ++ u
<1>1. VoucherBody(base, args) = body  BY VoucherBodyIs
<1>2. DOMAIN t \subseteq {"totalTaxAmount", "totalGrossAmount"}
  <2>1. DOMAIN t = DOMAIN Totalled(args) \cup DOMAIN Summed(base, args)  BY Laid
  <2> QED BY <2>1, TotalledIs, SummedIs
<1> HIDE DEF t, u
<1>3. /\ DOMAIN body = DOMAIN t \cup DOMAIN u
      /\ \A f \in DOMAIN u : f \notin DOMAIN t => body[f] = u[f]
  BY Laid
<1> HIDE DEF body
<1>4. \A f \in {"voucherItems", "taxType"} : /\ f \in DOMAIN body <=> f \in DOMAIN u
                                             /\ f \in DOMAIN u => body[f] = u[f]
  BY <1>2, <1>3
<1>5. /\ Field(body, "voucherItems", << >>) = Field(u, "voucherItems", << >>)
      /\ Field(body, "taxType", "none") = Field(u, "taxType", "none")
  BY <1>4 DEF Field
<1> QED BY <1>1, <1>5 DEF u

LEMMA TotalsStand ==
  ASSUME NEW base, NEW args,
         DOMAIN args \cap {"total_gross_amount", "total_tax_amount"} = {},
         \/ base = Nothing
         \/ /\ ~Disagree(base)
            /\ {"totalTaxAmount", "totalGrossAmount"} \subseteq DOMAIN base
  PROVE  ~Disagree(VoucherBody(base, args))
<1> DEFINE body == VoucherBody(base, args)
           lines == Field(Unsummed(base, args), "voucherItems", << >>)
           type == Field(Unsummed(base, args), "taxType", "none")
<1>1. FirstOfSix(body, Totalled(args), Summed(base, args), Lined(args),
                 VoucherContact(args), Status(args), KeptOf(base, args))
  BY VoucherBodyIs
<1>2. Field(body, "voucherItems", << >>) = lines /\ Field(body, "taxType", "none") = type
  BY VoucherLinesKept
<1> HIDE DEF body
<1>3. DOMAIN Totalled(args) = {}
  <2>1. DOMAIN TotalFields = {"total_tax_amount", "total_gross_amount"}  BY VoucherTables
  <2>2. \A f \in DOMAIN Totalled(args) : \E g \in DOMAIN args \cap DOMAIN TotalFields : TotalFields[g] = f
    BY MentionedIs DEF Totalled
  <2> QED BY <2>1, <2>2
<1>4. CASE Derives(base, args)
  <2> DEFINE sums == [totalTaxAmount |-> TaxTotal(lines), totalGrossAmount |-> GrossTotal(lines, type)]
  <2>1. Summed(base, args) = sums  BY <1>4 DEF Summed
  <2> HIDE DEF lines, type
  <2>2. /\ DOMAIN sums = {"totalTaxAmount", "totalGrossAmount"}
        /\ sums["totalTaxAmount"] = TaxTotal(lines)
        /\ sums["totalGrossAmount"] = GrossTotal(lines, type)
    OBVIOUS
  <2> HIDE DEF sums
  <2>3. /\ body["totalTaxAmount"] = TaxTotal(lines)
        /\ body["totalGrossAmount"] = GrossTotal(lines, type)
    BY <1>1, <1>3, <2>1, <2>2 DEF FirstOfSix
  <2> QED BY <1>2, <2>3 DEF Disagree, body
<1>5. CASE ~Derives(base, args)
  <2> HIDE DEF lines, type
  <2>1. /\ base # Nothing /\ ~Given(args, "items") /\ ~Given(args, "tax_type")
        /\ Base(base) = base
    BY <1>5, BaseIs DEF Derives
  <2>2. DOMAIN Summed(base, args) = {}  BY <1>5, SummedIs
  <2>3. /\ DOMAIN KeptOf(base, args)
            = DOMAIN base \ (VoucherPutDrop
                                   \cup IF LeavesContact(args) THEN {"contactId"} ELSE {})
        /\ \A f \in DOMAIN KeptOf(base, args) : KeptOf(base, args)[f] = base[f]
    BY <2>1, KeptIs
  <2>4. {"voucherItems", "taxType"} \cap DOMAIN Lined(args) = {}
    <3>1. Tabled(LineFields) /\ {"items", "tax_type"} \subseteq DOMAIN LineFields
          /\ LineFields["items"] = "voucherItems" /\ LineFields["tax_type"] = "taxType"
      BY VoucherTables
    <3>2. \A f \in DOMAIN Lined(args) : \E g \in DOMAIN args \cap DOMAIN LineFields : LineFields[g] = f
      BY MentionedIs DEF Lined
    <3> QED BY <2>1, <3>1, <3>2 DEF Tabled, Given
  <2>5. DOMAIN VoucherContact(args) \subseteq {"contactId", "useCollectiveContact"}
        /\ DOMAIN Status(args) \subseteq {"voucherStatus"}
    BY VoucherContactIs, StatusIs
  <2>6. DOMAIN Lined(args) \subseteq VoucherLines  BY LinedIs
  <2>7. \A f \in {"voucherItems", "taxType", "totalTaxAmount", "totalGrossAmount"} :
           /\ f \in DOMAIN body <=> f \in DOMAIN base
           /\ f \in DOMAIN base => body[f] = base[f]
    <3>1. \A f \in {"voucherItems", "taxType", "totalTaxAmount", "totalGrossAmount"} :
             f \in DOMAIN KeptOf(base, args) <=> f \in DOMAIN base
      BY <2>3 DEF VoucherPutDrop
    <3> QED BY <1>1, <1>3, <2>2, <2>3, <2>4, <2>5, <2>6, <3>1 DEF FirstOfSix, VoucherLines
  <2>8. /\ Field(body, "voucherItems", << >>) = Field(base, "voucherItems", << >>)
        /\ Field(body, "taxType", "none") = Field(base, "taxType", "none")
    BY <2>7 DEF Field
  <2>9. body.totalTaxAmount = base.totalTaxAmount /\ body.totalGrossAmount = base.totalGrossAmount
    BY <2>1, <2>7
  <2> QED BY <2>1, <2>8, <2>9 DEF Disagree, body
<1> QED BY <1>4, <1>5

\* A body says open of the status or nothing.
LEMMA VoucherStatusOpen ==
  ASSUME NEW base, NEW args
  PROVE  /\ Field(VoucherBody(base, args), "voucherStatus", "open") = "open"
         /\ "voucherStatus" \in DOMAIN VoucherBody(base, args) => Finalizes(args)
<1> DEFINE body == VoucherBody(base, args)
<1>1. FirstOfSix(body, Totalled(args), Summed(base, args), Lined(args),
                 VoucherContact(args), Status(args), KeptOf(base, args))
  BY VoucherBodyIs
<1> HIDE DEF body
<1>2. "voucherStatus" \notin DOMAIN KeptOf(base, args)  BY KeptIs DEF VoucherPutDrop
<1>3. DOMAIN Totalled(args) \cup DOMAIN Summed(base, args)
        \subseteq {"totalTaxAmount", "totalGrossAmount"}
  BY TotalledIs, SummedIs
<1>4. DOMAIN Lined(args) \subseteq VoucherLines  BY LinedIs
<1>5. DOMAIN VoucherContact(args) \subseteq {"contactId", "useCollectiveContact"}
  BY VoucherContactIs
<1>6. /\ DOMAIN Status(args) = IF Finalizes(args) THEN {"voucherStatus"} ELSE {}
      /\ Finalizes(args) => Status(args)["voucherStatus"] = "open"
  BY StatusIs
<1>7. "voucherStatus" \in DOMAIN body => body["voucherStatus"] = "open" /\ Finalizes(args)
  BY <1>1, <1>2, <1>3, <1>4, <1>5, <1>6 DEF FirstOfSix, VoucherLines
<1> QED BY <1>7 DEF Field, body
------------------------------------------------------------------------------
LEMMA VoucherFits ==
  ASSUME NEW base, NEW args, base = Nothing \/ Valid("voucher", base),
         Given(args, "use_collective_contact") => args["use_collective_contact"] \in BOOLEAN,
         ~TwoContactsOrNone(args),
         base = Nothing => Given(args, "contact_id") \/ Given(args, "use_collective_contact")
  PROVE  /\ BodyFits("voucher", VoucherBody(base, args))
         /\ \A does : (/\ DOMAIN args \cap {"total_gross_amount", "total_tax_amount"} = {}
                       /\ does = "create" => ~Finalizes(args))
                      => ~Refusable(does, "voucher", VoucherBody(base, args))
<1> DEFINE body == VoucherBody(base, args)
<1>1. \/ base = Nothing /\ DOMAIN Base(base) = {"version"}
      \/ /\ base # Nothing /\ Base(base) = base
         /\ Valid("voucher", base) /\ ValidVoucher(base)
  <2>1. CASE base = Nothing  BY <2>1, BaseOfNothing
  <2>2. CASE base # Nothing  BY <2>2, BaseIs DEF Valid
  <2> QED BY <2>1, <2>2
<1>2. FirstOfSix(body, Totalled(args), Summed(base, args), Lined(args),
                 VoucherContact(args), Status(args), KeptOf(base, args))
  BY VoucherBodyIs
<1>3. DOMAIN body
        \subseteq {"totalTaxAmount", "totalGrossAmount", "contactId", "useCollectiveContact",
                   "voucherStatus"}
                  \cup VoucherLines \cup (DOMAIN Base(base) \ VoucherPutDrop)
  BY VoucherBodyFields
<1>4. "useCollectiveContact" \in DOMAIN body /\ Given(body, "contactId") # body["useCollectiveContact"]
  <2>1. \/ Given(args, "contact_id") \/ Given(args, "use_collective_contact")
        \/ /\ "useCollectiveContact" \in DOMAIN Base(base)
           /\ Given(Base(base), "contactId") # Base(base)["useCollectiveContact"]
    <3>1. CASE base = Nothing  BY <3>1
    <3>2. CASE base # Nothing
      <4>1. ValidVoucher(base) /\ Base(base) = base  BY <1>1, <3>2
      <4> QED BY <4>1 DEF ValidVoucher
    <3> QED BY <3>1, <3>2
  <2> QED BY <2>1, VoucherGoesToOne
<1>5. DOMAIN args \cap {"total_gross_amount", "total_tax_amount"} = {} => ~Disagree(body)
  <2>1. \/ base = Nothing
        \/ ~Disagree(base) /\ {"totalTaxAmount", "totalGrossAmount"} \subseteq DOMAIN base
    BY <1>1 DEF ValidVoucher
  <2> QED BY <2>1, TotalsStand
<1>6. /\ Field(body, "voucherStatus", "open") = "open"
      /\ "voucherStatus" \in DOMAIN body => Finalizes(args)
  BY VoucherStatusOpen
<1> HIDE DEF body
<1>7. {"totalTaxAmount", "totalGrossAmount"} \subseteq DOMAIN body
  <2>1. CASE Derives(base, args)
    <3>1. DOMAIN Summed(base, args) = {"totalTaxAmount", "totalGrossAmount"}  BY <2>1, SummedIs
    <3> QED BY <1>2, <3>1 DEF FirstOfSix
  <2>2. CASE ~Derives(base, args)
    <3>1. base # Nothing  BY <2>2 DEF Derives
    <3>2. {"totalTaxAmount", "totalGrossAmount"} \subseteq DOMAIN KeptOf(base, args)
      <4>1. Base(base) = base /\ {"totalTaxAmount", "totalGrossAmount"} \subseteq DOMAIN base
        BY <1>1, <3>1 DEF ValidVoucher
      <4> QED BY <4>1, KeptIs DEF VoucherPutDrop
    <3> QED BY <1>2, <3>2 DEF FirstOfSix
  <2> QED BY <2>1, <2>2
<1>8. /\ {"id", "contactName", "createdDate", "updatedDate"} \cap DOMAIN body = {}
      /\ "organizationId" \notin DOMAIN body
  <2>1. "id" \notin DOMAIN Base(base)  BY <1>1 DEF Valid
  <2> QED BY <1>3, <2>1 DEF VoucherLines, VoucherPutDrop
<1>9. BodyFits("voucher", body)
  BY <1>4, <1>7, <1>8 DEF BodyFits, VoucherBodyFits
<1>10. ASSUME NEW does, DOMAIN args \cap {"total_gross_amount", "total_tax_amount"} = {},
              does = "create" => ~Finalizes(args)
       PROVE  ~Refusable(does, "voucher", body)
  BY <1>4, <1>5, <1>6, <1>10 DEF Refusable
<1> QED BY <1>9, <1>10 DEF body

LEMMA VoucherCreationFits ==
  ASSUME NEW args, DOMAIN args \subseteq CreateTakes["voucher"]
  PROVE  /\ BodyFits("voucher", CreateVoucher(args))
         /\ DOMAIN args \cap {"total_gross_amount", "total_tax_amount"} = {}
               => ~Refusable("create", "voucher", CreateVoucher(args))
<1> DEFINE to == [use_collective_contact |-> ~Given(args, "contact_id")]
           all == args ++ to
<1>1. /\ DOMAIN to = {"use_collective_contact"}
      /\ to["use_collective_contact"] = ~Given(args, "contact_id")
  OBVIOUS
<1> HIDE DEF to
<1>2. /\ DOMAIN all = DOMAIN args \cup {"use_collective_contact"}
      /\ all["use_collective_contact"] = ~Given(args, "contact_id")
  <2>1. /\ DOMAIN all = DOMAIN args \cup DOMAIN to
        /\ \A f \in DOMAIN to : f \notin DOMAIN args => all[f] = to[f]
    BY Laid
  <2>2. "use_collective_contact" \notin DOMAIN args  BY DEF CreateTakes
  <2> HIDE DEF all
  <2> QED BY <1>1, <2>1, <2>2
<1>3. CreateVoucher(args) = VoucherBody(Nothing, all)  BY DEF CreateVoucher, to
<1> HIDE DEF all
<1>4. /\ Given(all, "use_collective_contact") /\ Given(args, "contact_id") \in BOOLEAN
      /\ Given(all, "contact_id") = Given(args, "contact_id")
      /\ all["use_collective_contact"] \in BOOLEAN
  BY <1>2 DEF Given
<1>5. ~TwoContactsOrNone(all)
  BY <1>2, <1>4 DEF TwoContactsOrNone, Field, Given
<1>6. DOMAIN all \cap {"total_gross_amount", "total_tax_amount"}
        = DOMAIN args \cap {"total_gross_amount", "total_tax_amount"}
  BY <1>2
<1>7. ~Finalizes(all)
  <2>1. "finalize" \notin DOMAIN all  BY <1>2 DEF CreateTakes
  <2> QED BY <2>1 DEF Finalizes, Field
<1> QED BY <1>3, <1>4, <1>5, <1>6, <1>7, VoucherFits

------------------------------------------------------------------------------
\* The price of an article's body.
PriceSide(current, args) == Field(args, "leading_price", Field(current, "leadingPrice", "NET"))
PriceNamed(args) == DOMAIN args \cap {"price", "leading_price", "tax_rate"} # {}
PriceKept(current, args) ==
    LET side == PriceSide(current, args)
    IN  IF Given(args, "price") THEN Sole(Leading(side), args.price)
        ELSE Mentioned(current, Sole(Leading(side), Leading(side)))

PriceTakes(p, side, kept, current, args) ==
    /\ "leadingPrice" \in DOMAIN p /\ p["leadingPrice"] = side
    /\ Given(args, "tax_rate") => "taxRate" \in DOMAIN p /\ p["taxRate"] = args["tax_rate"]
    /\ \A f \in DOMAIN kept : f \in DOMAIN p /\ p[f] = kept[f]
    /\ \A f : /\ f \in DOMAIN current
              /\ f \notin {"leadingPrice", "netPrice", "grossPrice"}
              /\ f = "taxRate" => ~Given(args, "tax_rate")
              => f \in DOMAIN p /\ p[f] = current[f]
    /\ DOMAIN p \subseteq {"leadingPrice"} \cup DOMAIN kept
                          \cup (DOMAIN current \ {"netPrice", "grossPrice"})
                          \cup (IF Given(args, "tax_rate") THEN {"taxRate"} ELSE {})

LEMMA LeadingIs ==
  ASSUME NEW side PROVE Leading(side) \in {"netPrice", "grossPrice"}
  BY DEF Leading

LEMMA PriceKeptIs ==
  ASSUME NEW current, NEW args
  PROVE  LET kept == PriceKept(current, args)
             field == Leading(PriceSide(current, args))
         IN  /\ Given(args, "price") => DOMAIN kept = {field} /\ kept[field] = args["price"]
             /\ ~Given(args, "price") =>
                   /\ DOMAIN kept = {field} \cap DOMAIN current
                   /\ field \in DOMAIN current => kept[field] = current[field]
<1> DEFINE field == Leading(PriceSide(current, args))
           names == Sole(field, field)
           kept == PriceKept(current, args)
<1>1. kept = IF Given(args, "price") THEN Sole(field, args.price) ELSE Mentioned(current, names)
  BY DEF PriceKept
<1> HIDE DEF kept, field
<1>2. DOMAIN names = {field} /\ names[field] = field  BY SoleIs
<1> HIDE DEF names
<1>3. CASE Given(args, "price")
  BY <1>1, <1>3, SoleIs DEF kept, field
<1>4. CASE ~Given(args, "price")
  <2> DEFINE said == Mentioned(current, names)
  <2>1. /\ \A f \in DOMAIN said : \E g \in DOMAIN current \cap DOMAIN names : names[g] = f
        /\ \A g \in DOMAIN current \cap DOMAIN names :
              names[g] \in DOMAIN said /\ said[names[g]] = current[g]
    BY <1>2, MentionedIs DEF Tabled
  <2> HIDE DEF said
  <2>2. /\ DOMAIN said = {field} \cap DOMAIN current
        /\ field \in DOMAIN current => said[field] = current[field]
    BY <1>2, <2>1
  <2>3. kept = said  BY <1>1, <1>4 DEF said
  <2> QED BY <1>4, <2>2, <2>3 DEF kept, field
<1> QED BY <1>3, <1>4

LEMMA PriceBodyIs ==
  ASSUME NEW current, NEW args
  PROVE  /\ ~PriceNamed(args) => PriceBody(current, args) = current
         /\ PriceNamed(args) => PriceTakes(PriceBody(current, args), PriceSide(current, args),
                                           PriceKept(current, args), current, args)
<1> DEFINE side == PriceSide(current, args)
           kept == PriceKept(current, args)
           names == [tax_rate |-> "taxRate"]
           t == Mentioned(args, names)
           l == [leadingPrice |-> side]
           w == Without(current, {"netPrice", "grossPrice"})
           p == t ++ l
           q == p ++ kept
           price == q ++ w
<1>1. PriceBody(current, args) = IF ~PriceNamed(args) THEN current ELSE price
  BY DEF PriceBody, PriceNamed, PriceSide, PriceKept
<1>2. /\ DOMAIN t = IF Given(args, "tax_rate") THEN {"taxRate"} ELSE {}
      /\ Given(args, "tax_rate") => t["taxRate"] = args["tax_rate"]
  <2>1. DOMAIN names = {"tax_rate"} /\ names["tax_rate"] = "taxRate"  OBVIOUS
  <2> HIDE DEF names
  <2>2. /\ \A f \in DOMAIN t : \E g \in DOMAIN args \cap DOMAIN names : names[g] = f
        /\ \A g \in DOMAIN args \cap DOMAIN names :
              names[g] \in DOMAIN t /\ t[names[g]] = args[g]
    BY <2>1, MentionedIs DEF Tabled
  <2> HIDE DEF t
  <2> QED BY <2>1, <2>2 DEF Given
<1>3. DOMAIN l = {"leadingPrice"} /\ l["leadingPrice"] = side  OBVIOUS
<1>4. /\ DOMAIN w = DOMAIN current \ {"netPrice", "grossPrice"}
      /\ \A f \in DOMAIN w : w[f] = current[f]
  BY DEF Without
<1>5. DOMAIN kept \subseteq {"netPrice", "grossPrice"}
  <2>1. DOMAIN kept \subseteq {Leading(side)}  BY PriceKeptIs
  <2> QED BY <2>1, LeadingIs
<1> HIDE DEF t, l, w, side, kept
<1>6. /\ DOMAIN p = DOMAIN t \cup DOMAIN l
      /\ \A f \in DOMAIN t : p[f] = t[f]
      /\ \A f \in DOMAIN l : f \notin DOMAIN t => p[f] = l[f]
  BY Laid
<1> HIDE DEF p
<1>7. /\ DOMAIN q = DOMAIN p \cup DOMAIN kept
      /\ \A f \in DOMAIN p : q[f] = p[f]
      /\ \A f \in DOMAIN kept : f \notin DOMAIN p => q[f] = kept[f]
  BY Laid
<1> HIDE DEF q
<1>8. /\ DOMAIN price = DOMAIN q \cup DOMAIN w
      /\ \A f \in DOMAIN q : price[f] = q[f]
      /\ \A f \in DOMAIN w : f \notin DOMAIN q => price[f] = w[f]
  BY Laid
<1> HIDE DEF price
<1>9. PriceTakes(price, side, kept, current, args)
  BY <1>2, <1>3, <1>4, <1>5, <1>6, <1>7, <1>8 DEF PriceTakes, Given
<1> QED BY <1>1, <1>9 DEF side, kept

\* What is left out of a price that is sent.
LEMMA PriceSentIs ==
  ASSUME NEW price, price # Nothing
  PROVE  DOMAIN PriceSent(price) = {"price"} /\ PriceSent(price)["price"] = PriceSends(price)
  BY SoleIs DEF PriceSent, PriceSends

LEMMA PriceSendsIs ==
  ASSUME NEW price
  PROVE  /\ DOMAIN PriceSends(price) = DOMAIN price \cap PriceKeys
         /\ \A f \in DOMAIN price \cap PriceKeys : PriceSends(price)[f] = price[f]
<1> DEFINE left == DOMAIN price \ PriceKeys
<1>1. PriceSends(price) = [f \in DOMAIN price \ left |-> price[f]]
  BY DEF PriceSends, Without
<1>2. DOMAIN price \ left = DOMAIN price \cap PriceKeys  OBVIOUS
<1> HIDE DEF left
<1> QED BY <1>1, <1>2

LEMMA PriceSendsFits ==
  ASSUME NEW price, PriceFits(price) PROVE PriceFits(PriceSends(price))
<1>1. Leading(price["leadingPrice"]) \in PriceKeys /\ "leadingPrice" \in PriceKeys
  BY LeadingIs DEF PriceKeys
<1> QED BY <1>1, PriceSendsIs DEF PriceFits

LEMMA ArticleBodyFitsPrice ==
  ASSUME NEW base, NEW args, NEW price, price = PriceBody(Block(base, "price"), args),
         PriceFits(price),
         {"id", "contactName", "organizationId", "createdDate", "updatedDate"} \cap DOMAIN Base(base)
            \subseteq ArticlePutDrop
  PROVE  BodyFits("article", ArticleBody(base, args))
<1> DEFINE body == ArticleBody(base, args)
<1>1. /\ DOMAIN body = DOMAIN PricePart(base, args) \cup DOMAIN Described(args)
                       \cup DOMAIN ArticleKept(base)
      /\ \A f \in DOMAIN PricePart(base, args) : body[f] = PricePart(base, args)[f]
      /\ \A f \in DOMAIN Described(args) :
            f \notin DOMAIN PricePart(base, args) => body[f] = Described(args)[f]
      /\ \A f \in DOMAIN ArticleKept(base) :
            f \notin DOMAIN PricePart(base, args) \cup DOMAIN Described(args)
               => body[f] = ArticleKept(base)[f]
  BY Zenon, ArticleBodyIs
<1> HIDE DEF body
<1>2. price # Nothing  BY NothingIsEmpty DEF PriceFits
<1>3. DOMAIN PricePart(base, args) = {"price"} /\ PricePart(base, args)["price"] = PriceSends(price)
  BY <1>2, PriceSentIs DEF PricePart
<1>4. "price" \in DOMAIN body /\ PriceFits(body["price"])  BY <1>1, <1>3, PriceSendsFits
<1>5. {"id", "contactName", "organizationId", "createdDate", "updatedDate"} \cap DOMAIN body = {}
  <2>1. /\ DOMAIN Described(args) \subseteq {"title", "type", "unitName", "articleNumber", "gtin",
                                             "description", "note"}
        /\ DOMAIN ArticleKept(base) = DOMAIN Base(base) \ ArticlePutDrop
    BY ArticlePartsAre
  <2> QED BY <1>1, <1>3, <2>1
<1> QED BY <1>4, <1>5 DEF BodyFits, ArticleBodyFits, body

LEMMA ArticleCreationFits ==
  ASSUME NEW args, Given(args, "price"), Given(args, "leading_price"),
         args["leading_price"] \in {"NET", "GROSS"}
  PROVE  BodyFits("article", ArticleBody(Nothing, args))
<1> DEFINE current == Block(Nothing, "price")
           price == PriceBody(current, args)
<1>1. PriceNamed(args)  BY DEF PriceNamed, Given
<1>2. PriceTakes(price, PriceSide(current, args), PriceKept(current, args), current, args)
  BY <1>1, PriceBodyIs
<1>3. PriceSide(current, args) = args["leading_price"]  BY DEF PriceSide, Field, Given
<1>4. DOMAIN PriceKept(current, args) = {Leading(PriceSide(current, args))}
  BY PriceKeptIs
<1> HIDE DEF price, current
<1>5. PriceFits(price)
  BY <1>2, <1>3, <1>4 DEF PriceTakes, PriceFits
<1>6. DOMAIN Base(Nothing) = {"version"}  BY BaseOfNothing
<1> QED BY <1>5, <1>6, ArticleBodyFitsPrice DEF price, current

LEMMA PriceReplacementFits ==
  ASSUME NEW current, {"leadingPrice", "netPrice", "grossPrice"} \subseteq DOMAIN current,
         current["leadingPrice"] \in {"NET", "GROSS"}, NEW args,
         Field(args, "leading_price", "NET") \in {"NET", "GROSS"}
  PROVE  PriceSide(current, args) \in {"NET", "GROSS"} /\ PriceFits(PriceBody(current, args))
<1> DEFINE price == PriceBody(current, args)
           side == PriceSide(current, args)
<1>1. side \in {"NET", "GROSS"}  BY DEF PriceSide, Field
<1>2. CASE ~PriceNamed(args)
  <2>1. price = current  BY <1>2, PriceBodyIs
  <2> QED BY <1>1, <2>1 DEF PriceFits, Leading
<1>3. CASE PriceNamed(args)
  <2>1. PriceTakes(price, side, PriceKept(current, args), current, args)
    BY <1>3, PriceBodyIs
  <2>2. Leading(side) \in DOMAIN PriceKept(current, args)
    <3>1. Leading(side) \in DOMAIN current  BY LeadingIs
    <3> DEFINE kept == PriceKept(current, args)
    <3>2. /\ Given(args, "price") => DOMAIN kept = {Leading(side)}
          /\ ~Given(args, "price") => DOMAIN kept = {Leading(side)} \cap DOMAIN current
      BY Zenon, PriceKeptIs
    <3> HIDE DEF kept, side
    <3> QED BY <3>1, <3>2 DEF kept
  <2> HIDE DEF price, side
  <2>3. PriceFits(price)  BY <1>1, <2>1, <2>2 DEF PriceTakes, PriceFits
  <2> QED BY <1>1, <2>3 DEF price, side
<1> QED BY <1>2, <1>3

LEMMA ArticleReplacementFits ==
  ASSUME NEW base, Valid("article", base), NEW args,
         Field(args, "leading_price", "NET") \in {"NET", "GROSS"}
  PROVE  BodyFits("article", ArticleBody(base, args))
<1> DEFINE price == PriceBody(Block(base, "price"), args)
<1>1. /\ Base(base) = base /\ ValidArticle(base) /\ "price" \in DOMAIN base
      /\ "contactName" \notin DOMAIN base
  <2>1. ValidArticle(base)  BY DEF Valid
  <2>2. Base(base) = base  BY BaseIs, NothingIsEmpty DEF Valid
  <2>3. "contactName" \notin DOMAIN base  BY DEF Valid
  <2> QED BY <2>1, <2>2, <2>3 DEF ValidArticle
<1>2. Block(base, "price") = base["price"]  BY <1>1 DEF Block, Field
<1>3. PriceFits(PriceBody(base["price"], args))
  <2>1. /\ {"leadingPrice", "netPrice", "grossPrice"} \subseteq DOMAIN base["price"]
        /\ base["price"]["leadingPrice"] \in {"NET", "GROSS"}
    BY <1>1 DEF ValidArticle
  <2> QED BY <2>1, PriceReplacementFits
<1> QED BY <1>1, <1>2, <1>3, ArticleBodyFitsPrice DEF ArticlePutDrop

------------------------------------------------------------------------------
\* A line of a document names an article only if it is one.
LEMMA LineBodyFits ==
  ASSUME NEW item, Given(item, "item_type"), ~LineRefused(item), NEW taxType,
         Given(LineBody(item, taxType), "id")
  PROVE  LineBody(item, taxType)["type"] \in {"material", "service"}
<1> DEFINE plain == [item_type |-> "type", name |-> "name", description |-> "description"]
           full == [item_type |-> "type", name |-> "name", quantity |-> "quantity",
                    unit_name |-> "unitName", article_id |-> "id",
                    description |-> "description",
                    discount_percentage |-> "discountPercentage"]
           unit == [unitPrice |->
                      Mentioned(item, [tax_rate_percent |-> "taxRatePercentage",
                                       unit_price |-> IF taxType = "gross" THEN "grossAmount"
                                                      ELSE "netAmount"])]
           line == LineBody(item, taxType)
<1>1. line = IF item["item_type"] = "text" THEN Mentioned(item, plain)
             ELSE Mentioned(item, full) ++ unit
  BY DEF LineBody
<1>2. \A g \in DOMAIN plain : plain[g] # "id"  OBVIOUS
<1>3. /\ Tabled(full) /\ {"item_type", "article_id"} \subseteq DOMAIN full
      /\ full["item_type"] = "type" /\ full["article_id"] = "id"
  BY DEF Tabled
<1>4. DOMAIN unit = {"unitPrice"}  OBVIOUS
<1>5. Given(line, "id")  OBVIOUS
<1> HIDE DEF plain, full, unit, line
<1>6. \A f \in DOMAIN Mentioned(item, plain) : \E g \in DOMAIN plain : plain[g] = f
  BY MentionedIs
<1>7. item["item_type"] # "text" /\ line = Mentioned(item, full) ++ unit
  BY <1>1, <1>2, <1>5, <1>6 DEF Given
<1> DEFINE said == Mentioned(item, full)
<1>8. /\ \A f \in DOMAIN said : \E g \in DOMAIN item \cap DOMAIN full : full[g] = f
      /\ \A g \in DOMAIN item \cap DOMAIN full :
            full[g] \in DOMAIN said /\ said[full[g]] = item[g]
  BY <1>3, MentionedIs
<1> HIDE DEF said
<1>9. "type" \in DOMAIN said /\ said["type"] = item["item_type"]
  BY <1>3, <1>8 DEF Given
<1>10. DOMAIN (said ++ unit) = DOMAIN said \cup DOMAIN unit
       /\ \A f \in DOMAIN said : (said ++ unit)[f] = said[f]
  BY Laid
<1>11. "id" \in DOMAIN said /\ line["type"] = item["item_type"]
  BY <1>4, <1>5, <1>7, <1>9, <1>10 DEF Given, said
<1>12. Given(item, "article_id")
  BY <1>3, <1>8, <1>11 DEF Tabled, Given
<1> QED BY <1>11, <1>12 DEF LineRefused, line

\* The dates of a document, each an object with its time of day.
DayFields == [voucher_date |-> "voucherDate", expiration_date |-> "expirationDate",
              shipping_date |-> "shippingConditions"]

LEMMA DatesAre ==
  ASSUME NEW args
  PROVE  LET dates == Mentioned(Dates(args), DayFields)
         IN  /\ DOMAIN dates \subseteq {"voucherDate", "expirationDate", "shippingConditions"}
             /\ \A f \in DOMAIN dates : "time" \in DOMAIN dates[f]
             /\ Given(args, "expiration_date") => "expirationDate" \in DOMAIN dates
             /\ Given(args, "shipping_date") => "shippingConditions" \in DOMAIN dates
<1> DEFINE days == Dates(args)
           dates == Mentioned(days, DayFields)
<1>1. /\ Tabled(DayFields)
      /\ DOMAIN DayFields = {"voucher_date", "expiration_date", "shipping_date"}
      /\ DayFields["voucher_date"] = "voucherDate"
      /\ DayFields["expiration_date"] = "expirationDate"
      /\ DayFields["shipping_date"] = "shippingConditions"
  BY DEF Tabled, DayFields
<1>2. /\ DOMAIN days = DOMAIN args \cap {"voucher_date", "expiration_date", "shipping_date"}
      /\ \A g \in DOMAIN days : days[g] = AtMidnight(args[g])
  BY DEF Dates
<1>3. \A date : "time" \in DOMAIN AtMidnight(date)
  <2> SUFFICES ASSUME NEW date PROVE "time" \in DOMAIN AtMidnight(date)  OBVIOUS
  <2> DEFINE time == [time |-> "T00:00:00.000Z"]
  <2>1. DOMAIN time = {"time"}  OBVIOUS
  <2> HIDE DEF time
  <2>2. DOMAIN (date ++ time) = DOMAIN date \cup DOMAIN time  BY Laid
  <2> QED BY <2>1, <2>2 DEF AtMidnight, time
<1> HIDE DEF days
<1>4. /\ \A f \in DOMAIN dates : \E g \in DOMAIN days \cap DOMAIN DayFields : DayFields[g] = f
      /\ \A g \in DOMAIN days \cap DOMAIN DayFields :
            DayFields[g] \in DOMAIN dates /\ dates[DayFields[g]] = days[g]
  BY <1>1, MentionedIs
<1> HIDE DEF dates
<1>5. DOMAIN dates \subseteq {"voucherDate", "expirationDate", "shippingConditions"}
  BY <1>1, <1>4
<1>6. \A f \in DOMAIN dates : "time" \in DOMAIN dates[f]  BY <1>2, <1>3, <1>4
<1>7. /\ Given(args, "expiration_date") => "expirationDate" \in DOMAIN dates
      /\ Given(args, "shipping_date") => "shippingConditions" \in DOMAIN dates
  BY <1>1, <1>2, <1>4 DEF Given
<1> QED BY <1>5, <1>6, <1>7 DEF dates, days

\* Its body, the path's type and the parameters beside them.
LEMMA DocumentBodyFits ==
  ASSUME NEW args
  PROVE  LET lines == [i \in DOMAIN args.items |-> LineBody(args.items[i], args.tax_type)]
             dates == Mentioned(Dates(args), DayFields)
             body  == SalesDocumentBody(args)
         IN  /\ DOMAIN body
                   \subseteq {"address", "taxConditions", "lineItems", "title", "introduction",
                              "remark"} \cup DOMAIN dates
             /\ "lineItems" \in DOMAIN body /\ body["lineItems"] = lines
             /\ \A f \in DOMAIN dates : f \in DOMAIN body /\ body[f] = dates[f]
<1> DEFINE words == [title |-> "title", introduction |-> "introduction", remark |-> "remark"]
           lines == [i \in DOMAIN args.items |-> LineBody(args.items[i], args.tax_type)]
           main == [address |-> [contactId |-> args.contact_id],
                    taxConditions |-> [taxType |-> args.tax_type], lineItems |-> lines]
           dates == Mentioned(Dates(args), DayFields)
           w == Mentioned(args, words)
           p == dates ++ main
           body == p ++ w
<1>1. SalesDocumentBody(args) = body  BY DEF SalesDocumentBody, DayFields
<1>2. DOMAIN main = {"address", "taxConditions", "lineItems"} /\ main["lineItems"] = lines
  OBVIOUS
<1>3. \A g \in DOMAIN words : words[g] \in {"title", "introduction", "remark"}  OBVIOUS
<1> HIDE DEF words, main
<1>4. DOMAIN w \subseteq {"title", "introduction", "remark"}
  <2>1. \A f \in DOMAIN w : \E g \in DOMAIN words : words[g] = f  BY MentionedIs
  <2> QED BY <1>3, <2>1
<1>5. DOMAIN dates \subseteq {"voucherDate", "expirationDate", "shippingConditions"}
  BY Zenon, DatesAre
<1> HIDE DEF dates, w, lines
<1>6. /\ DOMAIN p = DOMAIN dates \cup DOMAIN main
      /\ \A f \in DOMAIN dates : p[f] = dates[f]
      /\ \A f \in DOMAIN main : f \notin DOMAIN dates => p[f] = main[f]
  BY Laid
<1> HIDE DEF p
<1>7. /\ DOMAIN body = DOMAIN p \cup DOMAIN w
      /\ \A f \in DOMAIN p : body[f] = p[f]
  BY Laid
<1> HIDE DEF body
<1>8. /\ DOMAIN body
            \subseteq {"address", "taxConditions", "lineItems", "title", "introduction",
                       "remark"} \cup DOMAIN dates
      /\ "lineItems" \in DOMAIN body /\ body["lineItems"] = lines
      /\ \A f \in DOMAIN dates : f \in DOMAIN body /\ body[f] = dates[f]
  BY <1>2, <1>4, <1>5, <1>6, <1>7
<1> QED BY <1>1, <1>8 DEF lines, dates

LEMMA DocumentCreationFits ==
  ASSUME NEW args, \A i \in DOMAIN args.items : Given(args.items[i], "item_type"),
         ~LacksTypeField(args), \A i \in DOMAIN args.items : ~LineRefused(args.items[i])
  PROVE  /\ BodyFits("document", CreateDocument(args))
         /\ ~Refusable("create", "document", CreateDocument(args))
<1> DEFINE body == SalesDocumentBody(args)
           dates == Mentioned(Dates(args), DayFields)
           lines == [i \in DOMAIN args.items |-> LineBody(args.items[i], args.tax_type)]
           path == [type |-> args.document_type]
           names == [preceding_sales_voucher_id |-> "precedingSalesVoucherId"]
           follows == Mentioned(args, names)
           issued == IF Finalizes(args) THEN [finalize |-> TRUE] ELSE Nothing
           p == body ++ path
           q == p ++ follows
           request == q ++ issued
<1>1. CreateDocument(args) = request  BY DEF CreateDocument
<1>2. /\ DOMAIN body
            \subseteq {"address", "taxConditions", "lineItems", "title", "introduction",
                       "remark"} \cup DOMAIN dates
      /\ "lineItems" \in DOMAIN body /\ body["lineItems"] = lines
      /\ \A f \in DOMAIN dates : f \in DOMAIN body /\ body[f] = dates[f]
  BY Zenon, DocumentBodyFits
<1>3. /\ DOMAIN dates \subseteq {"voucherDate", "expirationDate", "shippingConditions"}
      /\ \A f \in DOMAIN dates : "time" \in DOMAIN dates[f]
      /\ Given(args, "expiration_date") => "expirationDate" \in DOMAIN dates
      /\ Given(args, "shipping_date") => "shippingConditions" \in DOMAIN dates
  BY Zenon, DatesAre
<1>4. DOMAIN path = {"type"} /\ path["type"] = args.document_type  OBVIOUS
<1>5. DOMAIN names = {"preceding_sales_voucher_id"}
      /\ names["preceding_sales_voucher_id"] = "precedingSalesVoucherId"
  OBVIOUS
<1>6. DOMAIN issued \subseteq {"finalize"}  BY NothingIsEmpty
<1> HIDE DEF body, dates, path, names, issued
<1>7. DOMAIN follows \subseteq {"precedingSalesVoucherId"}
      /\ (Given(args, "preceding_sales_voucher_id") => "precedingSalesVoucherId" \in DOMAIN follows)
  <2>1. /\ \A f \in DOMAIN follows : \E g \in DOMAIN args \cap DOMAIN names : names[g] = f
        /\ \A g \in DOMAIN args \cap DOMAIN names : names[g] \in DOMAIN follows
    BY MentionedIs
  <2> HIDE DEF follows
  <2> QED BY <1>5, <2>1 DEF Given
<1> HIDE DEF follows
<1>8. /\ DOMAIN p = DOMAIN body \cup DOMAIN path
      /\ \A f \in DOMAIN body : p[f] = body[f]
      /\ \A f \in DOMAIN path : f \notin DOMAIN body => p[f] = path[f]
  BY Laid
<1> HIDE DEF p
<1>9. /\ DOMAIN q = DOMAIN p \cup DOMAIN follows
      /\ \A f \in DOMAIN p : q[f] = p[f]
  BY Laid
<1> HIDE DEF q
<1>10. /\ DOMAIN request = DOMAIN q \cup DOMAIN issued
       /\ \A f \in DOMAIN q : request[f] = q[f]
  BY Laid
<1> HIDE DEF request
<1>11. BodyFits("document", request)
  BY <1>2, <1>3, <1>4, <1>6, <1>7, <1>8, <1>9, <1>10 DEF BodyFits
<1>12. /\ \A f \in DOMAIN body : f \in DOMAIN request /\ request[f] = body[f]
       /\ "type" \in DOMAIN request /\ request["type"] = args.document_type
       /\ DOMAIN follows \subseteq DOMAIN request
       /\ DOMAIN request \subseteq DOMAIN body \cup {"type", "precedingSalesVoucherId", "finalize"}
  BY <1>2, <1>3, <1>4, <1>6, <1>7, <1>8, <1>9, <1>10
<1>13. ~LacksPart(request)
  BY <1>2, <1>3, <1>7, <1>12 DEF LacksTypeField, LacksPart, ShippingRequired
<1>14. \A f \in {"voucherDate", "expirationDate", "shippingConditions"} \cap DOMAIN request :
          "time" \in DOMAIN request[f]
  BY <1>2, <1>3, <1>12
<1>15. request["lineItems"] = lines  BY <1>2, <1>12
<1>16. \A i \in DOMAIN lines : Given(lines[i], "id") => lines[i]["type"] \in {"material", "service"}
  BY LineBodyFits
<1> HIDE DEF lines
<1>17. ~Refusable("create", "document", request)
  BY <1>13, <1>14, <1>15, <1>16 DEF Refusable
<1> QED BY <1>1, <1>11, <1>17

LEMMA ContactNotRefusable ==
  ASSUME NEW does, NEW body, BodyFits("contact", body) PROVE ~Refusable(does, "contact", body)
  BY DEF BodyFits, ContactBodyFits, Refusable

LEMMA ArticleNotRefusable == \A does, body : ~Refusable(does, "article", body)
  BY DEF Refusable

\* A creation's body.
LEMMA CreationFits ==
  ASSUME NEW a, IsAsk(a), a.does = "create", ~RefusedAtOnce(a)
  PROVE  /\ BodyFits(a.kind, Creation(a.kind, a.args))
         /\ DOMAIN a.args \cap {"total_gross_amount", "total_tax_amount"} = {}
               => ~Refusable("create", a.kind, Creation(a.kind, a.args))
<1> DEFINE args == a.args
<1>1. a.kind \in Kinds /\ CreateNeeds[a.kind] \subseteq DOMAIN args
      /\ DOMAIN args \subseteq CreateTakes[a.kind]
  BY DEF IsAsk
<1>2. CASE a.kind = "contact"
  <2>1. Given(args, "name")  BY <1>1, <1>2 DEF CreateNeeds, Given
  <2>2. BodyFits("contact", ContactBody(Nothing, args))  BY <2>1, ContactCreationFits
  <2> QED BY <1>2, <2>2, ContactNotRefusable DEF Creation, CreateContact
<1>3. CASE a.kind = "voucher"
  <2>1. Creation(a.kind, args) = CreateVoucher(args)  BY <1>3 DEF Creation
  <2> QED BY <1>1, <1>3, <2>1, VoucherCreationFits
<1>4. CASE a.kind = "article"
  <2>1. Given(args, "price") /\ Given(args, "leading_price")
    BY <1>1, <1>4 DEF CreateNeeds, Given
  <2>2. args["leading_price"] \in {"NET", "GROSS"}  BY <2>1 DEF IsAsk, Field, Given
  <2>3. BodyFits("article", ArticleBody(Nothing, args))  BY <2>1, <2>2, ArticleCreationFits
  <2> QED BY <1>4, <2>3, ArticleNotRefusable DEF Creation, CreateArticle
<1>5. CASE a.kind = "document"
  <2>1. \A i \in DOMAIN args.items : Given(args.items[i], "item_type")
    BY <1>5 DEF IsAsk
  <2>2. ~CreateDocumentRefuses(args)  BY <1>5 DEF RefusedAtOnce
  <2>3. ~LacksTypeField(args) /\ \A i \in DOMAIN args.items : ~LineRefused(args.items[i])
    BY <2>2 DEF CreateDocumentRefuses
  <2> QED BY <1>5, <2>1, <2>3, DocumentCreationFits DEF Creation
<1> QED BY <1>1, <1>2, <1>3, <1>4, <1>5 DEF Kinds

\* And a replacement's.
LEMMA ReplacementFits ==
  ASSUME NEW a, IsAsk(a), a.does = "update", ~RefusedAtOnce(a), NEW base, Valid(a.kind, base)
  PROVE  /\ BodyFits(a.kind, Replacement(a.kind, base, a.args))
         /\ DOMAIN a.args \cap {"total_gross_amount", "total_tax_amount"} = {}
               => ~Refusable("update", a.kind, Replacement(a.kind, base, a.args))
<1> DEFINE args == a.args
<1>1. /\ a.kind \in {"contact", "voucher", "article"} /\ DOMAIN args \subseteq UpdateTakes[a.kind]
      /\ Field(args, "use_collective_contact", TRUE) \in BOOLEAN
      /\ Field(args, "leading_price", "NET") \in {"NET", "GROSS"}
  BY DEF IsAsk, UpdateTakes
<1>2. CASE a.kind = "contact"
  <2>1. ~Given(args, "kind")  BY <1>1, <1>2 DEF UpdateTakes, Given
  <2>2. BodyFits("contact", ContactBody(base, args))  BY <1>2, <2>1, ContactReplacementFits
  <2> QED BY <1>2, <2>2, ContactNotRefusable DEF Replacement, UpdateContact
<1>3. CASE a.kind = "voucher"
  <2>1. ~TwoContactsOrNone(args)
    <3>1. ~UpdateVoucherRefuses(args)  BY <1>3 DEF RefusedAtOnce
    <3> QED BY <3>1 DEF UpdateVoucherRefuses
  <2>2. Given(args, "use_collective_contact") => args["use_collective_contact"] \in BOOLEAN
    BY <1>1 DEF Field, Given
  <2>3. base # Nothing  BY NothingIsEmpty DEF Valid
  <2>4. Replacement(a.kind, base, args) = VoucherBody(base, args)
    BY <1>3 DEF Replacement, UpdateVoucher
  <2>5. /\ BodyFits("voucher", VoucherBody(base, args))
        /\ \A does : (/\ DOMAIN args \cap {"total_gross_amount", "total_tax_amount"} = {}
                      /\ does = "create" => ~Finalizes(args))
                     => ~Refusable(does, "voucher", VoucherBody(base, args))
    BY <1>3, <2>1, <2>2, <2>3, VoucherFits
  <2>6. BodyFits(a.kind, VoucherBody(base, args))  BY <1>3, <2>5
  <2>7. DOMAIN args \cap {"total_gross_amount", "total_tax_amount"} = {}
          => ~Refusable("update", a.kind, VoucherBody(base, args))
    BY <1>3, <2>5
  <2> QED BY <2>4, <2>6, <2>7
<1>4. CASE a.kind = "article"
  <2>1. BodyFits("article", ArticleBody(base, args))  BY <1>1, <1>4, ArticleReplacementFits
  <2> QED BY <1>4, <2>1, ArticleNotRefusable DEF Replacement, UpdateArticle
<1> QED BY <1>1, <1>2, <1>3, <1>4
------------------------------------------------------------------------------
\* The books only ever go on: a record keeps its place and its kind, and stays
\* what it is, gets a later version, or is gone for good.
Later(old, new) ==
    \/ new = Nothing
    \/ new = old
    \/ old # Nothing /\ new.version > old.version

BooksGrow(b, d) ==
    \A i \in DOMAIN b : /\ i \in DOMAIN d /\ d[i].kind = b[i].kind
                        /\ Later(b[i].doc, d[i].doc)

LEMMA TracksLater ==
  ASSUME NEW b, NEW d, BooksStand(b), BooksStand(d), BooksGrow(b, d), NEW x, Tracks(b, x)
  PROVE  Tracks(d, x)
<1> DEFINE id == x.ask.id
           old == b[id].doc
           new == d[id].doc
<1>1. /\ id \in DOMAIN b /\ id \in DOMAIN d /\ d[id].kind = x.ask.kind
      /\ x.seen.version \in Nat /\ Later(old, new)
  BY DEF Tracks, BooksGrow
<1>2. old # Nothing => old.version \in Nat  BY <1>1 DEF BooksStand, IsRecord, Valid
<1>3. new # Nothing => new.version \in Nat  BY <1>1 DEF BooksStand, IsRecord, Valid
<1>4. old # Nothing => /\ old.version >= x.seen.version
                       /\ old.version = x.seen.version => View(x.by, x.ask.kind, old) = x.seen
  BY DEF Tracks
<1> HIDE DEF old, new
<1>5. new # Nothing => /\ new.version >= x.seen.version
                       /\ new.version = x.seen.version => View(x.by, x.ask.kind, new) = x.seen
  <2> SUFFICES ASSUME new # Nothing
               PROVE  /\ new.version >= x.seen.version
                      /\ new.version = x.seen.version => View(x.by, x.ask.kind, new) = x.seen
    OBVIOUS
  <2>1. CASE new = old  BY <1>4, <2>1
  <2>2. CASE old # Nothing /\ new.version > old.version
    BY <1>1, <1>2, <1>3, <1>4, <2>2
  <2> QED BY <1>1, <2>1, <2>2 DEF Later
<1> QED BY <1>1, <1>5 DEF Tracks, new

LEMMA RestsOnLater ==
  ASSUME NEW b, NEW d, BooksStand(b), BooksStand(d), BooksGrow(b, d), NEW x, RestsOn(b, x),
         x.ask.id \in DOMAIN b
  PROVE  RestsOn(d, x)
<1> DEFINE id == x.ask.id
           old == b[id].doc
           new == d[id].doc
<1>1. /\ id \in DOMAIN b /\ id \in DOMAIN d /\ Later(old, new)
      /\ Valid(x.ask.kind, x.base) /\ x.base.version \in Nat
  BY DEF RestsOn, BooksGrow, Valid
<1>2. old # Nothing => old.version \in Nat  BY <1>1 DEF BooksStand, IsRecord, Valid
<1>3. new # Nothing => new.version \in Nat  BY <1>1 DEF BooksStand, IsRecord, Valid
<1>4. old # Nothing => /\ old.version >= x.base.version
                       /\ old.version = x.base.version => old = x.base
  BY DEF RestsOn
<1> HIDE DEF old, new
<1>5. new # Nothing => /\ new.version >= x.base.version
                       /\ new.version = x.base.version => new = x.base
  <2> SUFFICES ASSUME new # Nothing
               PROVE  /\ new.version >= x.base.version
                      /\ new.version = x.base.version => new = x.base
    OBVIOUS
  <2>1. CASE new = old  BY <1>4, <2>1
  <2>2. CASE old # Nothing /\ new.version > old.version
    BY <1>1, <1>2, <1>3, <1>4, <2>2
  <2> QED BY <1>1, <2>1, <2>2 DEF Later
<1> QED BY <1>1, <1>5 DEF RestsOn, new

LEMMA CallStandsLater ==
  ASSUME NEW b, NEW d, BooksStand(b), BooksStand(d), BooksGrow(b, d), NEW c, NEW x,
         NEW on \in BOOLEAN, CallStands(c, x, on, b)
  PROVE  CallStands(c, x, on, d)
<1>1. Tracks(b, x) => Tracks(d, x)  BY TracksLater
<1>2. Tracks(b, x) /\ RestsOn(b, x) => RestsOn(d, x)
  BY RestsOnLater DEF Tracks
<1> QED BY <1>1, <1>2 DEF CallStands

LEMMA BooksStay ==
  ASSUME NEW b PROVE BooksGrow(b, b)
  BY DEF BooksGrow, Later

LEMMA StepStands ==
  ASSUME WriteInv, NEW c \in Calls, DOMAIN call' = Calls,
         \A d \in Calls \ {c} : call'[d] = call[d] /\ (d \in wire' <=> d \in wire),
         wire' \subseteq Calls, BooksStand(books'), BooksGrow(books, books'),
         CallStands(c, call'[c], c \in wire', books')
  PROVE  WriteInv'
<1>1. ASSUME NEW d \in Calls \ {c} PROVE CallStands(d, call'[d], d \in wire', books')
  <2> DEFINE on == d \in wire
  <2>0. on \in BOOLEAN  OBVIOUS
  <2>1. CallStands(d, call[d], on, books) /\ BooksStand(books)  BY DEF WriteInv
  <2>3. (d \in wire') = on /\ call'[d] = call[d]  OBVIOUS
  <2> HIDE DEF on
  <2>2. CallStands(d, call[d], on, books')  BY <2>0, <2>1, CallStandsLater
  <2> QED BY <2>2, <2>3
<1> QED BY <1>1 DEF WriteInv

\* A call that ends with its request on its way or not.
LEMMA EndedStands ==
  ASSUME NEW c, NEW x, NEW on \in BOOLEAN, NEW b, CallStands(c, x, on, b),
         NEW y, NEW still \in BOOLEAN, still => on,
         DOMAIN y = DOMAIN x, y.pc \in {x.pc, "ended"},
         \A f \in {"ask", "by", "seen", "base", "body"} : y[f] = x[f]
  PROVE  CallStands(c, y, still, b)
<1>1. /\ DOMAIN y = {"pc", "ask", "by", "seen", "base", "body", "told"} /\ y.pc \in CallPcs
      /\ still => y.pc \in {"sent", "ended"}
      /\ y.pc \in CallPcs \ {"idle", "ended"} \/ still => y.ask \in Asks[c]
      /\ y.pc = "read" \/ still => ~RefusedAtOnce(y.ask)
      /\ y.pc = "read" => y.ask.does = "update"
  BY DEF CallStands, CallPcs
<1>2. (y.pc \in {"looked", "read"} \/ still) /\ y.ask.does = "update" => Tracks(b, y)
  BY DEF CallStands, Tracks
<1>3. (y.pc = "read" \/ still) /\ y.ask.does = "update" => RestsOn(b, y)
  BY DEF CallStands, RestsOn
<1>4. still => Made(y)
  BY DEF CallStands, Made
<1> QED BY <1>1, <1>2, <1>3, <1>4 DEF CallStands
------------------------------------------------------------------------------
\* What each action does to the books and to its call.
LEMMA AsksAreAsks ==
  ASSUME WriteToolsAssumption, NEW c \in Calls, NEW a \in Asks[c] PROVE IsAsk(a)
  BY DEF WriteToolsAssumption

LEMMA UpdatesAreOfThree ==
  ASSUME NEW a, IsAsk(a), a.does = "update" PROVE a.kind \in {"contact", "voucher", "article"}
  BY DEF IsAsk, UpdateTakes

\* An action that leaves the books alone and changes no wire.
LEMMA QuietStep ==
  ASSUME WriteInv, NEW c \in Calls, UNCHANGED <<books, wire>>, DOMAIN call' = Calls,
         \A d \in Calls \ {c} : call'[d] = call[d],
         CallStands(c, call'[c], c \in wire, books)
  PROVE  WriteInv'
<1>1. BooksStand(books) /\ wire \subseteq Calls /\ BooksGrow(books, books)
  BY BooksStay DEF WriteInv
<1>2. books' = books /\ wire' = wire  OBVIOUS
<1>3. BooksStand(books') /\ BooksGrow(books, books') /\ wire' \subseteq Calls
  BY <1>1, <1>2
<1>4. CallStands(c, call'[c], c \in wire', books')  BY <1>2
<1> QED BY <1>2, <1>3, <1>4, StepStands

LEMMA EndsIs ==
  ASSUME WriteInv, NEW c \in Calls, NEW told, Ends(c, told)
  PROVE  /\ DOMAIN call' = Calls
         /\ \A d \in Calls \ {c} : call'[d] = call[d]
         /\ DOMAIN call'[c] = DOMAIN call[c] /\ call'[c].pc = "ended"
         /\ \A f \in {"ask", "by", "seen", "base", "body"} : call'[c][f] = call[c][f]
<1>1. DOMAIN call = Calls /\ DOMAIN call[c] = {"pc", "ask", "by", "seen", "base", "body", "told"}
  BY DEF WriteInv, CallStands
<1> DEFINE y == [call[c] EXCEPT !.pc = "ended", !.told = told]
<1>2. call' = [call EXCEPT ![c] = y]  BY DEF Ends
<1>3. /\ DOMAIN y = DOMAIN call[c] /\ y.pc = "ended"
      /\ \A f \in {"ask", "by", "seen", "base", "body"} : y[f] = call[c][f]
  BY <1>1
<1> HIDE DEF y
<1>4. call'[c] = y /\ DOMAIN call' = Calls /\ \A d \in Calls \ {c} : call'[d] = call[d]
  BY <1>1, <1>2
<1> QED BY <1>3, <1>4

LEMMA EndsStands ==
  ASSUME WriteInv, NEW c \in Calls, NEW told, Ends(c, told), UNCHANGED <<books, wire>>
  PROVE  WriteInv'
<1>1. /\ DOMAIN call' = Calls
      /\ \A d \in Calls \ {c} : call'[d] = call[d]
      /\ DOMAIN call'[c] = DOMAIN call[c] /\ call'[c].pc = "ended"
      /\ \A f \in {"ask", "by", "seen", "base", "body"} : call'[c][f] = call[c][f]
  BY EndsIs
<1> DEFINE on == c \in wire
<1>2. on \in BOOLEAN  OBVIOUS
<1>3. CallStands(c, call[c], on, books)  BY DEF WriteInv
<1> HIDE DEF on
<1> DEFINE y == call'[c]
<1>4. DOMAIN y = DOMAIN call[c] /\ y.pc \in {call[c].pc, "ended"}
      /\ \A f \in {"ask", "by", "seen", "base", "body"} : y[f] = call[c][f]
  BY <1>1
<1> HIDE DEF y
<1>5. CallStands(c, y, on, books)  BY <1>2, <1>3, <1>4, EndedStands
<1> QED BY <1>1, <1>5, QuietStep DEF y, on

\* What a call sees it can rest on, and a row of a voucher is but found.
LEMMA SeesStands ==
  ASSUME WriteToolsAssumption, WriteInv, NEW c \in Calls, NEW a \in Asks[c], NEW by, NEW pc,
         Sees(c, a, by, pc), UNCHANGED <<books, wire>>, call[c].pc \in {"idle", "found"},
         pc = "looked" \/ pc = "found", Lives(a.kind, a.id),
         pc = "looked" => by # "search" \/ a.kind # "voucher"
  PROVE  WriteInv'
<1> DEFINE doc == books[a.id].doc
           y == [call[c] EXCEPT !.pc = pc, !.ask = a, !.by = by, !.seen = View(by, a.kind, doc)]
<1>1. /\ DOMAIN call = Calls /\ DOMAIN call[c] = {"pc", "ask", "by", "seen", "base", "body", "told"}
      /\ c \notin wire
  BY DEF WriteInv, CallStands
<1>2. call' = [call EXCEPT ![c] = y]  BY DEF Sees
<1>3. a.id \in DOMAIN books /\ books[a.id].kind = a.kind /\ doc # Nothing /\ Valid(a.kind, doc)
  BY DEF Lives, WriteInv, BooksStand, IsRecord
<1>4. doc.version \in Nat /\ "version" \in DOMAIN doc  BY <1>3 DEF Valid
<1>5. DOMAIN y = DOMAIN call[c] /\ y.pc = pc /\ y.ask = a /\ y.by = by
      /\ y.seen = View(by, a.kind, doc)
  BY <1>1
<1> HIDE DEF y
<1>6. call'[c] = y /\ DOMAIN call' = Calls /\ \A d \in Calls \ {c} : call'[d] = call[d]
  BY <1>1, <1>2
<1>7. pc = "looked" /\ a.does = "update" => Tracks(books, y)
  <2> SUFFICES ASSUME pc = "looked", a.does = "update" PROVE Tracks(books, y)
    OBVIOUS
  <2>1. a.kind \in {"contact", "voucher", "article"}  BY AsksAreAsks, UpdatesAreOfThree
  <2>2. View(by, a.kind, doc).version = doc.version
    <3> HIDE DEF doc
    <3> QED BY <1>4, <2>1, ViewHasVersion
  <2> QED BY <1>3, <1>4, <1>5, <2>2 DEF Tracks
<1>8. CallStands(c, y, FALSE, books)
  BY <1>1, <1>5, <1>7 DEF CallStands, CallPcs
<1>9. (c \in wire) = FALSE  BY <1>1
<1>10. CallStands(c, call'[c], c \in wire, books)  BY <1>6, <1>8, <1>9
<1> QED BY <1>6, <1>10, QuietStep

LEMMA AskStands ==
  ASSUME WriteInv, NEW c \in Calls, Ask(c) PROVE WriteInv'
<1>1. PICK a \in Asks[c] : a.does # "update" /\ call' = [call EXCEPT ![c].pc = "looked", ![c].ask = a]
  BY DEF Ask
<1> DEFINE y == [call[c] EXCEPT !.pc = "looked", !.ask = a]
<1>2. /\ DOMAIN call = Calls /\ DOMAIN call[c] = {"pc", "ask", "by", "seen", "base", "body", "told"}
      /\ c \notin wire
  BY DEF WriteInv, CallStands, Ask
<1>3. call' = [call EXCEPT ![c] = y]  BY <1>1
<1>4. DOMAIN y = DOMAIN call[c] /\ y.pc = "looked" /\ y.ask = a  BY <1>2
<1> HIDE DEF y
<1>5. call'[c] = y /\ DOMAIN call' = Calls /\ \A d \in Calls \ {c} : call'[d] = call[d]
  BY <1>2, <1>3
<1>6. CallStands(c, y, FALSE, books)  BY <1>1, <1>2, <1>4 DEF CallStands, CallPcs
<1>7. (c \in wire) = FALSE  BY <1>2
<1>8. CallStands(c, call'[c], c \in wire, books)  BY <1>5, <1>6, <1>7
<1>9. UNCHANGED <<books, wire>>  BY DEF Ask
<1> QED BY <1>5, <1>8, <1>9, QuietStep

LEMMA SearchStands ==
  ASSUME WriteToolsAssumption, WriteInv, NEW c \in Calls, Search(c) PROVE WriteInv'
<1>1. PICK a \in Asks[c] :
         /\ Lives(a.kind, a.id)
         /\ SearchContacts(c, a) \/ SearchArticles(c, a) \/ SearchVouchers(c, a)
  BY DEF Search
<1>2. PICK pc \in {"looked", "found"} : /\ Sees(c, a, "search", pc)
                                        /\ pc = "looked" => a.kind # "voucher"
  BY <1>1 DEF SearchContacts, SearchArticles, SearchVouchers
<1>3. UNCHANGED <<books, wire>> /\ call[c].pc \in {"idle", "found"}  BY DEF Search
<1> QED BY <1>1, <1>2, <1>3, SeesStands

LEMMA WantsAreAsks ==
  ASSUME WriteInv, NEW c \in Calls, call[c].pc \in {"idle", "found"}, NEW a \in Wants(c)
  PROVE  a \in Asks[c]
  BY DEF WriteInv, CallStands, CallPcs, Wants

LEMMA GetRecordStands ==
  ASSUME WriteToolsAssumption, WriteInv, NEW c \in Calls, GetRecord(c) PROVE WriteInv'
<1>1. PICK a \in Wants(c) :
         IF Lives(a.kind, a.id) THEN Sees(c, a, "get", "looked") ELSE Ends(c, "undone")
  BY DEF GetRecord
<1>2. UNCHANGED <<books, wire>> /\ call[c].pc \in {"idle", "found"}  BY DEF GetRecord
<1>3. a \in Asks[c]  BY <1>2, WantsAreAsks
<1>4. CASE Lives(a.kind, a.id)
  <2>1. Sees(c, a, "get", "looked")  BY <1>1, <1>4
  <2> QED BY <1>2, <1>3, <1>4, <2>1, SeesStands
<1>5. CASE ~Lives(a.kind, a.id)
  <2>1. Ends(c, "undone")  BY <1>1, <1>5
  <2> QED BY <1>2, <2>1, EndsStands
<1> QED BY <1>4, <1>5

LEMMA GetByNumberStands ==
  ASSUME WriteToolsAssumption, WriteInv, NEW c \in Calls, GetByNumber(c) PROVE WriteInv'
<1>1. PICK n \in Numbers, a \in Wants(c) :
         /\ a.kind = "voucher"
         /\ IF WithNumber(n) = {a.id} THEN Sees(c, a, "number", "looked")
            ELSE Cardinality(WithNumber(n)) # 1 /\ Ends(c, "undone")
  BY DEF GetByNumber
<1>2. UNCHANGED <<books, wire>> /\ call[c].pc \in {"idle", "found"}  BY DEF GetByNumber
<1>3. a \in Asks[c]  BY <1>2, WantsAreAsks
<1>4. CASE WithNumber(n) = {a.id}
  <2>1. Sees(c, a, "number", "looked")  BY <1>1, <1>4
  <2>2. Lives(a.kind, a.id)  BY <1>1, <1>4 DEF WithNumber
  <2> QED BY <1>2, <1>3, <2>1, <2>2, SeesStands
<1>5. CASE WithNumber(n) # {a.id}
  <2>1. Ends(c, "undone")  BY <1>1, <1>5
  <2> QED BY <1>2, <2>1, EndsStands
<1> QED BY <1>4, <1>5

LEMMA RefuseStands ==
  ASSUME WriteInv, NEW c \in Calls, Refuse(c) PROVE WriteInv'
<1>1. Ends(c, "undone") /\ UNCHANGED <<books, wire>>  BY DEF Refuse
<1> QED BY <1>1, EndsStands

LEMMA SendStands ==
  ASSUME WriteInv, NEW c \in Calls, Send(c) PROVE WriteInv'
<1> DEFINE body == IF call[c].ask.does = "delete" THEN Nothing
                   ELSE Creation(call[c].ask.kind, call[c].ask.args)
           y == [call[c] EXCEPT !.pc = "sent", !.body = body]
<1>1. /\ DOMAIN call = Calls /\ DOMAIN call[c] = {"pc", "ask", "by", "seen", "base", "body", "told"}
      /\ call[c].ask \in Asks[c] /\ call[c].ask.does # "update" /\ ~RefusedAtOnce(call[c].ask)
      /\ call' = [call EXCEPT ![c] = y] /\ wire' = wire \cup {c} /\ books' = books
      /\ wire \subseteq Calls /\ BooksStand(books)
  BY DEF WriteInv, CallStands, CallPcs, Send
<1>2. call[c].ask.does = "create" => body = Creation(call[c].ask.kind, call[c].ask.args)
  OBVIOUS
<1> HIDE DEF body
<1>3. DOMAIN y = DOMAIN call[c] /\ y.pc = "sent" /\ y.ask = call[c].ask /\ y.body = body  BY <1>1
<1> HIDE DEF y
<1>4. call'[c] = y /\ DOMAIN call' = Calls /\ \A d \in Calls \ {c} : call'[d] = call[d]
  BY <1>1
<1>5. Made(y)  BY <1>1, <1>2, <1>3 DEF Made
<1>6. CallStands(c, y, TRUE, books)  BY <1>1, <1>3, <1>5 DEF CallStands, CallPcs
<1>7. (c \in wire') = TRUE  BY <1>1
<1>8. CallStands(c, call'[c], c \in wire', books')  BY <1>1, <1>4, <1>6, <1>7
<1>9. BooksStand(books') /\ BooksGrow(books, books') /\ wire' \subseteq Calls
  BY <1>1, BooksStay
<1>10. \A d \in Calls \ {c} : call'[d] = call[d] /\ (d \in wire' <=> d \in wire)
  BY <1>1, <1>4
<1> QED BY <1>4, <1>8, <1>9, <1>10, StepStands

LEMMA ReadStands ==
  ASSUME WriteInv, NEW c \in Calls, Read(c) PROVE WriteInv'
<1>1. UNCHANGED <<books, wire>>  BY DEF Read
<1>2. CASE ~Found(c)
  <2>1. Ends(c, "undone")  BY <1>2 DEF Read
  <2> QED BY <1>1, <2>1, EndsStands
<1>3. CASE Found(c)
  <2> DEFINE y == [call[c] EXCEPT !.pc = "read", !.base = Doc(c)]
  <2>1. /\ DOMAIN call = Calls /\ DOMAIN call[c] = {"pc", "ask", "by", "seen", "base", "body", "told"}
        /\ call[c].ask \in Asks[c] /\ call[c].ask.does = "update" /\ ~RefusedAtOnce(call[c].ask)
        /\ call' = [call EXCEPT ![c] = y] /\ c \notin wire /\ Tracks(books, call[c])
    BY <1>3 DEF WriteInv, CallStands, CallPcs, Read
  <2>2. /\ DOMAIN y = DOMAIN call[c] /\ y.pc = "read" /\ y.base = Doc(c)
        /\ y.ask = call[c].ask /\ y.by = call[c].by /\ y.seen = call[c].seen
    BY <2>1
  <2> HIDE DEF y
  <2>3. call'[c] = y /\ DOMAIN call' = Calls /\ \A d \in Calls \ {c} : call'[d] = call[d]
    BY <2>1
  <2>4. /\ call[c].ask.id \in DOMAIN books /\ Doc(c) = books[call[c].ask.id].doc
        /\ Valid(call[c].ask.kind, Doc(c))
    BY <1>3 DEF Found, Lives, Doc, WriteInv, BooksStand, IsRecord
  <2>5. Tracks(books, y)  BY <2>1, <2>2 DEF Tracks
  <2>6. RestsOn(books, y)
    <3>1. Doc(c).version \in Nat  BY <2>4 DEF Valid
    <3> QED BY <2>2, <2>4, <3>1 DEF RestsOn
  <2>7. CallStands(c, y, FALSE, books)
    BY <2>1, <2>2, <2>5, <2>6 DEF CallStands, CallPcs
  <2>8. (c \in wire) = FALSE  BY <2>1
  <2>9. CallStands(c, call'[c], c \in wire, books)  BY <2>3, <2>7, <2>8
  <2> QED BY <1>1, <2>3, <2>9, QuietStep
<1> QED BY <1>2, <1>3

LEMMA ReplaceStands ==
  ASSUME WriteInv, NEW c \in Calls, Replace(c) PROVE WriteInv'
<1>1. CASE ~(VersionHolds(c) /\ MayReplace(c))
  <2>1. Ends(c, "undone") /\ UNCHANGED <<books, wire>>  BY <1>1 DEF Replace
  <2> QED BY <2>1, EndsStands
<1>2. CASE VersionHolds(c) /\ MayReplace(c)
  <2> DEFINE body == Replacement(call[c].ask.kind, call[c].base, call[c].ask.args)
             y == [call[c] EXCEPT !.pc = "sent", !.body = body]
  <2>1. /\ DOMAIN call = Calls /\ DOMAIN call[c] = {"pc", "ask", "by", "seen", "base", "body", "told"}
        /\ call[c].ask \in Asks[c] /\ call[c].ask.does = "update" /\ ~RefusedAtOnce(call[c].ask)
        /\ call' = [call EXCEPT ![c] = y] /\ wire' = wire \cup {c} /\ books' = books
        /\ wire \subseteq Calls /\ BooksStand(books)
        /\ Tracks(books, call[c]) /\ RestsOn(books, call[c])
    BY <1>2 DEF WriteInv, CallStands, CallPcs, Replace
  <2> HIDE DEF body
  <2>2. /\ DOMAIN y = DOMAIN call[c] /\ y.pc = "sent" /\ y.body = body /\ y.base = call[c].base
        /\ y.ask = call[c].ask /\ y.by = call[c].by /\ y.seen = call[c].seen
    BY <2>1
  <2> HIDE DEF y
  <2>3. call'[c] = y /\ DOMAIN call' = Calls /\ \A d \in Calls \ {c} : call'[d] = call[d]
    BY <2>1
  <2>4. Tracks(books, y) /\ RestsOn(books, y)  BY <2>1, <2>2 DEF Tracks, RestsOn
  <2>5. Made(y)
    <3>1. y.base.version = y.seen.version  BY <1>2, <2>2 DEF VersionHolds
    <3>2. y.ask.kind = "contact" => ~UpdateContactRefuses(y.base, y.ask.args)
      BY <1>2, <2>2 DEF MayReplace
    <3>3. y.body = Replacement(y.ask.kind, y.base, y.ask.args)  BY <2>2 DEF body
    <3> QED BY <2>1, <2>2, <3>1, <3>2, <3>3 DEF Made
  <2>6. CallStands(c, y, TRUE, books)
    BY <2>1, <2>2, <2>4, <2>5 DEF CallStands, CallPcs
  <2>7. (c \in wire') = TRUE  BY <2>1
  <2>8. CallStands(c, call'[c], c \in wire', books')  BY <2>1, <2>3, <2>6, <2>7
  <2>9. BooksStand(books') /\ BooksGrow(books, books') /\ wire' \subseteq Calls
    BY <2>1, BooksStay
  <2>10. \A d \in Calls \ {c} : call'[d] = call[d] /\ (d \in wire' <=> d \in wire)
    BY <2>1, <2>3
  <2> QED BY <2>3, <2>8, <2>9, <2>10, StepStands
<1> QED BY <1>1, <1>2
------------------------------------------------------------------------------
\* A request that is answered, or of which nobody hears again.
LEMMA HeardStands ==
  ASSUME WriteInv, NEW c \in Calls, NEW told, Hears(c, told) \/ Ends(c, told)
  PROVE  /\ DOMAIN call' = Calls
         /\ \A d \in Calls \ {c} : call'[d] = call[d]
         /\ \A still \in BOOLEAN : \A b :
               (still => c \in wire) /\ CallStands(c, call[c], c \in wire, b)
                  => CallStands(c, call'[c], still, b)
<1> DEFINE y == call'[c]
           on == c \in wire
<1>1. /\ DOMAIN call' = Calls
      /\ \A d \in Calls \ {c} : call'[d] = call[d]
      /\ DOMAIN y = DOMAIN call[c] /\ y.pc \in {call[c].pc, "ended"}
      /\ \A f \in {"ask", "by", "seen", "base", "body"} : y[f] = call[c][f]
  <2>1. CASE Ends(c, told)  BY <2>1, EndsIs
  <2>2. CASE call' = call  BY <2>2 DEF WriteInv
  <2> QED BY <2>1, <2>2 DEF Hears
<1>2. on \in BOOLEAN  OBVIOUS
<1> HIDE DEF y, on
<1>3. ASSUME NEW still \in BOOLEAN, NEW b, still => on, CallStands(c, call[c], on, b)
      PROVE  CallStands(c, y, still, b)
  BY <1>1, <1>2, <1>3, EndedStands
<1> QED BY <1>1, <1>3 DEF y, on

LEMMA AnsweredStands ==
  ASSUME WriteInv, NEW c \in Calls, NEW told, Hears(c, told) \/ Ends(c, told),
         wire' = wire \/ wire' = wire \ {c}, BooksStand(books'), BooksGrow(books, books')
  PROVE  WriteInv'
<1>1. /\ DOMAIN call' = Calls
      /\ \A d \in Calls \ {c} : call'[d] = call[d]
      /\ \A still \in BOOLEAN : \A b :
            (still => c \in wire) /\ CallStands(c, call[c], c \in wire, b)
               => CallStands(c, call'[c], still, b)
  BY HeardStands
<1> DEFINE on == c \in wire
           still == c \in wire'
<1>2. on \in BOOLEAN /\ still \in BOOLEAN /\ (still => on)  OBVIOUS
<1>3. BooksStand(books) /\ CallStands(c, call[c], on, books)  BY DEF WriteInv
<1>4. \A b : CallStands(c, call[c], on, b) => CallStands(c, call'[c], still, b)
  BY <1>1, <1>2
<1>5. \A d \in Calls \ {c} : call'[d] = call[d] /\ (d \in wire' <=> d \in wire)
  BY <1>1
<1>6. wire' \subseteq Calls  BY DEF WriteInv
<1> HIDE DEF on, still
<1>7. CallStands(c, call[c], on, books')  BY <1>2, <1>3, CallStandsLater
<1>8. CallStands(c, call'[c], still, books')  BY <1>4, <1>7
<1> QED BY <1>1, <1>5, <1>6, <1>8, StepStands DEF still

LEMMA SameBooks ==
  ASSUME WriteInv, books' = books PROVE BooksStand(books') /\ BooksGrow(books, books')
<1>1. BooksStand(books) /\ BooksGrow(books, books)  BY BooksStay DEF WriteInv
<1> QED BY <1>1

LEMMA BouncesStands ==
  ASSUME WriteInv, NEW c \in Calls, Bounces(c) \/ BouncesBooked(c) PROVE WriteInv'
<1>1. Hears(c, "undone") /\ wire' = wire \ {c} /\ books' = books
  BY DEF Bounces, BouncesBooked
<1> QED BY <1>1, SameBooks, AnsweredStands

LEMMA GiveUpStands ==
  ASSUME WriteInv, NEW c \in Calls, GiveUp(c) PROVE WriteInv'
<1>1. Ends(c, "open") /\ (wire' = wire \/ wire' = wire \ {c}) /\ books' = books
  BY DEF GiveUp
<1> QED BY <1>1, SameBooks, AnsweredStands

\* A record of the books that is changed, and one that is added.
LEMMA BooksChanged ==
  ASSUME NEW b, BooksStand(b), NEW id \in DOMAIN b, NEW doc,
         doc = Nothing \/ Valid(b[id].kind, doc), Later(b[id].doc, doc)
  PROVE  LET d == [b EXCEPT ![id].doc = doc]
         IN  BooksStand(d) /\ BooksGrow(b, d) /\ d[id].doc = doc
<1> DEFINE r == [b[id] EXCEPT !.doc = doc]
           d == [b EXCEPT ![id] = r]
<1>1. DOMAIN b[id] = {"kind", "doc"} /\ b[id].kind \in Kinds  BY DEF BooksStand, IsRecord
<1>2. DOMAIN r = {"kind", "doc"} /\ r.kind = b[id].kind /\ r.doc = doc  BY <1>1
<1>3. [b EXCEPT ![id].doc = doc] = d  OBVIOUS
<1> HIDE DEF r
<1>4. b \in Seq(ToSet(b)) /\ Len(b) \in Nat /\ DOMAIN b = 1..Len(b)
  <2>1. b \in Seq(ToSet(b))  BY DEF BooksStand
  <2> QED BY <2>1, LenProperties
<1>5. /\ DOMAIN d = DOMAIN b /\ d[id] = r /\ \A i \in DOMAIN b \ {id} : d[i] = b[i]
      /\ d \in Seq(ToSet(b) \cup {r})
  <2>1. b \in Seq(ToSet(b) \cup {r})
    <3>1. \A i \in 1..Len(b) : b[i] \in ToSet(b) \cup {r}  BY <1>4 DEF ToSet
    <3> QED BY <1>4, <3>1
  <2>2. id \in 1..Len(b)  BY <1>4
  <2>3. d \in Seq(ToSet(b) \cup {r})  BY <2>1, <2>2, ExceptSeq
  <2> QED BY <2>3
<1> HIDE DEF d
<1>6. d \in Seq(ToSet(d))
  <2>1. Len(d) \in Nat /\ DOMAIN d = 1..Len(d)  BY <1>5, LenProperties
  <2>2. \A i \in 1..Len(d) : d[i] \in ToSet(d)  BY <2>1 DEF ToSet
  <2>3. d \in [1..Len(d) -> ToSet(b) \cup {r}]  BY <1>5, LenProperties
  <2> QED BY <2>1, <2>2, <2>3
<1>7. \A i \in DOMAIN d : IsRecord(d[i])
  BY <1>1, <1>2, <1>5 DEF BooksStand, IsRecord
<1>8. BooksGrow(b, d)
  BY <1>2, <1>5 DEF BooksGrow, Later
<1> QED BY <1>2, <1>3, <1>5, <1>6, <1>7, <1>8 DEF BooksStand

LEMMA BooksAppended ==
  ASSUME NEW b, BooksStand(b), NEW r, IsRecord(r)
  PROVE  BooksStand(Append(b, r)) /\ BooksGrow(b, Append(b, r))
<1> DEFINE d == Append(b, r)
<1>1. b \in Seq(ToSet(b)) /\ Len(b) \in Nat /\ DOMAIN b = 1..Len(b)
  <2>1. b \in Seq(ToSet(b))  BY DEF BooksStand
  <2> QED BY <2>1, LenProperties
<1>2. b \in Seq(ToSet(b) \cup {r})
  <2>1. \A i \in 1..Len(b) : b[i] \in ToSet(b) \cup {r}  BY <1>1 DEF ToSet
  <2> QED BY <1>1, <2>1
<1>3. /\ d \in Seq(ToSet(b) \cup {r}) /\ Len(d) = Len(b) + 1
      /\ \A i \in 1..Len(b) : d[i] = b[i]
      /\ d[Len(b) + 1] = r
  <2>1. r \in ToSet(b) \cup {r}  OBVIOUS
  <2> QED BY <1>2, <2>1, AppendProperties
<1> HIDE DEF d
<1>4. DOMAIN d = 1..Len(d) /\ Len(d) \in Nat  BY <1>3, LenProperties
<1>5. d \in Seq(ToSet(d))
  <2>1. \A i \in 1..Len(d) : d[i] \in ToSet(d)  BY <1>4 DEF ToSet
  <2>2. d \in [1..Len(d) -> ToSet(b) \cup {r}]  BY <1>3, LenProperties
  <2> QED BY <1>4, <2>1, <2>2
<1>6. \A i \in DOMAIN d : IsRecord(d[i])
  <2> SUFFICES ASSUME NEW i \in DOMAIN d PROVE IsRecord(d[i])
    OBVIOUS
  <2>1. CASE i \in 1..Len(b)  BY <1>1, <1>3, <2>1 DEF BooksStand
  <2>2. CASE i = Len(b) + 1  BY <1>3, <2>2
  <2> QED BY <1>1, <1>3, <1>4, <2>1, <2>2
<1>7. BooksGrow(b, d)
  BY <1>1, <1>3, <1>4 DEF BooksGrow, Later
<1> QED BY <1>5, <1>6, <1>7 DEF BooksStand, d

\* What somebody else does to the books: nothing a call rests on is wrong.
LEMMA BooksMoveOn ==
  ASSUME WriteInv, UNCHANGED <<call, wire>>, BooksStand(books'), BooksGrow(books, books')
  PROVE  WriteInv'
<1>1. ASSUME NEW d \in Calls PROVE CallStands(d, call'[d], d \in wire', books')
  <2> DEFINE on == d \in wire
  <2>0. on \in BOOLEAN  OBVIOUS
  <2>1. CallStands(d, call[d], on, books) /\ BooksStand(books)  BY DEF WriteInv
  <2>3. (d \in wire') = on /\ call'[d] = call[d]  OBVIOUS
  <2> HIDE DEF on
  <2>2. CallStands(d, call[d], on, books')  BY <2>0, <2>1, CallStandsLater
  <2> QED BY <2>2, <2>3
<1> QED BY <1>1 DEF WriteInv

LEMMA EditStands ==
  ASSUME WriteInv, Edit PROVE WriteInv'
<1>1. PICK id \in DOMAIN books : /\ books[id].doc # Nothing
                                 /\ \E e \in Edits[books[id].kind] :
                                      LET old == books[id].doc
                                          new == [version |-> old.version + 1] ++ e ++ old
                                      IN  /\ Valid(books[id].kind, new)
                                          /\ books' = [books EXCEPT ![id].doc = new]
  BY DEF Edit
<1>2. PICK e \in Edits[books[id].kind] :
         LET old == books[id].doc
             new == [version |-> old.version + 1] ++ e ++ old
         IN  Valid(books[id].kind, new) /\ books' = [books EXCEPT ![id].doc = new]
  BY <1>1
<1> DEFINE old == books[id].doc
           first == [version |-> old.version + 1]
           p == first ++ e
           new == p ++ old
<1>3. Valid(books[id].kind, new) /\ books' = [books EXCEPT ![id].doc = new]
  BY Zenon, <1>2
<1>4. BooksStand(books) /\ old # Nothing /\ Valid(books[id].kind, old) /\ UNCHANGED <<call, wire>>
  BY <1>1 DEF WriteInv, BooksStand, IsRecord, Edit
<1>5. old.version \in Nat  BY <1>4 DEF Valid
<1> HIDE DEF old
<1>6. DOMAIN first = {"version"} /\ first["version"] = old.version + 1  OBVIOUS
<1> HIDE DEF first
<1>7. "version" \in DOMAIN p /\ p["version"] = old.version + 1  BY <1>6, LaidOver
<1> HIDE DEF p
<1>8. new["version"] = old.version + 1  BY <1>7, LaidOver
<1> HIDE DEF new
<1>9. Later(old, new)  BY <1>4, <1>5, <1>8 DEF Later
<1>10. BooksStand(books') /\ BooksGrow(books, books')
  BY <1>3, <1>4, <1>9, BooksChanged DEF old
<1> QED BY <1>4, <1>10, BooksMoveOn

\* What the service makes of an accepted request is a later state of the books.
LEMMA LandedStands ==
  ASSUME WriteToolsAssumption, WriteInv, NEW c \in Calls, Lands(c)
  PROVE  BooksStand(books') /\ BooksGrow(books, books')
<1> DEFINE x == call[c]
           id == x.ask.id
<1>1. /\ x.ask \in Asks[c] /\ IsAsk(x.ask) /\ ~RefusedAtOnce(x.ask) /\ Made(x)
      /\ x.ask.does = "update" => Tracks(books, x) /\ RestsOn(books, x)
      /\ BooksStand(books)
  <2>1. CallStands(c, x, TRUE, books) /\ BooksStand(books)
    BY DEF Lands, WriteInv
  <2> HIDE DEF x
  <2>2. x.ask \in Asks[c]  BY <2>1 DEF CallStands
  <2>3. IsAsk(x.ask)  BY <2>2, AsksAreAsks
  <2> QED BY <2>1, <2>2, <2>3 DEF CallStands
<1>2. x.ask.does \in {"create", "update", "delete"} /\ x.ask.kind \in Kinds  BY <1>1 DEF IsAsk
<1>3. Accepts(c) /\ books' = After(c)  BY DEF Lands
<1>4. CASE x.ask.does = "create"
  <2> DEFINE doc == Stored(x.ask.kind, x.body, Nothing)
             r == [kind |-> x.ask.kind, doc |-> doc]
  <2>1. books' = Append(books, r)  BY <1>3, <1>4 DEF After
  <2>2. ~Refusable("create", x.ask.kind, x.body)  BY <1>3, <1>4 DEF Accepts
  <2>3. BodyFits(x.ask.kind, x.body)
    <3>1. x.body = Creation(x.ask.kind, x.ask.args)  BY <1>1, <1>4 DEF Made
    <3>2. BodyFits(x.ask.kind, Creation(x.ask.kind, x.ask.args))
      <4> DEFINE a == x.ask
      <4>1. IsAsk(a) /\ a.does = "create" /\ ~RefusedAtOnce(a)  BY <1>1, <1>4
      <4> HIDE DEF a
      <4>2. BodyFits(a.kind, Creation(a.kind, a.args))  BY <4>1, CreationFits
      <4> QED BY <4>2 DEF a
    <3> QED BY <3>1, <3>2
  <2>4. Field(Nothing, "version", 0) \in Nat  BY NothingIsEmpty DEF Field
  <2>5. Valid(x.ask.kind, doc)  BY <1>2, <2>2, <2>3, <2>4, StoredIsValid
  <2> HIDE DEF doc
  <2>6. IsRecord(r)  BY <1>2, <2>5 DEF IsRecord
  <2> HIDE DEF r
  <2> QED BY <1>1, <2>1, <2>6, BooksAppended
<1>5. CASE x.ask.does = "update"
  <2> DEFINE old == books[id].doc
             doc == Stored(x.ask.kind, x.body, old)
  <2>1. books' = [books EXCEPT ![id].doc = doc]  BY <1>3, <1>5 DEF After
  <2>2. /\ ~Refusable("update", x.ask.kind, x.body) /\ id \in DOMAIN books
        /\ books[id].kind = x.ask.kind /\ old # Nothing
    BY <1>3, <1>5 DEF Accepts, Current, Found, Lives
  <2>3. BodyFits(x.ask.kind, x.body)
    <3>1. x.body = Replacement(x.ask.kind, x.base, x.ask.args) /\ Valid(x.ask.kind, x.base)
      BY <1>1, <1>5 DEF Made, RestsOn
    <3>2. BodyFits(x.ask.kind, Replacement(x.ask.kind, x.base, x.ask.args))
      <4> DEFINE a == x.ask
                 base == x.base
      <4>1. IsAsk(a) /\ a.does = "update" /\ ~RefusedAtOnce(a) /\ Valid(a.kind, base)
        BY <1>1, <1>5, <3>1
      <4> HIDE DEF a, base
      <4>2. BodyFits(a.kind, Replacement(a.kind, base, a.args))  BY <4>1, ReplacementFits
      <4> QED BY <4>2 DEF a, base
    <3> QED BY <3>1, <3>2
  <2>4. Valid(x.ask.kind, old)  BY <1>1, <2>2 DEF BooksStand, IsRecord
  <2>5. "version" \in DOMAIN old /\ old.version \in Nat  BY <2>4 DEF Valid
  <2>6. Field(old, "version", 0) = old.version  BY <2>5 DEF Field
  <2>7. Valid(x.ask.kind, doc)  BY <1>2, <2>2, <2>3, <2>5, <2>6, StoredIsValid
  <2>8. doc["version"] = old.version + 1
    <3>1. StoredOf(doc, Assigned(x.ask.kind, x.body, old), x.body, old)  BY StoredIs
    <3> HIDE DEF doc, old, x
    <3> QED BY <2>6, <3>1 DEF StoredOf
  <2> HIDE DEF doc
  <2>9. Later(old, doc)  BY <2>2, <2>5, <2>8 DEF Later
  <2> QED BY <1>1, <2>1, <2>2, <2>7, <2>9, BooksChanged
<1>6. CASE x.ask.does = "delete"
  <2>1. books' = [books EXCEPT ![id].doc = Nothing]  BY <1>3, <1>6 DEF After
  <2>2. id \in DOMAIN books  BY <1>3, <1>6 DEF Accepts, Found, Lives
  <2> QED BY <1>1, <2>1, <2>2, BooksChanged DEF Later
<1> QED BY <1>2, <1>4, <1>5, <1>6

LEMMA LandsStands ==
  ASSUME WriteToolsAssumption, WriteInv, NEW c \in Calls, Lands(c) PROVE WriteInv'
<1>1. Hears(c, "done") /\ wire' = wire \ {c}  BY DEF Lands
<1> QED BY <1>1, LandedStands, AnsweredStands

LEMMA WriteInvInit == WriteToolsAssumption /\ Init => WriteInv
<1> SUFFICES ASSUME WriteToolsAssumption, Init PROVE WriteInv
  OBVIOUS
<1>1. BooksStand(books)
  BY DEF WriteToolsAssumption, Init, BooksStand, IsRecord
<1>2. wire = {} /\ call = [c \in Calls |-> Idle]  BY DEF Init
<1>3. DOMAIN Idle = {"pc", "ask", "by", "seen", "base", "body", "told"} /\ Idle.pc = "idle"
  BY DEF Idle
<1>4. \A c \in Calls : CallStands(c, Idle, FALSE, books)
  BY <1>3 DEF CallStands, CallPcs
<1>5. \A c \in Calls : call[c] = Idle /\ (c \in wire) = FALSE  BY <1>2
<1>6. \A c \in Calls : CallStands(c, call[c], c \in wire, books)  BY <1>4, <1>5
<1> QED BY <1>1, <1>2, <1>6 DEF WriteInv

LEMMA WriteInvStep == WriteToolsAssumption /\ WriteInv /\ [Next]_vars => WriteInv'
<1> SUFFICES ASSUME WriteToolsAssumption, WriteInv, [Next]_vars PROVE WriteInv'
  OBVIOUS
<1>1. CASE Edit  BY <1>1, EditStands
<1>2. ASSUME NEW c \in Calls,
             \/ Ask(c) \/ Search(c) \/ GetRecord(c) \/ GetByNumber(c)
             \/ Refuse(c) \/ Send(c) \/ Read(c) \/ Replace(c)
      PROVE  WriteInv'
  BY <1>2, AskStands, SearchStands, GetRecordStands, GetByNumberStands, RefuseStands,
     SendStands, ReadStands, ReplaceStands
<1>3. ASSUME NEW c \in Calls, Lands(c) \/ Bounces(c) \/ BouncesBooked(c) \/ GiveUp(c)
      PROVE  WriteInv'
  BY <1>3, LandsStands, BouncesStands, GiveUpStands
<1>4. CASE UNCHANGED vars  BY <1>4 DEF vars, WriteInv
<1> QED BY <1>1, <1>2, <1>3, <1>4 DEF Next

LEMMA AlwaysWriteInv == Spec => []WriteInv
  BY WriteToolsAssumption, WriteInvInit, WriteInvStep, PTL DEF Spec

(* No request a tool sends is one the API is known to refuse: a document has    *)
(* the part its type wants (the date of delivery, the end of an offer, the      *)
(* invoice a dunning follows), its dates have a time, and a line that names an  *)
(* article is one of an article; a voucher carries no status when it is made    *)
(* and only "open" when it is updated, has one contact, and totals that are its *)
(* lines'; a contact is not both company and person (require_type_fields,       *)
(* _at_midnight, _line_item_body, voucher_body, VOUCHER_PUT_DROP,               *)
(* require_one_contact, _is_company) - whatever was read and whatever changed   *)
(* meanwhile.  Totals that the caller states are the API's to check.            *)
THEOREM NothingRefusableIsSent == Spec => []NothingKnownRefused
<1>1. WriteInv => NothingKnownRefused
  <2> SUFFICES ASSUME WriteInv, NEW c \in wire, call[c].ask.does \in {"create", "update"},
                      ~StatesTotals(c)
               PROVE  ~Refusable(call[c].ask.does, call[c].ask.kind, call[c].body)
    BY DEF NothingKnownRefused
  <2> DEFINE x == call[c]
  <2>1. c \in Calls /\ CallStands(c, x, TRUE, books)  BY DEF WriteInv
  <2>2. DOMAIN x.ask.args \cap {"total_gross_amount", "total_tax_amount"} = {}
    BY DEF StatesTotals
  <2> DEFINE a == x.ask
             base == x.base
  <2>3. /\ IsAsk(a) /\ ~RefusedAtOnce(a) /\ a.does \in {"create", "update"}
        /\ a.does = "create" => x.body = Creation(a.kind, a.args)
        /\ a.does = "update" => Valid(a.kind, base) /\ x.body = Replacement(a.kind, base, a.args)
    <3> HIDE DEF x
    <3>1. IsAsk(a)  BY <2>1, AsksAreAsks, WriteToolsAssumption DEF CallStands
    <3>2. ~RefusedAtOnce(a) /\ Made(x) /\ (a.does = "update" => RestsOn(books, x))
      BY <2>1 DEF CallStands
    <3> QED BY <3>1, <3>2 DEF Made, RestsOn, x
  <2> HIDE DEF a, base
  <2>4. CASE a.does = "create"
    <3>1. ~Refusable("create", a.kind, Creation(a.kind, a.args))
      BY <2>2, <2>3, <2>4, CreationFits DEF a
    <3> QED BY <2>3, <2>4, <3>1 DEF a
  <2>5. CASE a.does = "update"
    <3>1. ~Refusable("update", a.kind, Replacement(a.kind, base, a.args))
      BY <2>2, <2>3, <2>5, ReplacementFits DEF a
    <3> QED BY <2>3, <2>5, <3>1 DEF a
  <2> QED BY <2>3, <2>4, <2>5
<1> QED BY <1>1, AlwaysWriteInv, PTL

\* Over what was seen.
LEMMA UpdateLandsOverBase ==
  ASSUME WriteToolsAssumption, WriteInv, [Next]_vars, NEW c \in Calls, UpdateLands(c)
  PROVE  /\ Lands(c) /\ Current(c)
         /\ call[c].ask \in Asks[c] /\ Made(call[c]) /\ ~RefusedAtOnce(call[c].ask)
         /\ Tracks(books, call[c]) /\ RestsOn(books, call[c])
         /\ Doc(c).version = call[c].base.version
         /\ Doc(c) = call[c].base
<1> DEFINE x == call[c]
<1>1. Lands(c)
  <2>1. c \in wire /\ c \notin wire' /\ books' # books  BY DEF UpdateLands
  <2>2. CASE Edit  BY <2>1, <2>2 DEF Edit
  <2>3. ASSUME NEW d \in Calls,
               \/ Ask(d) \/ Search(d) \/ GetRecord(d) \/ GetByNumber(d)
               \/ Refuse(d) \/ Send(d) \/ Read(d) \/ Replace(d)
               \/ Bounces(d) \/ BouncesBooked(d) \/ GiveUp(d)
        PROVE  FALSE
    BY <2>1, <2>3 DEF Ask, Search, GetRecord, GetByNumber, Refuse, Send, Read, Replace, Bounces,
                      BouncesBooked, GiveUp
  <2>4. ASSUME NEW d \in Calls, Lands(d) PROVE d = c  BY <2>1, <2>4 DEF Lands
  <2>5. CASE UNCHANGED vars  BY <2>1, <2>5 DEF vars
  <2> QED BY <2>2, <2>3, <2>4, <2>5 DEF Next
<1>2. x.ask.does = "update"  BY DEF UpdateLands
<1>3. CallStands(c, x, TRUE, books)  BY <1>1 DEF Lands, WriteInv
<1>4. Current(c)  BY <1>1, <1>2 DEF Lands, Accepts
<1> HIDE DEF x
<1>5. /\ x.ask \in Asks[c] /\ Made(x) /\ ~RefusedAtOnce(x.ask)
      /\ Tracks(books, x) /\ RestsOn(books, x)
  BY <1>2, <1>3 DEF CallStands
<1>6. Doc(c) # Nothing /\ x.body.version = Doc(c).version /\ Doc(c) = books[x.ask.id].doc
  BY <1>4 DEF Current, Found, Lives, Doc, x
<1>7. x.body.version = x.base.version
  <2>1. x.ask.kind \in {"contact", "voucher", "article"}
    BY <1>2, <1>5, AsksAreAsks, UpdatesAreOfThree
  <2>2. x.body = Replacement(x.ask.kind, x.base, x.ask.args) /\ Valid(x.ask.kind, x.base)
    BY <1>2, <1>5 DEF Made, RestsOn
  <2> DEFINE kind == x.ask.kind
             base == x.base
             args == x.ask.args
  <2>3. kind \in {"contact", "voucher", "article"} /\ Valid(kind, base)  BY <2>1, <2>2
  <2> HIDE DEF kind, base, args
  <2>4. Replacement(kind, base, args).version = base.version  BY <2>3, ReplacementKeepsVersion
  <2> QED BY <2>2, <2>4 DEF kind, base, args
<1>8. Doc(c) = x.base  BY <1>5, <1>6, <1>7 DEF RestsOn
<1> QED BY <1>1, <1>4, <1>5, <1>6, <1>7, <1>8 DEF x

(* An update that is carried out finds the record as its caller saw it, however *)
(* many calls, edits and late requests came between (require_version, and the   *)
(* version in the body that the service compares).                              *)
THEOREM LandsOverWhatWasSeen == Spec => OverWhatWasSeen
<1> DEFINE over == \A c \in Calls :
                      UpdateLands(c) => View(call[c].by, call[c].ask.kind, Doc(c)) = call[c].seen
<1>1. WriteInv /\ [Next]_vars => over
  <2> SUFFICES ASSUME WriteInv, [Next]_vars, NEW c \in Calls, UpdateLands(c)
               PROVE  View(call[c].by, call[c].ask.kind, Doc(c)) = call[c].seen
    OBVIOUS
  <2>1. /\ Current(c) /\ Tracks(books, call[c]) /\ Doc(c).version = call[c].base.version
        /\ Made(call[c])
    BY WriteToolsAssumption, UpdateLandsOverBase
  <2>2. call[c].base.version = call[c].seen.version  BY <2>1 DEF Made, UpdateLands
  <2>3. Doc(c) # Nothing /\ Doc(c) = books[call[c].ask.id].doc
    BY <2>1 DEF Current, Found, Lives, Doc
  <2> QED BY <2>1, <2>2, <2>3 DEF Tracks
<1> QED BY <1>1, AlwaysWriteInv, PTL DEF Spec, OverWhatWasSeen
------------------------------------------------------------------------------
\* A record field by field.
LEMMA FlatIs ==
  ASSUME NEW doc
  PROVE  /\ DOMAIN Flat(doc)
              = {<<f>> : f \in DOMAIN doc \ Opened}
                \cup UNION {{<<f, g>> : g \in DOMAIN doc[f]} : f \in DOMAIN doc \cap Opened}
         /\ \A f \in DOMAIN doc \ Opened : Flat(doc)[<<f>>] = doc[f]
         /\ \A f \in DOMAIN doc \cap Opened : \A g \in DOMAIN doc[f] :
               Flat(doc)[<<f, g>>] = doc[f][g]
<1> DEFINE short == {<<f>> : f \in DOMAIN doc \ Opened}
           long == UNION {{<<f, g>> : g \in DOMAIN doc[f]} : f \in DOMAIN doc \cap Opened}
           dom == short \cup long
<1>1. Flat(doc) = [p \in dom |-> IF Len(p) = 1 THEN doc[p[1]] ELSE doc[p[1]][p[2]]]
  BY DEF Flat
<1>2. ASSUME NEW f \in DOMAIN doc \ Opened PROVE Flat(doc)[<<f>>] = doc[f]
  <2>1. <<f>> \in short  OBVIOUS
  <2>2. Len(<<f>>) = 1 /\ <<f>>[1] = f  OBVIOUS
  <2> HIDE DEF short, long
  <2> QED BY <1>1, <2>1, <2>2
<1>3. ASSUME NEW f \in DOMAIN doc \cap Opened, NEW g \in DOMAIN doc[f]
      PROVE  Flat(doc)[<<f, g>>] = doc[f][g]
  <2>1. <<f, g>> \in long  OBVIOUS
  <2>2. Len(<<f, g>>) # 1 /\ <<f, g>>[1] = f /\ <<f, g>>[2] = g  OBVIOUS
  <2> HIDE DEF short, long
  <2> QED BY <1>1, <2>1, <2>2
<1> HIDE DEF short, long
<1>4. DOMAIN Flat(doc) = short \cup long  BY <1>1
<1> QED BY <1>2, <1>3, <1>4 DEF short, long

Kept(old, new, f) ==
    /\ f \in DOMAIN old <=> f \in DOMAIN new
    /\ f \in DOMAIN old => new[f] = old[f]

KeptIn(old, new, f, g) ==
    /\ (f \in DOMAIN old /\ g \in DOMAIN old[f]) <=> (f \in DOMAIN new /\ g \in DOMAIN new[f])
    /\ f \in DOMAIN old /\ g \in DOMAIN old[f] => new[f][g] = old[f][g]

Holds(new, paths, v) ==
    \/ \E f \in DOMAIN new \ Opened : <<f>> \in paths /\ new[f] = v
    \/ \E f \in DOMAIN new \cap Opened : \E g \in DOMAIN new[f] :
          <<f, g>> \in paths /\ new[f][g] = v

LEMMA KeptAll ==
  ASSUME NEW old, NEW new, NEW f, Kept(old, new, f) PROVE \A g : KeptIn(old, new, f, g)
  BY DEF Kept, KeptIn

LEMMA OnlyGiven ==
  ASSUME NEW old, NEW new, NEW args,
         \A f : f \notin Opened /\ <<f>> \notin Touched(old, args) => Kept(old, new, f),
         \A f \in Opened : \A g : <<f, g>> \notin Touched(old, args) => KeptIn(old, new, f, g),
         \A a \in DOMAIN args \cap DOMAIN FieldsFor : Holds(new, FieldsFor[a], args[a]),
         ComesToHold(old, new, args)
  PROVE  ChangesOnlyGiven(old, new, args)
<1> DEFINE before == Flat(old)
           after == Flat(new)
           touches == Touched(old, args)
<1>1. /\ DOMAIN before
              = {<<f>> : f \in DOMAIN old \ Opened}
                \cup UNION {{<<f, g>> : g \in DOMAIN old[f]} : f \in DOMAIN old \cap Opened}
      /\ \A f \in DOMAIN old \ Opened : before[<<f>>] = old[f]
      /\ \A f \in DOMAIN old \cap Opened : \A g \in DOMAIN old[f] : before[<<f, g>>] = old[f][g]
  BY FlatIs
<1>2. /\ DOMAIN after
              = {<<f>> : f \in DOMAIN new \ Opened}
                \cup UNION {{<<f, g>> : g \in DOMAIN new[f]} : f \in DOMAIN new \cap Opened}
      /\ \A f \in DOMAIN new \ Opened : after[<<f>>] = new[f]
      /\ \A f \in DOMAIN new \cap Opened : \A g \in DOMAIN new[f] : after[<<f, g>>] = new[f][g]
  BY FlatIs
<1> HIDE DEF before, after, touches
<1>3. ASSUME NEW f, f \in DOMAIN old \ Opened \/ f \in DOMAIN new \ Opened, <<f>> \notin touches
      PROVE  <<f>> \in DOMAIN before /\ <<f>> \in DOMAIN after /\ before[<<f>>] = after[<<f>>]
  <2>1. Kept(old, new, f)  BY <1>3 DEF touches
  <2>2. f \in DOMAIN old \ Opened /\ f \in DOMAIN new \ Opened /\ new[f] = old[f]
    BY <1>3, <2>1 DEF Kept
  <2> QED BY <1>1, <1>2, <2>2
<1>4. ASSUME NEW f \in Opened, NEW g, <<f, g>> \notin touches,
             \/ f \in DOMAIN old /\ g \in DOMAIN old[f]
             \/ f \in DOMAIN new /\ g \in DOMAIN new[f]
      PROVE  /\ <<f, g>> \in DOMAIN before /\ <<f, g>> \in DOMAIN after
             /\ before[<<f, g>>] = after[<<f, g>>]
  <2>1. KeptIn(old, new, f, g)  BY <1>4 DEF touches
  <2>2. /\ f \in DOMAIN old \cap Opened /\ g \in DOMAIN old[f]
        /\ f \in DOMAIN new \cap Opened /\ g \in DOMAIN new[f] /\ new[f][g] = old[f][g]
    BY <1>4, <2>1 DEF KeptIn
  <2> QED BY <1>1, <1>2, <2>2
<1>5. ASSUME NEW p \in (DOMAIN before \cup DOMAIN after) \ touches
      PROVE  p \in DOMAIN before \cap DOMAIN after /\ before[p] = after[p]
  <2>1. \/ \E f : p = <<f>> /\ (f \in DOMAIN old \ Opened \/ f \in DOMAIN new \ Opened)
        \/ \E f \in Opened : \E g : /\ p = <<f, g>>
                                    /\ \/ f \in DOMAIN old /\ g \in DOMAIN old[f]
                                       \/ f \in DOMAIN new /\ g \in DOMAIN new[f]
    BY <1>1, <1>2
  <2> QED BY <1>3, <1>4, <2>1
<1>6. ASSUME NEW a \in DOMAIN args \cap DOMAIN FieldsFor
      PROVE  \E p \in FieldsFor[a] \cap DOMAIN after : after[p] = args[a]
  <2>1. Holds(new, FieldsFor[a], args[a])  BY <1>6
  <2>2. CASE \E f \in DOMAIN new \ Opened : <<f>> \in FieldsFor[a] /\ new[f] = args[a]
    BY <1>2, <2>2
  <2>3. CASE \E f \in DOMAIN new \cap Opened : \E g \in DOMAIN new[f] :
                <<f, g>> \in FieldsFor[a] /\ new[f][g] = args[a]
    BY <1>2, <2>3
  <2> QED BY <2>1, <2>2, <2>3 DEF Holds
<1> QED BY <1>5, <1>6 DEF ChangesOnlyGiven, before, after, touches

LEMMA TouchedHas ==
  ASSUME NEW old, NEW args
  PROVE  /\ <<"version">> \in Touched(old, args)
         /\ \A a \in DOMAIN args \cap DOMAIN FieldsFor : FieldsFor[a] \subseteq Touched(old, args)
         /\ \A a \in DOMAIN args : Besides(old, a, args) \subseteq Touched(old, args)
         /\ PriceLeftOut(old) \subseteq Touched(old, args)
  BY DEF Touched, Field

\* The fields an argument may be found in.
LEMMA FieldsForContacts ==
  /\ {"name", "first_name", "salutation", "vat_registration_id", "tax_number", "note",
      "billing_address", "shipping_address"} \subseteq DOMAIN FieldsFor
  /\ {"roles", "email", "phone"} \cap DOMAIN FieldsFor = {}
  /\ FieldsFor["name"] = {<<"company", "name">>, <<"person", "lastName">>}
  /\ FieldsFor["first_name"] = {<<"person", "firstName">>}
  /\ FieldsFor["salutation"] = {<<"person", "salutation">>}
  /\ FieldsFor["vat_registration_id"] = {<<"company", "vatRegistrationId">>}
  /\ FieldsFor["tax_number"] = {<<"company", "taxNumber">>}
  /\ FieldsFor["note"] = {<<"note">>}
  /\ FieldsFor["billing_address"] = {<<"addresses", "billing">>}
  /\ FieldsFor["shipping_address"] = {<<"addresses", "shipping">>}
  BY DEF FieldsFor

LEMMA FieldsForVouchers ==
  /\ {"voucher_number", "voucher_date", "due_date", "remark", "contact_id", "items",
      "use_collective_contact", "total_gross_amount", "total_tax_amount"} \subseteq DOMAIN FieldsFor
  /\ {"finalize", "confirm"} \cap DOMAIN FieldsFor = {}
  /\ FieldsFor["voucher_number"] = {<<"voucherNumber">>}
  /\ FieldsFor["voucher_date"] = {<<"voucherDate">>}
  /\ FieldsFor["due_date"] = {<<"dueDate">>} /\ FieldsFor["remark"] = {<<"remark">>}
  /\ FieldsFor["contact_id"] = {<<"contactId">>} /\ FieldsFor["items"] = {<<"voucherItems">>}
  /\ FieldsFor["use_collective_contact"] = {<<"useCollectiveContact">>}
  /\ FieldsFor["total_gross_amount"] = {<<"totalGrossAmount">>}
  /\ FieldsFor["total_tax_amount"] = {<<"totalTaxAmount">>}
  BY DEF FieldsFor

LEMMA FieldsForArticles ==
  /\ {"title", "unit_name", "article_type", "article_number", "gtin", "description", "note",
      "tax_rate", "leading_price"} \subseteq DOMAIN FieldsFor
  /\ "price" \notin DOMAIN FieldsFor
  /\ FieldsFor["title"] = {<<"title">>} /\ FieldsFor["unit_name"] = {<<"unitName">>}
  /\ FieldsFor["article_type"] = {<<"type">>} /\ FieldsFor["gtin"] = {<<"gtin">>}
  /\ FieldsFor["article_number"] = {<<"articleNumber">>} /\ FieldsFor["note"] = {<<"note">>}
  /\ FieldsFor["description"] = {<<"description">>}
  /\ FieldsFor["tax_rate"] = {<<"price", "taxRate">>}
  /\ FieldsFor["leading_price"] = {<<"price", "leadingPrice">>}
  BY DEF FieldsFor

LEMMA OpenedIs == Opened = {"company", "person", "addresses", "roles", "price"}
  BY DEF Opened
------------------------------------------------------------------------------
\* What a contact's own block, its addresses and its roles become.
LEMMA BlockLaid ==
  ASSUME NEW said, NEW block, NEW part, part = said ++ block
  PROVE  /\ \A g : g \notin DOMAIN said => /\ g \in DOMAIN part <=> g \in DOMAIN block
                                           /\ g \in DOMAIN block => part[g] = block[g]
         /\ \A g \in DOMAIN said : g \in DOMAIN part /\ part[g] = said[g]
<1> DEFINE laid == said ++ block
<1>1. /\ DOMAIN laid = DOMAIN said \cup DOMAIN block
      /\ \A g \in DOMAIN said : laid[g] = said[g]
      /\ \A g \in DOMAIN block : g \notin DOMAIN said => laid[g] = block[g]
  BY Laid
<1>2. part = laid  OBVIOUS
<1> HIDE DEF laid
<1> QED BY <1>1, <1>2

\* A block with the fields of names laid over it, if there is anything in it.
HasPart(new, base, f, part) ==
    /\ f \in DOMAIN new <=> f \in DOMAIN part \cup DOMAIN base
    /\ f \in DOMAIN part => new[f] = part[f]
    /\ f \in DOMAIN base \ DOMAIN part => new[f] = base[f]

LEMMA PutOverBlock ==
  ASSUME NEW base, NEW new, NEW f, NEW args, NEW names, Tabled(names),
         HasPart(new, base, f, Put(f, Mentioned(args, names) ++ Block(base, f)))
  PROVE  /\ \A g : (\A a \in DOMAIN args \cap DOMAIN names : names[a] # g) => KeptIn(base, new, f, g)
         /\ \A a \in DOMAIN args \cap DOMAIN names :
               f \in DOMAIN new /\ names[a] \in DOMAIN new[f] /\ new[f][names[a]] = args[a]
<1> DEFINE said == Mentioned(args, names)
           block == Block(base, f)
           fields == said ++ block
           part == Put(f, fields)
<1>1. /\ f \in DOMAIN new <=> f \in DOMAIN part \cup DOMAIN base
      /\ f \in DOMAIN part => new[f] = part[f]
      /\ f \in DOMAIN base \ DOMAIN part => new[f] = base[f]
  BY Zenon DEF HasPart
<1>2. /\ \A g \in DOMAIN said : \E a \in DOMAIN args \cap DOMAIN names : names[a] = g
      /\ \A a \in DOMAIN args \cap DOMAIN names :
            names[a] \in DOMAIN said /\ said[names[a]] = args[a]
  BY MentionedIs
<1>3. f \in DOMAIN base => block = base[f]  BY DEF Block, Field
<1>4. f \notin DOMAIN base => DOMAIN block = {}  BY NothingIsEmpty DEF Block, Field
<1> HIDE DEF said, block
<1>5. /\ \A g : g \notin DOMAIN said => /\ g \in DOMAIN fields <=> g \in DOMAIN block
                                        /\ g \in DOMAIN block => fields[g] = block[g]
      /\ \A g \in DOMAIN said : g \in DOMAIN fields /\ fields[g] = said[g]
  BY BlockLaid
<1> HIDE DEF fields
<1>6. CASE fields = Nothing
  <2>1. DOMAIN part = {} /\ DOMAIN fields = {}  BY <1>6, PutIs, NothingIsEmpty
  <2> HIDE DEF part
  <2>2. Kept(base, new, f)  BY <1>1, <2>1 DEF Kept
  <2>3. \A g : KeptIn(base, new, f, g)  BY <2>2, KeptAll
  <2>4. DOMAIN args \cap DOMAIN names = {}  BY <1>2, <1>5, <2>1
  <2> QED BY <2>3, <2>4
<1>7. CASE fields # Nothing
  <2>1. DOMAIN part = {f} /\ part[f] = fields  BY <1>7, PutIs
  <2> HIDE DEF part
  <2>2. f \in DOMAIN new /\ new[f] = fields  BY <1>1, <2>1
  <2>3. ASSUME NEW g, \A a \in DOMAIN args \cap DOMAIN names : names[a] # g
        PROVE  KeptIn(base, new, f, g)
    <3>1. g \notin DOMAIN said  BY <1>2, <2>3
    <3>2. g \in DOMAIN fields <=> g \in DOMAIN block
          /\ (g \in DOMAIN block => fields[g] = block[g])
      BY <1>5, <3>1
    <3> QED BY <1>3, <1>4, <1>5, <2>2, <3>1 DEF KeptIn
  <2>4. ASSUME NEW a \in DOMAIN args \cap DOMAIN names
        PROVE  f \in DOMAIN new /\ names[a] \in DOMAIN new[f] /\ new[f][names[a]] = args[a]
    BY <1>2, <1>5, <2>2
  <2> QED BY <2>3, <2>4
<1> QED BY <1>6, <1>7

LEMMA RolesKept ==
  ASSUME NEW base, ValidContact(base), NEW args, NEW new, "roles" \in DOMAIN new,
         NEW body, Part(body, RolesOf(base, args), base, "roles"), Base(base) = base,
         new["roles"] = Numbered(body["roles"])
  PROVE  /\ \A r : <<"roles", r>> \notin Touched(base, args) => KeptIn(base, new, "roles", r)
         /\ Given(args, "roles") => DOMAIN new["roles"] = args["roles"]
<1>1. "roles" \in DOMAIN base /\ \A r \in DOMAIN base["roles"] : base["roles"][r] # Nothing
  BY DEF ValidContact
<1>2. /\ DOMAIN new["roles"] = DOMAIN body["roles"]
      /\ \A r \in DOMAIN body["roles"] :
            body["roles"][r] # Nothing => new["roles"][r] = body["roles"][r]
  BY NumberedIs
<1>3. CASE ~Given(args, "roles")
  <2>1. DOMAIN RolesOf(base, args) = {}  BY <1>1, <1>3, RolesOfIs DEF Given
  <2>2. body["roles"] = base["roles"]  BY <1>1, <2>1 DEF Part
  <2>3. \A r : KeptIn(base, new, "roles", r)  BY <1>1, <1>2, <2>2 DEF KeptIn
  <2> QED BY <1>3, <2>3
<1>4. CASE Given(args, "roles")
  <2> DEFINE current == Block(base, "roles")
             roles == args["roles"]
  <2>1. DOMAIN RolesOf(base, args) = {"roles"}
        /\ RolesOf(base, args)["roles"] = RolesBody(current, roles)
    BY <1>4, RolesOfIs
  <2>2. body["roles"] = RolesBody(current, roles)  BY <2>1 DEF Part
  <2>3. current = base["roles"]  BY <1>1 DEF Block, Field
  <2>4. /\ DOMAIN body["roles"] = roles
        /\ \A r \in roles : r \in DOMAIN base["roles"] => body["roles"][r] = base["roles"][r]
    <3> HIDE DEF current, roles
    <3>1. body["roles"] = [r \in roles |-> Block(current, r)]  BY <2>2 DEF RolesBody
    <3> QED BY <2>3, <3>1 DEF Block, Field
  <2>5. Besides(base, "roles", args) = {<<"roles", r>> : r \in SymDiff(DOMAIN base["roles"], roles)}
    BY DEF Besides
  <2>6. Besides(base, "roles", args) \subseteq Touched(base, args)
    BY <1>4, TouchedHas DEF Given
  <2> HIDE DEF current, roles
  <2>7. ASSUME NEW r, <<"roles", r>> \notin Touched(base, args)
        PROVE  KeptIn(base, new, "roles", r)
    <3>1. r \in DOMAIN base["roles"] <=> r \in roles
      BY <2>5, <2>6, <2>7 DEF SymDiff
    <3>2. r \in roles => new["roles"][r] = base["roles"][r]
      BY <1>1, <1>2, <2>4, <3>1
    <3> QED BY <1>1, <1>2, <2>4, <3>1, <3>2 DEF KeptIn
  <2>8. DOMAIN new["roles"] = args["roles"]  BY <1>2, <2>4 DEF roles
  <2> QED BY <2>7, <2>8
<1> QED BY <1>3, <1>4

\* A block that holds one address or number, under the category Kind chose.
LEMMA ReachedAt ==
  ASSUME NEW base, NEW new, NEW f, NEW value, NEW default, f \in DOMAIN new,
         new[f] = Sole(Kind(Block(base, f), default), <<value>>)
  PROVE  Reached(base, new, f, value)
<1> DEFINE block == Block(base, f)
           used == {k \in DOMAIN block : base[f][k] # << >>}
           chosen == Kind(block, default)
<1>1. chosen \in DOMAIN Block(new, f)  BY SoleIs DEF Block, Field
<1>2. used = InUse(block)
  <2>1. CASE f \in DOMAIN base
    <3>1. block = base[f]  BY <2>1 DEF Block, Field
    <3> QED BY <3>1 DEF InUse
  <2>2. CASE f \notin DOMAIN base
    <3>1. DOMAIN block = {}  BY <2>2, NothingIsEmpty DEF Block, Field
    <3> HIDE DEF block
    <3> QED BY <3>1 DEF InUse
  <2> QED BY <2>1, <2>2
<1>3. Cardinality(used) = 1 => chosen \in used  BY <1>2, KindIs
<1> HIDE DEF chosen, used
<1>4. Reached(base, new, f, value)
        <=> \E k \in DOMAIN Block(new, f) :
              /\ new[f] = Sole(k, <<value>>)
              /\ Cardinality(used) = 1 => k \in used
  BY DEF Reached, used
<1>5. new[f] = Sole(chosen, <<value>>)  BY DEF chosen
<1> QED BY <1>1, <1>3, <1>4, <1>5

LEMMA ContactOnlyGiven ==
  ASSUME NEW base, Valid("contact", base), NEW args, DOMAIN args \subseteq UpdateTakes["contact"],
         ~UpdateContactRefuses(base, args)
  PROVE  ChangesOnlyGiven(base, Stored("contact", ContactBody(base, args), base), args)
<1> DEFINE body == ContactBody(base, args)
           new == Stored("contact", body, base)
           own == Own(base, args)
           names == IF IsCompany(base, args) THEN CompanyFields ELSE PersonFields
           six == {"roles", "company", "person", "emailAddresses", "phoneNumbers",
                   "addresses", "note"}
<1>1. /\ Base(base) = base /\ ValidContact(base) /\ "organizationId" \in DOMAIN base
      /\ "version" \in DOMAIN base /\ base["organizationId"] = "org"
  BY BaseIs, NothingIsEmpty DEF Valid
<1>2. /\ ContactTakes(body, base, args)
      /\ Part(body, RolesOf(base, args), base, "roles")
      /\ Part(body, Identity(base, args), base, "company")
      /\ Part(body, Identity(base, args), base, "person")
      /\ Part(body, Reachability(base, args, Default(base, args)), base, "emailAddresses")
      /\ Part(body, Reachability(base, args, Default(base, args)), base, "phoneNumbers")
      /\ Part(body, Addresses(base, args), base, "addresses")
      /\ Part(body, Noted(args), base, "note")
  BY ContactBodyIs
<1> HIDE DEF body
<1>3. /\ DOMAIN new = {"version", "organizationId", "roles"} \cup DOMAIN body
      /\ new["roles"] = Numbered(body["roles"])
      /\ \A f \in DOMAIN body : f \notin {"version", "roles"} => new[f] = body[f]
  <2> DEFINE x == Assigned("contact", body, base)
  <2>1. StoredOf(new, x, body, base)  BY StoredIs
  <2>2. DOMAIN x = {"roles"} /\ x["roles"] = Numbered(body["roles"])  BY AssignedIs
  <2> HIDE DEF x, new
  <2> QED BY <2>1, <2>2 DEF StoredOf
<1> HIDE DEF new
<1>4. "roles" \in DOMAIN base /\ "roles" \in DOMAIN body
  <2>1. "roles" \in DOMAIN base  BY <1>1 DEF ValidContact
  <2> QED BY <1>1, <1>2, <2>1 DEF Part
<1>5. "organizationId" \in DOMAIN body /\ "version" \in DOMAIN body
  BY <1>1, <1>2 DEF ContactTakes
<1>6. ASSUME NEW f, f \notin six, f # "version" PROVE Kept(base, new, f)
  BY <1>1, <1>2, <1>3, <1>4, <1>5, <1>6 DEF ContactTakes, Kept
<1>7. \A f : f \in {"company", "person", "emailAddresses", "phoneNumbers", "addresses", "note"} =>
         /\ f \in DOMAIN new <=> f \in DOMAIN body
         /\ f \in DOMAIN body => new[f] = body[f]
  BY <1>3
<1>8. /\ "name" \in DOMAIN args =>
            {<<"company", "name">>, <<"person", "lastName">>} \subseteq Touched(base, args)
      /\ "first_name" \in DOMAIN args => <<"person", "firstName">> \in Touched(base, args)
      /\ "salutation" \in DOMAIN args => <<"person", "salutation">> \in Touched(base, args)
      /\ "vat_registration_id" \in DOMAIN args =>
            <<"company", "vatRegistrationId">> \in Touched(base, args)
      /\ "tax_number" \in DOMAIN args => <<"company", "taxNumber">> \in Touched(base, args)
      /\ "note" \in DOMAIN args => <<"note">> \in Touched(base, args)
      /\ "billing_address" \in DOMAIN args => <<"addresses", "billing">> \in Touched(base, args)
      /\ "shipping_address" \in DOMAIN args => <<"addresses", "shipping">> \in Touched(base, args)
  BY TouchedHas, FieldsForContacts
<1>9. /\ "email" \in DOMAIN args => <<"emailAddresses">> \in Touched(base, args)
      /\ "phone" \in DOMAIN args => <<"phoneNumbers">> \in Touched(base, args)
  <2>1. /\ Besides(base, "email", args) = {<<"emailAddresses">>}
        /\ Besides(base, "phone", args) = {<<"phoneNumbers">>}
    BY DEF Besides
  <2> QED BY <2>1, TouchedHas
<1>10. /\ ~Given(args, "email") => Kept(base, new, "emailAddresses")
       /\ ~Given(args, "phone") => Kept(base, new, "phoneNumbers")
  <2> DEFINE r == Reachability(base, args, Default(base, args))
  <2>1. /\ ~Given(args, "email") => "emailAddresses" \notin DOMAIN r
        /\ ~Given(args, "phone") => "phoneNumbers" \notin DOMAIN r
    <3>1. DOMAIN r = {f \in {"emailAddresses", "phoneNumbers"} :
                        \/ f = "emailAddresses" /\ Given(args, "email")
                        \/ f = "phoneNumbers" /\ Given(args, "phone")}
      BY Zenon, ReachabilityIs
    <3> HIDE DEF r
    <3> QED BY <3>1
  <2> HIDE DEF r
  <2> QED BY <1>1, <1>2, <1>7, <2>1 DEF Part, Kept, r
<1>11. /\ ~Given(args, "note") => Kept(base, new, "note")
       /\ Given(args, "note") => "note" \in DOMAIN new /\ new["note"] = args["note"]
  <2>1. /\ DOMAIN Noted(args) = {"note"} \cap DOMAIN args
        /\ Given(args, "note") => Noted(args)["note"] = args["note"]
    BY NotedIs
  <2> QED BY <1>1, <1>2, <1>7, <2>1 DEF Part, Kept, Given
<1>12. /\ Tabled(names)
       /\ own = "company" => /\ IsCompany(base, args) /\ names = CompanyFields
       /\ own = "person" => /\ ~IsCompany(base, args) /\ names = PersonFields
       /\ own \in {"company", "person"}
  BY ContactTables DEF Own
<1>13. /\ \A g : (\A a \in DOMAIN args \cap DOMAIN names : names[a] # g) => KeptIn(base, new, own, g)
       /\ \A a \in DOMAIN args \cap DOMAIN names :
             own \in DOMAIN new /\ names[a] \in DOMAIN new[own] /\ new[own][names[a]] = args[a]
  <2> DEFINE fields == Mentioned(args, names) ++ Block(base, own)
             part == Put(own, fields)
  <2>1. Identity(base, args) = part  BY IdentityIs DEF OwnFields
  <2>2. Part(body, Identity(base, args), base, own)  BY <1>2, <1>12
  <2> HIDE DEF names, own
  <2>3. HasPart(new, base, own, part)
    <3> HIDE DEF part
    <3> QED BY <1>1, <1>7, <1>12, <2>1, <2>2 DEF Part, HasPart
  <2> QED BY <1>12, <2>3, PutOverBlock
<1>14. \A f \in {"company", "person"} \ {own} : Kept(base, new, f)
  <2>1. ~Given(args, "kind")  BY DEF UpdateTakes, Given
  <2>2. \A f \in {"company", "person"} \cap DOMAIN base : f = own  BY <1>1, <2>1, OwnOfValid
  <2>3. DOMAIN Identity(base, args) \subseteq {own}  BY IdentityHas
  <2> HIDE DEF own
  <2> QED BY <1>1, <1>2, <1>7, <2>2, <2>3 DEF Part, Kept
<1>15. /\ \A g : (\A a \in DOMAIN args \cap DOMAIN AddressFields : AddressFields[a] # g)
                    => KeptIn(base, new, "addresses", g)
       /\ \A a \in DOMAIN args \cap DOMAIN AddressFields :
             /\ "addresses" \in DOMAIN new /\ AddressFields[a] \in DOMAIN new["addresses"]
             /\ new["addresses"][AddressFields[a]] = args[a]
  <2> DEFINE fields == Mentioned(args, AddressFields) ++ Block(base, "addresses")
             part == Put("addresses", fields)
  <2>1. Addresses(base, args) = part  BY AddressesIs DEF Addressed
  <2>2. HasPart(new, base, "addresses", part)
    <3> HIDE DEF part
    <3> QED BY <1>1, <1>2, <1>7, <2>1 DEF Part, HasPart
  <2> QED BY <2>2, PutOverBlock, ContactTables
<1>16. /\ \A r : <<"roles", r>> \notin Touched(base, args) => KeptIn(base, new, "roles", r)
       /\ Given(args, "roles") => DOMAIN new["roles"] = args["roles"]
  BY <1>1, <1>2, <1>3, RolesKept
<1>17. /\ CompanyFields["name"] = "name" /\ CompanyFields["tax_number"] = "taxNumber"
       /\ CompanyFields["vat_registration_id"] = "vatRegistrationId"
       /\ PersonFields["name"] = "lastName" /\ PersonFields["first_name"] = "firstName"
       /\ PersonFields["salutation"] = "salutation"
       /\ AddressFields["billing_address"] = "billing"
       /\ AddressFields["shipping_address"] = "shipping"
       /\ DOMAIN CompanyFields = {"name", "tax_number", "vat_registration_id"}
       /\ DOMAIN PersonFields = {"name", "first_name", "salutation"}
       /\ DOMAIN AddressFields = {"billing_address", "shipping_address"}
  BY DEF CompanyFields, PersonFields, AddressFields
<1> HIDE DEF own, names
<1>18. ASSUME NEW f, f \notin Opened, <<f>> \notin Touched(base, args) PROVE Kept(base, new, f)
  <2>1. f # "version"  BY <1>18, TouchedHas
  <2>2. CASE f \in {"emailAddresses", "phoneNumbers", "note"}
    BY <1>8, <1>9, <1>10, <1>11, <1>18, <2>2 DEF Given
  <2>3. CASE f \notin {"emailAddresses", "phoneNumbers", "note"}
    BY <1>6, <1>18, <2>1, <2>3 DEF Opened
  <2> QED BY <2>2, <2>3
<1>19. ASSUME NEW f \in Opened, NEW g, <<f, g>> \notin Touched(base, args)
       PROVE  KeptIn(base, new, f, g)
  <2>1. CASE f = "price"
    <3>1. Kept(base, new, f)  BY <1>6, <2>1
    <3> QED BY <3>1, KeptAll
  <2>2. CASE f = "roles"  BY <1>16, <1>19, <2>2
  <2>3. CASE f = "addresses"
    <3>1. \A a \in DOMAIN args \cap DOMAIN AddressFields : AddressFields[a] # g
      BY <1>8, <1>17, <1>19, <2>3
    <3> QED BY <1>15, <2>3, <3>1
  <2>4. CASE f \in {"company", "person"} /\ f # own
    <3>1. Kept(base, new, f)  BY <1>14, <2>4
    <3> QED BY <3>1, KeptAll
  <2>5. CASE f \in {"company", "person"} /\ f = own
    <3>1. \A a \in DOMAIN args \cap DOMAIN names : names[a] # g
      BY <1>8, <1>12, <1>17, <1>19, <2>5
    <3> QED BY <1>13, <2>5, <3>1
  <2> QED BY <2>1, <2>2, <2>3, <2>4, <2>5 DEF Opened
<1>20. ASSUME NEW a \in DOMAIN args \cap DOMAIN FieldsFor
       PROVE  Holds(new, FieldsFor[a], args[a])
  <2>1. a \in {"name", "first_name", "salutation", "vat_registration_id", "tax_number", "note",
               "billing_address", "shipping_address"}
    BY FieldsForContacts DEF UpdateTakes
  <2>2. CASE a = "note"
    <3>1. "note" \in DOMAIN new \ Opened /\ new["note"] = args[a]
      BY <1>11, <2>2 DEF Given, Opened
    <3> QED BY <2>2, <3>1, FieldsForContacts DEF Holds
  <2>3. CASE a \in {"billing_address", "shipping_address"}
    <3>1. /\ "addresses" \in DOMAIN new \cap Opened /\ AddressFields[a] \in DOMAIN new["addresses"]
          /\ new["addresses"][AddressFields[a]] = args[a]
      BY <1>15, <1>17, <2>3 DEF Opened
    <3>2. <<"addresses", AddressFields[a]>> \in FieldsFor[a]
      BY <1>17, <2>3, FieldsForContacts
    <3> QED BY <3>1, <3>2 DEF Holds
  <2>4. CASE a \in {"name", "first_name", "salutation", "vat_registration_id", "tax_number"}
    <3>1. a \in DOMAIN names
      <4>1. DOMAIN args \cap (IF IsCompany(base, args) THEN {"first_name", "salutation"}
                              ELSE {"vat_registration_id", "tax_number"}) = {}
        BY DEF UpdateContactRefuses, Misplaced
      <4> QED BY <1>12, <1>17, <2>4, <4>1
    <3>2. /\ own \in DOMAIN new \cap Opened /\ names[a] \in DOMAIN new[own]
          /\ new[own][names[a]] = args[a]
      BY <1>12, <1>13, <3>1 DEF Opened
    <3>3. <<own, names[a]>> \in FieldsFor[a]
      BY <1>12, <1>17, <2>4, <3>1, FieldsForContacts
    <3> QED BY <3>2, <3>3 DEF Holds
  <2> QED BY <2>1, <2>2, <2>3, <2>4
<1>22. /\ Given(args, "email") => Reached(base, new, "emailAddresses", args["email"])
       /\ Given(args, "phone") => Reached(base, new, "phoneNumbers", args["phone"])
  <2> DEFINE default == Default(base, args)
             r == Reachability(base, args, default)
             InKind(f, value) == Sole(Kind(Block(base, f), default), <<value>>)
  <2>1. /\ DOMAIN r = {f \in {"emailAddresses", "phoneNumbers"} :
                         \/ f = "emailAddresses" /\ Given(args, "email")
                         \/ f = "phoneNumbers" /\ Given(args, "phone")}
        /\ Given(args, "email") => r["emailAddresses"] = InKind("emailAddresses", args["email"])
        /\ Given(args, "phone") => r["phoneNumbers"] = InKind("phoneNumbers", args["phone"])
    BY Zenon, ReachabilityIs
  <2> HIDE DEF default, r, InKind
  <2>2. /\ Given(args, "email") => /\ "emailAddresses" \in DOMAIN new
                                   /\ new["emailAddresses"] = InKind("emailAddresses", args["email"])
        /\ Given(args, "phone") => /\ "phoneNumbers" \in DOMAIN new
                                   /\ new["phoneNumbers"] = InKind("phoneNumbers", args["phone"])
    BY <1>2, <1>7, <2>1 DEF Part, r, default
  <2>3. \A f, value : f \in DOMAIN new /\ new[f] = InKind(f, value) => Reached(base, new, f, value)
    BY ReachedAt DEF InKind
  <2> QED BY <2>2, <2>3
<1>23. ComesToHold(base, new, args)
  BY <1>16, <1>22 DEF ComesToHold, UpdateTakes, Given, Finalizes, Field
<1>21. ChangesOnlyGiven(base, new, args)  BY <1>18, <1>19, <1>20, <1>23, OnlyGiven
<1> QED BY <1>21 DEF new, body
------------------------------------------------------------------------------
\* What a voucher becomes.
LEMMA LinedHas ==
  ASSUME NEW args
  PROVE  /\ \A g \in DOMAIN args \cap DOMAIN LineFields :
               LineFields[g] \in DOMAIN Lined(args) /\ Lined(args)[LineFields[g]] = args[g]
         /\ \A f \in DOMAIN Lined(args) : \E g \in DOMAIN args \cap DOMAIN LineFields : LineFields[g] = f
<1>1. Tabled(LineFields)  BY VoucherTables
<1> QED BY <1>1, MentionedIs DEF Lined

LEMMA TotalledHas ==
  ASSUME NEW args
  PROVE  /\ Given(args, "total_tax_amount") =>
               /\ "totalTaxAmount" \in DOMAIN Totalled(args)
               /\ Totalled(args)["totalTaxAmount"] = args["total_tax_amount"]
         /\ Given(args, "total_gross_amount") =>
               /\ "totalGrossAmount" \in DOMAIN Totalled(args)
               /\ Totalled(args)["totalGrossAmount"] = args["total_gross_amount"]
         /\ ~Given(args, "total_tax_amount") => "totalTaxAmount" \notin DOMAIN Totalled(args)
         /\ ~Given(args, "total_gross_amount") => "totalGrossAmount" \notin DOMAIN Totalled(args)
<1>1. /\ Tabled(TotalFields) /\ DOMAIN TotalFields = {"total_tax_amount", "total_gross_amount"}
      /\ TotalFields["total_tax_amount"] = "totalTaxAmount"
      /\ TotalFields["total_gross_amount"] = "totalGrossAmount"
  BY VoucherTables DEF TotalFields
<1> DEFINE m == Totalled(args)
<1>2. /\ \A g \in DOMAIN args \cap DOMAIN TotalFields :
            TotalFields[g] \in DOMAIN m /\ m[TotalFields[g]] = args[g]
      /\ \A f \in DOMAIN m : \E g \in DOMAIN args \cap DOMAIN TotalFields : TotalFields[g] = f
  BY <1>1, MentionedIs DEF Totalled
<1> HIDE DEF m
<1> QED BY <1>1, <1>2 DEF Given, m

\* A field no argument is for is the record's.
LEMMA VoucherKeeps ==
  ASSUME NEW base, Base(base) = base, base # Nothing, NEW args, NEW f,
         f \notin VoucherPutDrop, ~Given(args, "tax_type"),
         \A g \in DOMAIN args \cap DOMAIN LineFields : LineFields[g] # f,
         f \in {"contactId", "useCollectiveContact"} =>
            ~Given(args, "contact_id") /\ ~Given(args, "use_collective_contact"),
         f \in {"totalTaxAmount", "totalGrossAmount"} => ~Given(args, "items"),
         f = "totalTaxAmount" => ~Given(args, "total_tax_amount"),
         f = "totalGrossAmount" => ~Given(args, "total_gross_amount")
  PROVE  Kept(base, VoucherBody(base, args), f)
<1> DEFINE body == VoucherBody(base, args)
<1>1. FirstOfSix(body, Totalled(args), Summed(base, args), Lined(args),
                 VoucherContact(args), Status(args), KeptOf(base, args))
  BY VoucherBodyIs
<1> HIDE DEF body
<1>2. f \notin DOMAIN Totalled(args)  BY TotalledIs, TotalledHas
<1>3. f \notin DOMAIN Summed(base, args)  BY SummedIs DEF Derives
<1>4. f \notin DOMAIN Lined(args)  BY LinedHas
<1>5. f \notin DOMAIN VoucherContact(args)  BY VoucherContactIs
<1>6. f \notin DOMAIN Status(args)  BY StatusIs DEF VoucherPutDrop
<1>7. /\ f \in DOMAIN KeptOf(base, args) <=> f \in DOMAIN base
      /\ f \in DOMAIN KeptOf(base, args) => KeptOf(base, args)[f] = base[f]
  <2>1. f = "contactId" => ~LeavesContact(args)  BY DEF LeavesContact, Field, Given
  <2>2. DOMAIN KeptOf(base, args)
          = DOMAIN base \ (VoucherPutDrop
                           \cup IF LeavesContact(args) THEN {"contactId"} ELSE {})
    BY KeptIs
  <2>3. f \in DOMAIN KeptOf(base, args) => KeptOf(base, args)[f] = base[f]  BY KeptIs
  <2> QED BY <2>1, <2>2, <2>3
<1>8. Kept(base, body, f)
  BY <1>1, <1>2, <1>3, <1>4, <1>5, <1>6, <1>7 DEF FirstOfSix, Kept
<1> QED BY <1>8 DEF body

\* And an argument's value is in the field it is for.
LEMMA VoucherHolds ==
  ASSUME NEW base, NEW args
  PROVE  LET body == VoucherBody(base, args)
         IN  /\ \A g \in DOMAIN args \cap DOMAIN LineFields :
                   LineFields[g] \in DOMAIN body /\ body[LineFields[g]] = args[g]
             /\ \A f \in DOMAIN VoucherContact(args) :
                   f \in DOMAIN body /\ body[f] = VoucherContact(args)[f]
             /\ \A f \in DOMAIN Totalled(args) : f \in DOMAIN body /\ body[f] = Totalled(args)[f]
             /\ \A f \in DOMAIN Status(args) : f \in DOMAIN body /\ body[f] = Status(args)[f]
             /\ "voucherStatus" \in DOMAIN body => "voucherStatus" \in DOMAIN Status(args)
<1> DEFINE body == VoucherBody(base, args)
           m == Totalled(args)
           s == Summed(base, args)
           l == Lined(args)
           v == VoucherContact(args)
           t == Status(args)
           k == KeptOf(base, args)
<1>1. FirstOfSix(body, m, s, l, v, t, k)
  BY VoucherBodyIs
<1>2. DOMAIN m \subseteq {"totalTaxAmount", "totalGrossAmount"}
      /\ DOMAIN s \subseteq {"totalTaxAmount", "totalGrossAmount"}
  BY TotalledIs, SummedIs
<1>3. DOMAIN l \subseteq VoucherLines  BY LinedIs
<1>4. DOMAIN v \subseteq {"contactId", "useCollectiveContact"}  BY VoucherContactIs
<1>5. DOMAIN t \subseteq {"voucherStatus"}  BY StatusIs
<1>6. \A g \in DOMAIN args \cap DOMAIN LineFields :
         LineFields[g] \in DOMAIN l /\ l[LineFields[g]] = args[g]
  BY LinedHas
<1>7. "voucherStatus" \notin DOMAIN k  BY KeptIs DEF VoucherPutDrop
<1> HIDE DEF body, m, s, l, v, t, k
<1>8. \A f \in DOMAIN l : f \in DOMAIN body /\ body[f] = l[f]
  BY <1>1, <1>2, <1>3 DEF FirstOfSix, VoucherLines
<1>9. \A f \in DOMAIN v : f \in DOMAIN body /\ body[f] = v[f]
  BY <1>1, <1>2, <1>3, <1>4 DEF FirstOfSix, VoucherLines
<1>10. \A f \in DOMAIN t : f \in DOMAIN body /\ body[f] = t[f]
  BY <1>1, <1>2, <1>3, <1>4, <1>5 DEF FirstOfSix, VoucherLines
<1>11. \A f \in DOMAIN m : f \in DOMAIN body /\ body[f] = m[f]
  BY <1>1 DEF FirstOfSix
<1>12. "voucherStatus" \in DOMAIN body => "voucherStatus" \in DOMAIN t
  BY <1>1, <1>2, <1>3, <1>4, <1>7 DEF FirstOfSix, VoucherLines
<1> QED BY <1>6, <1>8, <1>9, <1>10, <1>11, <1>12 DEF body, m, l, v, t

LEMMA VoucherOnlyGiven ==
  ASSUME NEW base, Valid("voucher", base), NEW args, DOMAIN args \subseteq UpdateTakes["voucher"],
         Given(args, "use_collective_contact") => args["use_collective_contact"] \in BOOLEAN,
         ~UpdateVoucherRefuses(args)
  PROVE  ChangesOnlyGiven(base, Stored("voucher", VoucherBody(base, args), base), args)
<1> DEFINE body == VoucherBody(base, args)
           new == Stored("voucher", body, base)
<1>1. /\ Base(base) = base /\ base # Nothing /\ ValidVoucher(base)
      /\ "organizationId" \in DOMAIN base /\ base["organizationId"] = "org"
      /\ {"contactName", "createdDate", "updatedDate"} \cap DOMAIN base = {}
      /\ "voucherStatus" \in DOMAIN base
  <2>1. ValidVoucher(base) /\ "voucherStatus" \in DOMAIN base  BY DEF Valid, ValidVoucher
  <2> QED BY <2>1, BaseIs, NothingIsEmpty DEF Valid
<1>2. DOMAIN args \subseteq {"voucher_date", "due_date", "voucher_number", "contact_id",
                             "use_collective_contact", "items", "total_gross_amount",
                             "total_tax_amount", "remark", "finalize", "confirm"}
  BY DEF UpdateTakes
<1>3. /\ \A g \in DOMAIN args \cap DOMAIN LineFields :
            LineFields[g] \in DOMAIN body /\ body[LineFields[g]] = args[g]
      /\ \A f \in DOMAIN VoucherContact(args) :
            f \in DOMAIN body /\ body[f] = VoucherContact(args)[f]
      /\ \A f \in DOMAIN Totalled(args) : f \in DOMAIN body /\ body[f] = Totalled(args)[f]
      /\ \A f \in DOMAIN Status(args) : f \in DOMAIN body /\ body[f] = Status(args)[f]
      /\ "voucherStatus" \in DOMAIN body => "voucherStatus" \in DOMAIN Status(args)
  BY VoucherHolds
<1>4. {"organizationId", "contactName", "createdDate", "updatedDate"} \cap DOMAIN body = {}
  <2>1. DOMAIN body
          \subseteq {"totalTaxAmount", "totalGrossAmount", "contactId", "useCollectiveContact",
                     "voucherStatus"}
                    \cup VoucherLines \cup (DOMAIN Base(base) \ VoucherPutDrop)
    BY VoucherBodyFields
  <2> HIDE DEF body
  <2> QED BY <2>1 DEF VoucherLines, VoucherPutDrop
<1>5. /\ DOMAIN new = {"version", "organizationId", "voucherStatus"} \cup DOMAIN body
      /\ new["voucherStatus"] = Field(body, "voucherStatus", Field(base, "voucherStatus", "open"))
      /\ \A f \in DOMAIN body : f \notin {"version", "voucherStatus"} => new[f] = body[f]
      /\ new["organizationId"] = "org"
  <2> DEFINE x == Assigned("voucher", body, base)
  <2>1. StoredOf(new, x, body, base)  BY StoredIs
  <2>2. /\ DOMAIN x = {"voucherStatus"}
        /\ x["voucherStatus"] = Field(body, "voucherStatus", Field(base, "voucherStatus", "open"))
    BY AssignedIs
  <2> HIDE DEF x, new, body
  <2> QED BY <1>4, <2>1, <2>2 DEF StoredOf
<1>6. ASSUME NEW f,
             f \notin VoucherPutDrop,
             \A g \in DOMAIN args \cap DOMAIN LineFields : LineFields[g] # f,
             f \in {"contactId", "useCollectiveContact"} =>
                ~Given(args, "contact_id") /\ ~Given(args, "use_collective_contact"),
             f \in {"totalTaxAmount", "totalGrossAmount"} => ~Given(args, "items"),
             f = "totalTaxAmount" => ~Given(args, "total_tax_amount"),
             f = "totalGrossAmount" => ~Given(args, "total_gross_amount")
      PROVE  Kept(base, body, f)
  <2>1. ~Given(args, "tax_type")  BY <1>2 DEF Given
  <2> QED BY <1>1, <1>6, <2>1, VoucherKeeps
<1> HIDE DEF body, new
<1>7. /\ "items" \in DOMAIN args =>
            {<<"voucherItems">>, <<"totalTaxAmount">>, <<"totalGrossAmount">>} \subseteq Touched(base, args)
      /\ "voucher_number" \in DOMAIN args => <<"voucherNumber">> \in Touched(base, args)
      /\ "voucher_date" \in DOMAIN args => <<"voucherDate">> \in Touched(base, args)
      /\ "due_date" \in DOMAIN args => <<"dueDate">> \in Touched(base, args)
      /\ "remark" \in DOMAIN args => <<"remark">> \in Touched(base, args)
      /\ "contact_id" \in DOMAIN args \/ "use_collective_contact" \in DOMAIN args =>
            {<<"contactId">>, <<"useCollectiveContact">>} \subseteq Touched(base, args)
      /\ "total_tax_amount" \in DOMAIN args => <<"totalTaxAmount">> \in Touched(base, args)
      /\ "total_gross_amount" \in DOMAIN args => <<"totalGrossAmount">> \in Touched(base, args)
  <2>1. /\ Besides(base, "items", args) = {<<"totalGrossAmount">>, <<"totalTaxAmount">>}
        /\ Besides(base, "contact_id", args) = {<<"contactId">>, <<"useCollectiveContact">>}
        /\ Besides(base, "use_collective_contact", args)
              = {<<"contactId">>, <<"useCollectiveContact">>}
    BY DEF Besides
  <2> QED BY <2>1, TouchedHas, FieldsForVouchers
<1>8. Finalizes(args) => <<"voucherStatus">> \in Touched(base, args)
  <2> SUFFICES ASSUME Finalizes(args) PROVE <<"voucherStatus">> \in Touched(base, args)
    OBVIOUS
  <2>1. "finalize" \in DOMAIN args /\ args.finalize  BY DEF Finalizes, Field
  <2>2. args.confirm  BY DEF UpdateVoucherRefuses, Unconfirmed, Field
  <2>3. Besides(base, "finalize", args) = {<<"voucherStatus">>}  BY <2>1, <2>2 DEF Besides
  <2> QED BY <2>1, <2>3, TouchedHas
<1>9. ~Finalizes(args) => Kept(base, new, "voucherStatus")
  <2> SUFFICES ASSUME ~Finalizes(args) PROVE Kept(base, new, "voucherStatus")
    OBVIOUS
  <2>1. "voucherStatus" \notin DOMAIN body  BY <1>3, StatusIs
  <2>2. new["voucherStatus"] = base["voucherStatus"]  BY <1>1, <1>5, <2>1 DEF Field
  <2> QED BY <1>1, <1>5, <2>2 DEF Kept
<1>10. \A f : f \notin {"version", "organizationId", "voucherStatus"} /\ Kept(base, body, f)
                => Kept(base, new, f)
  BY <1>5 DEF Kept
<1>11. \A f \in {"organizationId", "contactName", "createdDate", "updatedDate"} : Kept(base, new, f)
  BY <1>1, <1>4, <1>5 DEF Kept
<1>12. /\ LineFields["items"] = "voucherItems" /\ LineFields["voucher_number"] = "voucherNumber"
       /\ LineFields["remark"] = "remark" /\ LineFields["voucher_date"] = "voucherDate"
       /\ LineFields["due_date"] = "dueDate"
       /\ DOMAIN LineFields = {"items", "voucher_type", "voucher_number", "voucher_date", "due_date",
                               "shipping_date", "tax_type", "remark"}
  BY VoucherTables
<1>13. DOMAIN args \cap DOMAIN LineFields
         \subseteq {"items", "voucher_number", "voucher_date", "due_date", "remark"}
  BY <1>2, <1>12
<1>14. \A g \in DOMAIN args \cap DOMAIN LineFields : <<LineFields[g]>> \in Touched(base, args)
  BY <1>7, <1>12, <1>13
<1>15. ASSUME NEW f, <<f>> \notin Touched(base, args) PROVE Kept(base, new, f)
  <2>1. f # "version"  BY <1>15, TouchedHas
  <2>2. CASE f \in {"organizationId", "contactName", "createdDate", "updatedDate"}
    BY <1>11, <2>2
  <2>3. CASE f = "voucherStatus"  BY <1>8, <1>9, <1>15, <2>3
  <2>4. CASE f \notin VoucherPutDrop
    <3>1. \A g \in DOMAIN args \cap DOMAIN LineFields : LineFields[g] # f  BY <1>14, <1>15
    <3>2. /\ f \in {"contactId", "useCollectiveContact"} =>
                ~Given(args, "contact_id") /\ ~Given(args, "use_collective_contact")
          /\ f \in {"totalTaxAmount", "totalGrossAmount"} => ~Given(args, "items")
          /\ f = "totalTaxAmount" => ~Given(args, "total_tax_amount")
          /\ f = "totalGrossAmount" => ~Given(args, "total_gross_amount")
      BY <1>7, <1>15 DEF Given
    <3>3. Kept(base, body, f)  BY <1>6, <1>15, <2>4, <3>1, <3>2
    <3> QED BY <1>10, <2>1, <2>4, <3>3 DEF VoucherPutDrop
  <2> QED BY <2>2, <2>3, <2>4 DEF VoucherPutDrop
<1>16. ASSUME NEW f \in Opened, NEW g PROVE KeptIn(base, new, f, g)
  <2>1. /\ f \notin VoucherPutDrop /\ f \notin VoucherLines
        /\ f \notin {"contactId", "useCollectiveContact", "totalTaxAmount", "totalGrossAmount",
                      "version", "organizationId", "voucherStatus"}
    BY DEF Opened, VoucherPutDrop, VoucherLines
  <2>2. \A h \in DOMAIN args \cap DOMAIN LineFields : LineFields[h] # f
    BY <1>12, <1>13, <2>1 DEF VoucherLines
  <2>3. Kept(base, body, f)  BY <1>6, <2>1, <2>2
  <2>4. Kept(base, new, f)  BY <1>10, <2>1, <2>3
  <2> QED BY <2>4, KeptAll
<1>17. ASSUME NEW a \in DOMAIN args \cap DOMAIN FieldsFor
       PROVE  Holds(new, FieldsFor[a], args[a])
  <2>1. a \in {"voucher_date", "due_date", "voucher_number", "contact_id", "items", "remark",
               "use_collective_contact", "total_gross_amount", "total_tax_amount"}
    BY <1>2, FieldsForVouchers
  <2>2. \A f : /\ f \in DOMAIN body /\ body[f] = args[a] /\ <<f>> \in FieldsFor[a]
               /\ f \notin Opened \cup {"version", "voucherStatus"}
               => Holds(new, FieldsFor[a], args[a])
    BY <1>5 DEF Holds
  <2>3. CASE a \in {"voucher_date", "due_date", "voucher_number", "items", "remark"}
    <3>1. a \in DOMAIN LineFields /\ <<LineFields[a]>> \in FieldsFor[a]
          /\ LineFields[a] \notin Opened \cup {"version", "voucherStatus"}
      BY <1>12, <2>3, FieldsForVouchers, OpenedIs
    <3>2. LineFields[a] \in DOMAIN body /\ body[LineFields[a]] = args[a]  BY <1>3, <3>1
    <3> QED BY <2>2, <3>1, <3>2
  <2>4. CASE a = "contact_id"
    <3>1. /\ "contactId" \in DOMAIN VoucherContact(args)
          /\ VoucherContact(args)["contactId"] = args["contact_id"]
      <4>1. Given(args, "contact_id")  BY <2>4 DEF Given
      <4> QED BY <4>1, VoucherContactIs
    <3>2. "contactId" \in DOMAIN body /\ body["contactId"] = args[a]  BY <1>3, <2>4, <3>1
    <3>3. <<"contactId">> \in FieldsFor[a]  BY <2>4, FieldsForVouchers
    <3> QED BY <2>2, <3>2, <3>3, OpenedIs
  <2>5. CASE a = "use_collective_contact"
    <3>1. /\ "useCollectiveContact" \in DOMAIN VoucherContact(args)
          /\ VoucherContact(args)["useCollectiveContact"] = args["use_collective_contact"]
      <4>1. CASE ~Given(args, "contact_id")  BY <2>5, <4>1, VoucherContactIs DEF Given
      <4>2. CASE Given(args, "contact_id")
        <5>1. args["use_collective_contact"] = FALSE
          BY <2>5, <4>2 DEF UpdateVoucherRefuses, TwoContactsOrNone, Field, Given
        <5>2. /\ "useCollectiveContact" \in DOMAIN VoucherContact(args)
              /\ VoucherContact(args)["useCollectiveContact"] = FALSE
          BY <4>2, VoucherContactIs
        <5> QED BY <5>1, <5>2
      <4> QED BY <4>1, <4>2
    <3>2. "useCollectiveContact" \in DOMAIN body /\ body["useCollectiveContact"] = args[a]
      BY <1>3, <2>5, <3>1
    <3>3. <<"useCollectiveContact">> \in FieldsFor[a]  BY <2>5, FieldsForVouchers
    <3> QED BY <2>2, <3>2, <3>3, OpenedIs
  <2>6. CASE a = "total_tax_amount"
    <3>1. "totalTaxAmount" \in DOMAIN body /\ body["totalTaxAmount"] = args[a]
      BY <1>3, <2>6, TotalledHas DEF Given
    <3>2. <<"totalTaxAmount">> \in FieldsFor[a]  BY <2>6, FieldsForVouchers
    <3> QED BY <2>2, <3>1, <3>2, OpenedIs
  <2>7. CASE a = "total_gross_amount"
    <3>1. "totalGrossAmount" \in DOMAIN body /\ body["totalGrossAmount"] = args[a]
      BY <1>3, <2>7, TotalledHas DEF Given
    <3>2. <<"totalGrossAmount">> \in FieldsFor[a]  BY <2>7, FieldsForVouchers
    <3> QED BY <2>2, <3>1, <3>2, OpenedIs
  <2> QED BY <2>1, <2>3, <2>4, <2>5, <2>6, <2>7
<1>19. ComesToHold(base, new, args)
  <2>1. Finalizes(args) => new["voucherStatus"] = "open"
    <3> SUFFICES ASSUME Finalizes(args) PROVE new["voucherStatus"] = "open"
      OBVIOUS
    <3>1. "voucherStatus" \in DOMAIN body /\ body["voucherStatus"] = "open"
      BY <1>3, StatusIs
    <3> QED BY <1>5, <3>1 DEF Field
  <2> QED BY <1>2, <2>1 DEF ComesToHold, Given
<1>18. ChangesOnlyGiven(base, new, args)  BY <1>15, <1>16, <1>17, <1>19, OnlyGiven
<1> QED BY <1>18 DEF new, body
------------------------------------------------------------------------------
\* What an article becomes.
LEMMA DescribedHas ==
  ASSUME NEW args
  PROVE  /\ \A g \in DOMAIN args \cap DOMAIN ArticleFields :
               /\ ArticleFields[g] \in DOMAIN Described(args)
               /\ Described(args)[ArticleFields[g]] = args[g]
         /\ \A f \in DOMAIN Described(args) :
               \E g \in DOMAIN args \cap DOMAIN ArticleFields : ArticleFields[g] = f
<1>1. Tabled(ArticleFields)  BY ArticleTables
<1> QED BY <1>1, MentionedIs DEF Described

\* Of the price only what was named changes, and the side that follows.
LEMMA PriceOnlyGiven ==
  ASSUME NEW base, ValidArticle(base), NEW new, "price" \in DOMAIN new, NEW args,
         Field(args, "leading_price", "NET") \in {"NET", "GROSS"},
         new["price"] = Priced(PriceSends(PriceBody(base["price"], args)))
  PROVE  /\ \A g : <<"price", g>> \notin Touched(base, args) => KeptIn(base, new, "price", g)
         /\ "tax_rate" \in DOMAIN args =>
               "taxRate" \in DOMAIN new["price"] /\ new["price"]["taxRate"] = args["tax_rate"]
         /\ "leading_price" \in DOMAIN args =>
               /\ "leadingPrice" \in DOMAIN new["price"]
               /\ new["price"]["leadingPrice"] = args["leading_price"]
         /\ Given(args, "price") =>
               new["price"][Leading(new["price"]["leadingPrice"])] = args["price"]
<1> DEFINE current == base["price"]
           price == PriceBody(current, args)
           side == PriceSide(current, args)
           kept == PriceKept(current, args)
<1>1. /\ "price" \in DOMAIN base
      /\ {"leadingPrice", "netPrice", "grossPrice"} \subseteq DOMAIN current
      /\ current["leadingPrice"] \in {"NET", "GROSS"}
  BY DEF ValidArticle
<1>2. /\ ~PriceNamed(args) => price = current
      /\ PriceNamed(args) => PriceTakes(price, side, kept, current, args)
  BY PriceBodyIs
<1>3. PriceFits(price)
  <2> HIDE DEF current
  <2> QED BY <1>1, PriceReplacementFits
<1>4. /\ DOMAIN new["price"] = (DOMAIN price \cap PriceKeys) \cup {"netPrice", "grossPrice"}
      /\ \A f \in DOMAIN price \cap PriceKeys : new["price"][f] = price[f]
  <2> DEFINE going == PriceSends(price)
  <2>1. PriceFits(going)  BY <1>3, PriceSendsFits
  <2>2. new["price"] = Priced(going)  OBVIOUS
  <2>3. /\ DOMAIN going = DOMAIN price \cap PriceKeys
        /\ \A f \in DOMAIN price \cap PriceKeys : going[f] = price[f]
    BY PriceSendsIs
  <2> HIDE DEF going, price
  <2>4. /\ DOMAIN new["price"] = DOMAIN going \cup {"netPrice", "grossPrice"}
        /\ \A f \in DOMAIN going : new["price"][f] = going[f]
    BY <2>1, <2>2, PricedIs
  <2> QED BY <2>3, <2>4
<1>5. side = IF "leading_price" \in DOMAIN args THEN args["leading_price"] ELSE current["leadingPrice"]
  <2> HIDE DEF current
  <2> QED BY <1>1 DEF PriceSide, Field
<1>6. /\ Given(args, "price") => /\ DOMAIN kept = {Leading(side)}
                                 /\ kept[Leading(side)] = args["price"]
      /\ ~Given(args, "price") => /\ DOMAIN kept = {Leading(side)} \cap DOMAIN current
                                  /\ Leading(side) \in DOMAIN current =>
                                        kept[Leading(side)] = current[Leading(side)]
  BY Zenon, PriceKeptIs
<1>7. Leading(side) \in {"netPrice", "grossPrice"}  BY LeadingIs
<1>8. \A a \in {"price", "tax_rate", "leading_price"} :
         Besides(base, a, args) = {<<"price", "netPrice">>, <<"price", "grossPrice">>}
                                  \ IF a = "price" THEN {} ELSE {<<"price", Leading(side)>>}
  <2>1. side = Field(args, "leading_price", base.price.leadingPrice)
    BY <1>1 DEF PriceSide, Field
  <2> HIDE DEF side
  <2> DEFINE both == {<<"price", "netPrice">>, <<"price", "grossPrice">>}
  <2>2. /\ Besides(base, "price", args) = both \ {}
        /\ Besides(base, "tax_rate", args) = both \ {<<"price", Leading(side)>>}
        /\ Besides(base, "leading_price", args) = both \ {<<"price", Leading(side)>>}
    BY <2>1 DEF Besides
  <2> HIDE DEF both
  <2> QED BY <2>2 DEF both
<1> HIDE DEF price, side, kept
<1>9. /\ "price" \in DOMAIN args =>
            {<<"price", "netPrice">>, <<"price", "grossPrice">>} \subseteq Touched(base, args)
      /\ PriceNamed(args) =>
            {<<"price", "netPrice">>, <<"price", "grossPrice">>} \ {<<"price", Leading(side)>>}
               \subseteq Touched(base, args)
      /\ "tax_rate" \in DOMAIN args => <<"price", "taxRate">> \in Touched(base, args)
      /\ "leading_price" \in DOMAIN args => <<"price", "leadingPrice">> \in Touched(base, args)
  <2>1. "price" \in DOMAIN args =>
            {<<"price", "netPrice">>, <<"price", "grossPrice">>} \subseteq Touched(base, args)
    BY <1>8, TouchedHas
  <2>2. \A a \in DOMAIN args \cap {"price", "tax_rate", "leading_price"} :
            {<<"price", "netPrice">>, <<"price", "grossPrice">>} \ {<<"price", Leading(side)>>}
               \subseteq Touched(base, args)
    BY <1>8, TouchedHas
  <2> QED BY <2>1, <2>2, TouchedHas, FieldsForArticles DEF PriceNamed
<1>12. \A g \in DOMAIN current : <<"price", g>> \notin Touched(base, args) => g \in PriceKeys
  <2>1. Block(base, "price") = current  BY <1>1 DEF Block, Field
  <2>2. PriceLeftOut(base) = {<<"price", g>> : g \in DOMAIN current \ PriceKeys}
    <3> HIDE DEF current
    <3> QED BY <2>1 DEF PriceLeftOut
  <2>3. PriceLeftOut(base) \subseteq Touched(base, args)  BY TouchedHas
  <2> HIDE DEF current
  <2> QED BY <2>2, <2>3
<1>13. {"leadingPrice", "netPrice", "grossPrice", "taxRate"} \subseteq PriceKeys  BY DEF PriceKeys
<1>10. CASE ~PriceNamed(args)
  <2>1. ASSUME NEW g, <<"price", g>> \notin Touched(base, args)
        PROVE  KeptIn(base, new, "price", g)
    <3>1. price = current  BY <1>2, <1>10
    <3> HIDE DEF current
    <3> QED BY <1>1, <1>4, <1>12, <2>1, <3>1 DEF KeptIn, current
  <2> QED BY <1>10, <2>1 DEF PriceNamed, Given
<1>11. CASE PriceNamed(args)
  <2>1. PriceTakes(price, side, kept, current, args)  BY <1>2, <1>11
  <2>2. ASSUME NEW g, <<"price", g>> \notin Touched(base, args)
        PROVE  KeptIn(base, new, "price", g)
    <3>1. CASE g \in {"netPrice", "grossPrice"}
      <4>1. g = Leading(side) /\ ~Given(args, "price")
        BY <1>9, <1>11, <2>2, <3>1 DEF Given
      <4>2. g \in DOMAIN kept /\ kept[g] = current[g]  BY <1>1, <1>6, <1>7, <4>1
      <4>3. g \in DOMAIN price /\ price[g] = current[g]  BY <2>1, <4>2 DEF PriceTakes
      <4> QED BY <1>1, <1>4, <1>13, <3>1, <4>3 DEF KeptIn
    <3>2. CASE g = "leadingPrice"
      <4>1. "leading_price" \notin DOMAIN args  BY <1>9, <2>2, <3>2
      <4>2. g \in DOMAIN price /\ price[g] = current[g]
        BY <1>5, <2>1, <3>2, <4>1 DEF PriceTakes
      <4> QED BY <1>1, <1>4, <1>13, <3>2, <4>2 DEF KeptIn
    <3>3. CASE g \notin {"netPrice", "grossPrice", "leadingPrice"}
      <4>1. g = "taxRate" => ~Given(args, "tax_rate")  BY <1>9, <2>2 DEF Given
      <4>2. g \in DOMAIN current => g \in DOMAIN price /\ price[g] = current[g]
        BY <2>1, <3>3, <4>1 DEF PriceTakes
      <4>3. g \in DOMAIN price => g \in DOMAIN current
        <5>1. DOMAIN kept \subseteq {"netPrice", "grossPrice"}  BY <1>6, <1>7
        <5>2. DOMAIN price \subseteq {"leadingPrice"} \cup DOMAIN kept
                          \cup (DOMAIN current \ {"netPrice", "grossPrice"})
                          \cup (IF Given(args, "tax_rate") THEN {"taxRate"} ELSE {})
          BY <2>1 DEF PriceTakes
        <5> QED BY <3>3, <4>1, <5>1, <5>2
      <4>4. g \in DOMAIN current => g \in PriceKeys  BY <1>12, <2>2
      <4> QED BY <1>1, <1>4, <3>3, <4>2, <4>3, <4>4 DEF KeptIn
    <3> QED BY <3>1, <3>2, <3>3
  <2>3. "tax_rate" \in DOMAIN args =>
               "taxRate" \in DOMAIN price /\ price["taxRate"] = args["tax_rate"]
    BY <2>1 DEF PriceTakes, Given
  <2>4. "leading_price" \in DOMAIN args =>
               "leadingPrice" \in DOMAIN price /\ price["leadingPrice"] = args["leading_price"]
    BY <1>5, <2>1 DEF PriceTakes
  <2>5. Given(args, "price") =>
               new["price"][Leading(new["price"]["leadingPrice"])] = args["price"]
    <3> SUFFICES ASSUME Given(args, "price")
                 PROVE  new["price"][Leading(new["price"]["leadingPrice"])] = args["price"]
      OBVIOUS
    <3>1. new["price"]["leadingPrice"] = side  BY <1>4, <1>13, <2>1 DEF PriceTakes
    <3>2. Leading(side) \in DOMAIN price /\ price[Leading(side)] = args["price"]
      BY <1>6, <2>1 DEF PriceTakes
    <3>3. Leading(side) \in PriceKeys  BY <1>7, <1>13
    <3> QED BY <1>4, <3>1, <3>2, <3>3
  <2> QED BY <1>4, <1>13, <2>2, <2>3, <2>4, <2>5
<1> QED BY <1>10, <1>11

LEMMA ArticleOnlyGiven ==
  ASSUME NEW base, Valid("article", base), NEW args, DOMAIN args \subseteq UpdateTakes["article"],
         Field(args, "leading_price", "NET") \in {"NET", "GROSS"}
  PROVE  ChangesOnlyGiven(base, Stored("article", ArticleBody(base, args), base), args)
<1> DEFINE body == ArticleBody(base, args)
           new == Stored("article", body, base)
           part == PricePart(base, args)
           said == Described(args)
           rest == ArticleKept(base)
<1>1. /\ Base(base) = base /\ ValidArticle(base) /\ "price" \in DOMAIN base
      /\ "organizationId" \in DOMAIN base /\ base["organizationId"] = "org"
      /\ {"id", "createdDate", "updatedDate"} \cap DOMAIN base = {}
  <2>1. ValidArticle(base)  BY DEF Valid
  <2> QED BY <2>1, BaseIs, NothingIsEmpty DEF Valid, ValidArticle
<1>2. DOMAIN args \subseteq {"title", "article_type", "unit_name", "price", "tax_rate",
                             "leading_price", "article_number", "gtin", "description", "note"}
  BY DEF UpdateTakes
<1>3. /\ DOMAIN body = DOMAIN part \cup DOMAIN said \cup DOMAIN rest
      /\ \A f \in DOMAIN part : body[f] = part[f]
      /\ \A f \in DOMAIN said : f \notin DOMAIN part => body[f] = said[f]
      /\ \A f \in DOMAIN rest : f \notin DOMAIN part \cup DOMAIN said => body[f] = rest[f]
  BY Zenon, ArticleBodyIs
<1>4. /\ DOMAIN said \subseteq {"title", "type", "unitName", "articleNumber", "gtin",
                                "description", "note"}
      /\ DOMAIN rest = DOMAIN base \ ArticlePutDrop
      /\ \A f \in DOMAIN rest : rest[f] = base[f]
  <2>1. /\ DOMAIN rest = DOMAIN Base(base) \ ArticlePutDrop
        /\ \A f \in DOMAIN rest : rest[f] = Base(base)[f]
    BY ArticlePartsAre
  <2>2. DOMAIN said \subseteq {"title", "type", "unitName", "articleNumber", "gtin",
                                "description", "note"}
    BY ArticlePartsAre
  <2> HIDE DEF rest, said
  <2> QED BY <1>1, <2>1, <2>2
<1>5. DOMAIN part = {"price"} /\ part["price"] = PriceSends(PriceBody(base["price"], args))
  <2> DEFINE price == PriceBody(base["price"], args)
  <2>1. Block(base, "price") = base["price"]  BY <1>1 DEF Block, Field
  <2>2. PriceFits(price)
    <3>1. /\ {"leadingPrice", "netPrice", "grossPrice"} \subseteq DOMAIN base["price"]
          /\ base["price"]["leadingPrice"] \in {"NET", "GROSS"}
      BY <1>1 DEF ValidArticle
    <3> QED BY <3>1, PriceReplacementFits
  <2>3. part = PriceSent(price)  BY <2>1 DEF PricePart
  <2> HIDE DEF price, part
  <2>4. price # Nothing  BY <2>2, NothingIsEmpty DEF PriceFits
  <2>5. DOMAIN part = {"price"} /\ part["price"] = PriceSends(price)  BY <2>3, <2>4, PriceSentIs
  <2> QED BY <2>5 DEF price
<1>6. /\ \A g \in DOMAIN args \cap DOMAIN ArticleFields :
            ArticleFields[g] \in DOMAIN said /\ said[ArticleFields[g]] = args[g]
      /\ \A f \in DOMAIN said : \E g \in DOMAIN args \cap DOMAIN ArticleFields : ArticleFields[g] = f
  BY DescribedHas
<1> HIDE DEF body, part, said, rest
<1>7. /\ "price" \in DOMAIN body /\ body["price"] = PriceSends(PriceBody(base["price"], args))
      /\ "organizationId" \notin DOMAIN body
  BY <1>3, <1>4, <1>5 DEF ArticlePutDrop
<1>8. /\ DOMAIN new = {"version", "organizationId"} \cup DOMAIN body
      /\ new["price"] = Priced(body["price"])
      /\ \A f \in DOMAIN body : f \notin {"version", "price"} => new[f] = body[f]
      /\ new["organizationId"] = "org"
  <2> DEFINE x == Assigned("article", body, base)
  <2>1. StoredOf(new, x, body, base)  BY StoredIs
  <2>2. DOMAIN x = {"price"} /\ x["price"] = Priced(body["price"])  BY AssignedIs
  <2> HIDE DEF x, new
  <2> QED BY <1>7, <2>1, <2>2 DEF StoredOf
<1> HIDE DEF new
<1>9. /\ ArticleFields["title"] = "title" /\ ArticleFields["unit_name"] = "unitName"
      /\ ArticleFields["note"] = "note" /\ ArticleFields["article_type"] = "type"
      /\ ArticleFields["article_number"] = "articleNumber" /\ ArticleFields["gtin"] = "gtin"
      /\ ArticleFields["description"] = "description"
      /\ DOMAIN ArticleFields = {"title", "article_type", "unit_name", "article_number", "gtin",
                                 "description", "note"}
  BY ArticleTables
<1>10. \A g \in DOMAIN args \cap DOMAIN ArticleFields :
          <<ArticleFields[g]>> \in FieldsFor[g] /\ <<ArticleFields[g]>> \in Touched(base, args)
  BY <1>9, FieldsForArticles, TouchedHas
<1>11. ASSUME NEW f, f # "version", f # "price",
              \A g \in DOMAIN args \cap DOMAIN ArticleFields : ArticleFields[g] # f
       PROVE  Kept(base, new, f)
  <2>1. f \notin DOMAIN said /\ f \notin DOMAIN part  BY <1>5, <1>6, <1>11
  <2>2. CASE f \in ArticlePutDrop
    BY <1>1, <1>3, <1>4, <1>7, <1>8, <2>1, <2>2 DEF Kept, ArticlePutDrop
  <2>3. CASE f \notin ArticlePutDrop
    BY <1>3, <1>4, <1>8, <1>11, <2>1, <2>3 DEF Kept, ArticlePutDrop
  <2> QED BY <2>2, <2>3
<1>12. ASSUME NEW f, f \notin Opened, <<f>> \notin Touched(base, args) PROVE Kept(base, new, f)
  <2>1. f # "version" /\ f # "price"  BY <1>12, TouchedHas, OpenedIs
  <2>2. \A g \in DOMAIN args \cap DOMAIN ArticleFields : ArticleFields[g] # f  BY <1>10, <1>12
  <2> QED BY <1>11, <2>1, <2>2
<1>13. /\ \A g : <<"price", g>> \notin Touched(base, args) => KeptIn(base, new, "price", g)
       /\ "tax_rate" \in DOMAIN args =>
             "taxRate" \in DOMAIN new["price"] /\ new["price"]["taxRate"] = args["tax_rate"]
       /\ "leading_price" \in DOMAIN args =>
             /\ "leadingPrice" \in DOMAIN new["price"]
             /\ new["price"]["leadingPrice"] = args["leading_price"]
       /\ Given(args, "price") =>
             new["price"][Leading(new["price"]["leadingPrice"])] = args["price"]
  BY <1>1, <1>7, <1>8, PriceOnlyGiven
<1>14. ASSUME NEW f \in Opened, NEW g, <<f, g>> \notin Touched(base, args)
       PROVE  KeptIn(base, new, f, g)
  <2>1. CASE f = "price"  BY <1>13, <1>14, <2>1
  <2>2. CASE f # "price"
    <3>1. f # "version" /\ \A h \in DOMAIN args \cap DOMAIN ArticleFields : ArticleFields[h] # f
      BY <1>9, <1>14, OpenedIs
    <3>2. Kept(base, new, f)  BY <1>11, <2>2, <3>1
    <3> QED BY <3>2, KeptAll
  <2> QED BY <2>1, <2>2
<1>15. ASSUME NEW a \in DOMAIN args \cap DOMAIN FieldsFor
       PROVE  Holds(new, FieldsFor[a], args[a])
  <2>1. CASE a \in DOMAIN ArticleFields
    <3>1. /\ ArticleFields[a] \in DOMAIN said /\ said[ArticleFields[a]] = args[a]
          /\ <<ArticleFields[a]>> \in FieldsFor[a]
      BY <1>6, <1>10, <2>1
    <3>2. ArticleFields[a] \notin Opened \cup {"version", "price"}
      BY <1>9, <2>1, OpenedIs
    <3>3. ArticleFields[a] \in DOMAIN new /\ new[ArticleFields[a]] = args[a]
      BY <1>3, <1>5, <1>8, <3>1, <3>2
    <3> QED BY <3>1, <3>2, <3>3 DEF Holds
  <2>2. CASE a \in {"tax_rate", "leading_price"}
    <3>1. "price" \in DOMAIN new \cap Opened  BY <1>7, <1>8, OpenedIs
    <3>2. \E g \in DOMAIN new["price"] : <<"price", g>> \in FieldsFor[a] /\ new["price"][g] = args[a]
      BY <1>13, <2>2, FieldsForArticles
    <3> QED BY <3>1, <3>2 DEF Holds
  <2>3. a \in DOMAIN ArticleFields \/ a \in {"tax_rate", "leading_price"}
    BY <1>2, <1>9, FieldsForArticles
  <2> QED BY <2>1, <2>2, <2>3
<1>17. ComesToHold(base, new, args)
  BY <1>2, <1>13 DEF ComesToHold, Given, Finalizes, Field
<1>16. ChangesOnlyGiven(base, new, args)  BY <1>12, <1>14, <1>15, <1>17, OnlyGiven
<1> QED BY <1>16 DEF new, body
------------------------------------------------------------------------------
\* What an update makes of the record it rests on.
LEMMA ReplacementOnlyGiven ==
  ASSUME NEW a, IsAsk(a), a.does = "update", ~RefusedAtOnce(a), NEW base, Valid(a.kind, base),
         a.kind = "contact" => ~UpdateContactRefuses(base, a.args)
  PROVE  ChangesOnlyGiven(base, Stored(a.kind, Replacement(a.kind, base, a.args), base), a.args)
<1> DEFINE args == a.args
<1>1. /\ a.kind \in {"contact", "voucher", "article"} /\ DOMAIN args \subseteq UpdateTakes[a.kind]
      /\ Field(args, "use_collective_contact", TRUE) \in BOOLEAN
      /\ Field(args, "leading_price", "NET") \in {"NET", "GROSS"}
  BY DEF IsAsk, UpdateTakes
<1>2. CASE a.kind = "contact"
  <2>1. ChangesOnlyGiven(base, Stored("contact", ContactBody(base, args), base), args)
    BY <1>1, <1>2, ContactOnlyGiven
  <2> QED BY <1>2, <2>1 DEF Replacement, UpdateContact
<1>3. CASE a.kind = "voucher"
  <2>1. ~UpdateVoucherRefuses(args)  BY <1>3 DEF RefusedAtOnce
  <2>2. Given(args, "use_collective_contact") => args["use_collective_contact"] \in BOOLEAN
    BY <1>1 DEF Field, Given
  <2>3. ChangesOnlyGiven(base, Stored("voucher", VoucherBody(base, args), base), args)
    BY <1>1, <1>3, <2>1, <2>2, VoucherOnlyGiven
  <2> QED BY <1>3, <2>3 DEF Replacement, UpdateVoucher
<1>4. CASE a.kind = "article"
  <2>1. ChangesOnlyGiven(base, Stored("article", ArticleBody(base, args), base), args)
    BY <1>1, <1>4, ArticleOnlyGiven
  <2> QED BY <1>4, <2>1 DEF Replacement, UpdateArticle
<1> QED BY <1>1, <1>2, <1>3, <1>4

(* Of a record that is replaced as a whole, an update changes the fields its    *)
(* arguments name and what the code derives from them, sets what it was given - *)
(* the one address or number under the category in use, the roles, the price on *)
(* the side that leads and the booked status too -, and leaves every other      *)
(* field as it was (contact_body, voucher_body and article_body laid over the   *)
(* base), but for the fields of a price that _PRICE_KEYS does not name, which   *)
(* no update of an article sends back.                                          *)
THEOREM LandsOnlyWhatWasGiven == Spec => OnlyWhatWasGiven
<1> DEFINE only == \A c \in Calls : UpdateLands(c) => ChangesWhatWasGiven(c)
<1>1. WriteInv /\ [Next]_vars => only
  <2> SUFFICES ASSUME WriteInv, [Next]_vars, NEW c \in Calls, UpdateLands(c)
               PROVE  ChangesWhatWasGiven(c)
    OBVIOUS
  <2> DEFINE x == call[c]
             id == x.ask.id
             a == x.ask
             base == x.base
             body == x.body
  <2>1. /\ Lands(c) /\ Current(c) /\ Made(x) /\ ~RefusedAtOnce(a) /\ RestsOn(books, x)
        /\ a \in Asks[c] /\ Doc(c) = base /\ a.does = "update"
    BY WriteToolsAssumption, UpdateLandsOverBase DEF UpdateLands
  <2>2. IsAsk(a)  BY <2>1, AsksAreAsks, WriteToolsAssumption
  <2>3. /\ body = Replacement(a.kind, base, a.args) /\ Valid(a.kind, base)
        /\ a.kind = "contact" => ~UpdateContactRefuses(base, a.args)
    BY <2>1 DEF Made, RestsOn
  <2>4. books[id].doc = base /\ id \in DOMAIN books
    BY <2>1 DEF Doc, Current, Found, Lives
  <2>5. books' = [books EXCEPT ![id].doc = Stored(a.kind, body, books[id].doc)]
    BY <2>1 DEF Lands, After
  <2>6. DOMAIN books[id] = {"kind", "doc"}  BY <2>4 DEF WriteInv, BooksStand, IsRecord
  <2>7. books'[id].doc = Stored(a.kind, body, base)
    <3> HIDE DEF id, a, base, body
    <3> QED BY <2>4, <2>5, <2>6
  <2>8. ChangesOnlyGiven(base, Stored(a.kind, Replacement(a.kind, base, a.args), base), a.args)
    <3> HIDE DEF a, base
    <3> QED BY <2>1, <2>2, <2>3, ReplacementOnlyGiven
  <2>9. ChangesOnlyGiven(base, books'[id].doc, a.args)
    <3> HIDE DEF a, base, body, id
    <3> QED BY <2>3, <2>7, <2>8
  <2> QED BY <2>1, <2>9 DEF ChangesWhatWasGiven
<1> QED BY <1>1, AlwaysWriteInv, PTL DEF Spec, OnlyWhatWasGiven
==============================================================================
