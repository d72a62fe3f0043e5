---------------------------- MODULE Landing_proofs ----------------------------
(***************************************************************************)
(* Proofs about Landing for any records, versions and block lists: what is *)
(* redacted cannot be read and the rest is kept, an article is chunked     *)
(* whole, and a job keeps the corpus current and every document free of    *)
(* the names it was redacted for.                                          *)
(***************************************************************************)
EXTENDS Landing, FiniteSetTheorems, SequenceTheorems, TLAPS

-------------------------------------------------------------------------------
(* The image of a finite set is finite.                                    *)
LEMMA ImageIsFinite ==
    ASSUME NEW S, IsFiniteSet(S), NEW f
    PROVE  IsFiniteSet({f[x] : x \in S})
<1>. DEFINE g == [x \in S |-> f[x]]
<1>1. g \in Surjection(S, {f[x] : x \in S})
    BY DEF Surjection
<1>. QED BY <1>1, FS_Surjection

-------------------------------------------------------------------------------
(* Sets of positions have a least and a greatest member.                   *)
LEMMA LeastNumber ==
    ASSUME NEW S, S \subseteq Nat, S # {}
    PROVE  \E m \in S : \A x \in S : m <= x
<1>. DEFINE less == StrictSubsetOrdering(Nat)
            upTo == {1..x : x \in S}
<1>1. upTo \subseteq FiniteSubsetsOf(Nat)
    <2>. SUFFICES ASSUME NEW x \in S PROVE IsFiniteSet(1..x) /\ 1..x \subseteq Nat
        BY DEF FiniteSubsetsOf
    <2>. QED BY FS_Interval
<1>2. upTo # {}
    OBVIOUS
<1>3. IsWellFoundedOn(less, FiniteSubsetsOf(Nat))
    BY FS_StrictSubsetOrderingWellFounded
<1>4. \A x, y \in S : y < x => <<1..y, 1..x>> \in less
    <2>. SUFFICES ASSUME NEW x \in S, NEW y \in S, y < x PROVE <<1..y, 1..x>> \in less
        OBVIOUS
    <2>1. 1..y \subseteq 1..x /\ x \in 1..x /\ x \notin 1..y
        OBVIOUS
    <2>2. 1..x \in SUBSET Nat /\ 1..y \in SUBSET Nat
        OBVIOUS
    <2>. QED BY <2>1, <2>2 DEF StrictSubsetOrdering
<1>. HIDE DEF less
<1>5. PICK A \in upTo : \A B \in upTo : ~ (<<B, A>> \in less)
    <2>. HIDE DEF upTo
    <2>. QED BY <1>1, <1>2, <1>3, WFMin
<1>6. PICK m \in S : A = 1..m
    OBVIOUS
<1>7. ASSUME NEW x \in S PROVE m <= x
    <2>1. ~ (<<1..x, 1..m>> \in less)
        BY <1>5, <1>6
    <2>. QED BY <1>4, <2>1
<1>. QED BY <1>7

LEMMA LeastMember ==
    ASSUME NEW n \in Nat, NEW S, S \subseteq 1..n, S # {}
    PROVE  Min(S) \in S /\ \A x \in S : Min(S) <= x
<1>1. S \subseteq Nat
    OBVIOUS
<1>2. \E m \in S : \A x \in S : m <= x
    BY <1>1, LeastNumber
<1>. QED BY <1>2 DEF Min

LEMMA GreatestMember ==
    ASSUME NEW n \in Nat, NEW S, S \subseteq 1..n, S # {}
    PROVE  Max(S) \in S /\ \A x \in S : x <= Max(S)
<1>. DEFINE below == [x \in S |-> n - x]
            T == {below[x] : x \in S}
<1>1. T # {}
    OBVIOUS
<1>2. T \subseteq Nat
    <2>. SUFFICES ASSUME NEW x \in S PROVE n - x \in Nat
        OBVIOUS
    <2>1. x \in 1..n
        OBVIOUS
    <2>. QED BY <2>1
<1>3. PICK m \in T : \A y \in T : m <= y
    BY <1>1, <1>2, LeastNumber
<1>4. PICK x \in S : m = below[x]
    BY DEF T
<1>5. ASSUME NEW z \in S PROVE x >= z
    <2>1. below[z] \in T
        BY DEF T
    <2>2. n - x <= n - z
        BY <1>3, <1>4, <2>1
    <2>. QED BY <2>2
<1>6. \E a \in S : \A z \in S : a >= z
    BY <1>5
<1>7. Max(S) \in S /\ \A z \in S : Max(S) >= z
    BY <1>6 DEF Max
<1>. QED BY <1>7

-------------------------------------------------------------------------------
(* Induction and recursion, said of sets and functions so that the provers *)
(* can instantiate them.                                                   *)
LEMMA SetInduction ==
    ASSUME NEW S, 0 \in S, \A k \in Nat : k \in S => k + 1 \in S
    PROVE  Nat \subseteq S
<1>. DEFINE rest == Nat \ S
<1>1. SUFFICES ASSUME rest # {} PROVE FALSE
    OBVIOUS
<1>2. PICK m \in rest : \A x \in rest : m <= x
    BY <1>1, LeastNumber
<1>3. m \in Nat /\ m # 0
    OBVIOUS
<1>4. m - 1 \in Nat /\ m - 1 \notin rest
    BY <1>2, <1>3
<1>. QED BY <1>3, <1>4

(* What a fold over positions, the last of them first, is defined by.      *)
Folds(iter, n, base, step) ==
    /\ iter[{}] = base
    /\ \A s \in SUBSET (1..n) : s # {} => iter[s] = step[<<Max(s), iter[s \ {Max(s)}]>>]

LEMMA FoldExists ==
    ASSUME NEW X, NEW base \in X, NEW n \in Nat, NEW step \in [(1..n) \X X -> X]
    PROVE  \E iter \in [SUBSET (1..n) -> X] : Folds(iter, n, base, step)
<1>. DEFINE Defined(m) == \E iter \in [SUBSET (1..m) -> X] : Folds(iter, m, base, step)
            S == {m \in Nat : m <= n => Defined(m)}
<1>1. Defined(0)
    <2>. DEFINE iter == [s \in SUBSET (1..0) |-> base]
    <2>1. 1..0 = {}
        OBVIOUS
    <2>2. iter \in [SUBSET (1..0) -> X] /\ Folds(iter, 0, base, step)
        BY <2>1 DEF Folds
    <2>. QED BY <2>2
<1>2. ASSUME NEW m \in Nat, Defined(m), m + 1 <= n PROVE Defined(m + 1)
    <2>1. PICK old \in [SUBSET (1..m) -> X] : Folds(old, m, base, step)
        BY <1>2
    <2>. DEFINE next(s) == step[<<m + 1, old[s \ {m + 1}]>>]
                iter == [s \in SUBSET (1..(m + 1)) |-> IF m + 1 \in s THEN next(s) ELSE old[s]]
    <2>2. ASSUME NEW s \in SUBSET (1..(m + 1))
          PROVE  /\ s \ {m + 1} \in SUBSET (1..m)
                 /\ m + 1 \notin s => s \in SUBSET (1..m)
        <3>1. \A x \in 1..(m + 1) : x # m + 1 => x \in 1..m
            OBVIOUS
        <3>. QED BY <3>1
    <2>3. ASSUME NEW s \in SUBSET (1..(m + 1)), m + 1 \in s PROVE Max(s) = m + 1
        <3>0. m + 1 \in Nat /\ s # {} /\ s \subseteq 1..(m + 1)
            BY <2>3
        <3>1. Max(s) \in s /\ \A x \in s : x <= Max(s)
            BY <3>0, GreatestMember
        <3>2. Max(s) \in 1..(m + 1) /\ m + 1 <= Max(s)
            BY <2>3, <3>1
        <3>. QED BY <3>2
    <2>4. iter \in [SUBSET (1..(m + 1)) -> X]
        <3>. SUFFICES ASSUME NEW s \in SUBSET (1..(m + 1)) PROVE iter[s] \in X
            OBVIOUS
        <3>1. CASE m + 1 \in s
            <4>1. old[s \ {m + 1}] \in X
                BY <2>2
            <4>2. m + 1 \in 1..n
                BY <1>2
            <4>3. <<m + 1, old[s \ {m + 1}]>> \in (1..n) \X X
                BY <4>1, <4>2
            <4>. QED BY <3>1, <4>3
        <3>2. CASE m + 1 \notin s
            BY <2>2, <3>2
        <3>. QED BY <3>1, <3>2
    <2>5. \A s \in SUBSET (1..m) : s \in SUBSET (1..(m + 1)) /\ m + 1 \notin s /\ iter[s] = old[s]
        <3>1. 1..m \subseteq 1..(m + 1) /\ m + 1 \notin 1..m
            OBVIOUS
        <3>. QED BY <3>1
    <2>6. iter[{}] = base
        BY <2>1, <2>5 DEF Folds
    <2>7. ASSUME NEW s \in SUBSET (1..(m + 1)), s # {}
          PROVE  iter[s] = step[<<Max(s), iter[s \ {Max(s)}]>>]
        <3>1. CASE m + 1 \in s
            <4>1. s \ {m + 1} \in SUBSET (1..m)
                BY <2>2
            <4>2. iter[s \ {m + 1}] = old[s \ {m + 1}]
                BY <2>5, <4>1
            <4>. QED BY <2>3, <3>1, <4>2
        <3>2. CASE m + 1 \notin s
            <4>1. s \in SUBSET (1..m) /\ s \ {Max(s)} \in SUBSET (1..m)
                BY <2>2, <3>2
            <4>2. old[s] = step[<<Max(s), old[s \ {Max(s)}]>>]
                BY <2>1, <2>7, <4>1 DEF Folds
            <4>. QED BY <2>5, <4>1, <4>2
        <3>. QED BY <3>1, <3>2
    <2>. HIDE DEF iter
    <2>. QED BY <2>4, <2>6, <2>7 DEF Folds
<1>3. Nat \subseteq S
    <2>. HIDE DEF Defined
    <2>1. 0 \in S
        BY <1>1
    <2>2. ASSUME NEW m \in Nat, m \in S PROVE m + 1 \in S
        <3>1. m + 1 <= n => m <= n
            OBVIOUS
        <3>. QED BY <1>2, <2>2, <3>1
    <2>. HIDE DEF S
    <2>. QED BY <2>1, <2>2, SetInduction
<1>4. Defined(n)
    <2>. HIDE DEF Defined
    <2>1. n \in S /\ n <= n
        BY <1>3
    <2>. QED BY <2>1
<1>. QED BY <1>4

(* A fold goes through the positions from the first to the last.           *)
StepOn(step, n, X) == step \in [(1..n) \X X -> X]

Climbs(iter, X, n, base, step) ==
    /\ iter[{}] = base
    /\ \A k \in 1..n : iter[(1..k) \ {k}] \in X =>
          iter[1..k] = step[<<k, iter[(1..k) \ {k}]>>]

Walks(h, X, n, base, step) ==
    /\ h \in [0..n -> X] /\ h[0] = base
    /\ \A k \in 1..n : h[k] = step[<<k, h[k - 1]>>]

LEMMA FoldWalks ==
    ASSUME NEW X, NEW base \in X, NEW n \in Nat, NEW step, StepOn(step, n, X),
           NEW iter, Climbs(iter, X, n, base, step)
    PROVE  \E h : Walks(h, X, n, base, step) /\ h[n] = iter[1..n]
<1>. USE DEF Climbs, Walks, StepOn
<1>. DEFINE h == [k \in 0..n |-> iter[1..k]]
            S == {k \in Nat : k <= n => h[k] \in X}
<1>1. h[0] = base
    <2>1. 1..0 = {}
        OBVIOUS
    <2>. QED BY <2>1
<1>2. ASSUME NEW k \in 1..n, h[k - 1] \in X PROVE h[k] = step[<<k, h[k - 1]>>] /\ h[k] \in X
    <2>1. (1..k) \ {k} = 1..(k - 1)
        OBVIOUS
    <2>2. k - 1 \in 0..n /\ k \in 0..n
        OBVIOUS
    <2>3. h[k - 1] = iter[(1..k) \ {k}] /\ h[k] = iter[1..k]
        BY <2>1, <2>2
    <2>. HIDE DEF h
    <2>4. h[k] = step[<<k, h[k - 1]>>]
        BY <1>2, <2>3
    <2>5. <<k, h[k - 1]>> \in (1..n) \X X
        BY <1>2
    <2>. QED BY <2>4, <2>5
<1>. HIDE DEF h
<1>3. Nat \subseteq S
    <2>1. 0 \in S
        BY <1>1
    <2>2. ASSUME NEW k \in Nat, k \in S PROVE k + 1 \in S
        <3>. SUFFICES ASSUME k + 1 <= n PROVE h[k + 1] \in X
            OBVIOUS
        <3>1. h[k] \in X /\ k + 1 \in 1..n /\ (k + 1) - 1 = k
            BY <2>2
        <3>. QED BY <1>2, <3>1
    <2>. HIDE DEF S
    <2>. QED BY <2>1, <2>2, SetInduction
<1>4. \A k \in 0..n : h[k] \in X
    BY <1>3
<1>5. h \in [0..n -> X] /\ h[n] = iter[1..n]
    BY <1>4 DEF h
<1>6. \A k \in 1..n : h[k] = step[<<k, h[k - 1]>>]
    BY <1>2, <1>4
<1>. QED BY <1>1, <1>5, <1>6

LEMMA UpToItself ==
    ASSUME NEW n \in Nat, NEW k \in 1..n
    PROVE  1..k \in SUBSET (1..n) /\ 1..k # {} /\ Max(1..k) = k
<1>1. k \in Nat /\ k \in 1..k /\ \A x \in 1..k : x \in 1..n
    OBVIOUS
<1>2. Max(1..k) \in 1..k /\ \A x \in 1..k : x <= Max(1..k)
    BY <1>1, GreatestMember
<1>. QED BY <1>1, <1>2

-------------------------------------------------------------------------------
(* The size of a term adds up word by word, so that a longer term that     *)
(* begins the same has the greater size.                                   *)
Known == DOMAIN Letters

LEMMA SizeAdds ==
    ASSUME NEW term \in Seq(Known)
    PROVE  \E h \in [0..Len(term) -> Nat] :
              /\ h[0] = 0
              /\ \A k \in 1..Len(term) : h[k] = h[k - 1] + Letters[term[k]] + 1
              /\ Size(term) = h[Len(term)] - 1
<1>. DEFINE n == Len(term)
            step == [p \in (1..n) \X Nat |-> p[2] + Letters[term[p[1]]] + 1]
            fold == CHOOSE iter : iter = [s \in SUBSET DOMAIN term |->
                        IF s = {} THEN 0 ELSE iter[s \ {Max(s)}] + Letters[term[Max(s)]] + 1]
<1>1. Size(term) = fold[DOMAIN term] - 1
    BY DEF Size, FoldLeft, MapThenFoldSet
<1>2. n \in Nat /\ DOMAIN term = 1..n /\ \A k \in 1..n : Letters[term[k]] \in Nat
    BY LandingAssumption DEF Known
<1>. HIDE DEF n
<1>3. step \in [(1..n) \X Nat -> Nat]
    <2>. SUFFICES ASSUME NEW p \in (1..n) \X Nat PROVE p[2] + Letters[term[p[1]]] + 1 \in Nat
        OBVIOUS
    <2>1. p[2] \in Nat /\ Letters[term[p[1]]] \in Nat
        BY <1>2
    <2>. QED BY <2>1
<1>4. PICK iter \in [SUBSET (1..n) -> Nat] : Folds(iter, n, 0, step)
    BY <1>2, <1>3, FoldExists
<1>5. ASSUME NEW s \in SUBSET (1..n), s # {}
      PROVE  Max(s) \in s /\ s \ {Max(s)} \in SUBSET (1..n)
    BY <1>2, <1>5, GreatestMember
<1>6. ASSUME NEW s \in SUBSET (1..n), s # {}
      PROVE  iter[s] = iter[s \ {Max(s)}] + Letters[term[Max(s)]] + 1
    <2>1. <<Max(s), iter[s \ {Max(s)}]>> \in (1..n) \X Nat
        BY <1>5, <1>6
    <2>. QED BY <1>4, <1>6, <2>1 DEF Folds
<1>7. iter = [s \in SUBSET DOMAIN term |->
                 IF s = {} THEN 0 ELSE iter[s \ {Max(s)}] + Letters[term[Max(s)]] + 1]
    BY <1>2, <1>4, <1>6 DEF Folds
<1>8. fold = [s \in SUBSET DOMAIN term |->
                 IF s = {} THEN 0 ELSE fold[s \ {Max(s)}] + Letters[term[Max(s)]] + 1]
    BY <1>7
<1>. HIDE DEF fold
<1>9. fold[{}] = 0
    BY <1>8
<1>10. ASSUME NEW k \in 1..n, fold[(1..k) \ {k}] \in Nat
       PROVE  fold[1..k] = step[<<k, fold[(1..k) \ {k}]>>]
    <2>1. 1..k \in SUBSET (1..n) /\ 1..k # {} /\ Max(1..k) = k
        BY <1>2, UpToItself
    <2>3. fold[1..k] = fold[(1..k) \ {k}] + Letters[term[k]] + 1
        BY <1>2, <1>8, <2>1
    <2>. QED BY <1>10, <2>3
<1>. HIDE DEF step
<1>11. Climbs(fold, Nat, n, 0, step) /\ StepOn(step, n, Nat)
    BY <1>3, <1>9, <1>10 DEF Climbs, StepOn
<1>12. PICK h : Walks(h, Nat, n, 0, step) /\ h[n] = fold[1..n]
    <2>. DEFINE X == Nat
                zero == 0
    <2>1. zero \in X /\ n \in Nat /\ Climbs(fold, X, n, zero, step) /\ StepOn(step, n, X)
        BY <1>2, <1>11
    <2>. HIDE DEF X, zero
    <2>2. \E h : Walks(h, X, n, zero, step) /\ h[n] = fold[1..n]
        BY <2>1, FoldWalks
    <2>. QED BY <2>2 DEF X, zero
<1>13. \A k \in 1..n : h[k] = h[k - 1] + Letters[term[k]] + 1
    <2>. SUFFICES ASSUME NEW k \in 1..n PROVE h[k] = h[k - 1] + Letters[term[k]] + 1
        OBVIOUS
    <2>1. k - 1 \in 0..n /\ h[k - 1] \in Nat
        BY <1>2, <1>12 DEF Walks
    <2>. QED BY <1>12, <2>1 DEF step, Walks
<1>14. Size(term) = h[n] - 1
    BY <1>1, <1>2, <1>12
<1>. QED BY <1>12, <1>13, <1>14 DEF n, Walks

LEMMA LongerIsGreater ==
    ASSUME NEW term \in Seq(Known), NEW m \in 0..(Len(term) - 1)
    PROVE  /\ Size(term) \in Int /\ Size(SubSeq(term, 1, m)) \in Int
           /\ Size(SubSeq(term, 1, m)) < Size(term)
<1>. DEFINE n == Len(term)
            part == SubSeq(term, 1, m)
<1>1. n \in Nat /\ m \in Nat /\ m < n /\ part \in Seq(Known) /\ Len(part) = m
      /\ (\A k \in 1..m : part[k] = term[k]) /\ \A k \in 1..n : Letters[term[k]] \in Nat
    BY LandingAssumption DEF Known
<1>2. PICK h \in [0..n -> Nat] : /\ h[0] = 0
                                 /\ \A k \in 1..n : h[k] = h[k - 1] + Letters[term[k]] + 1
                                 /\ Size(term) = h[n] - 1
    BY SizeAdds
<1>3. PICK g \in [0..m -> Nat] : /\ g[0] = 0
                                 /\ \A k \in 1..m : g[k] = g[k - 1] + Letters[part[k]] + 1
                                 /\ Size(part) = g[m] - 1
    BY <1>1, SizeAdds
<1>. HIDE DEF n, part
<1>4. g[m] = h[m]
    <2>. DEFINE T == {k \in Nat : k <= m => g[k] = h[k]}
    <2>1. 0 \in T
        BY <1>2, <1>3
    <2>2. ASSUME NEW k \in Nat, k \in T PROVE k + 1 \in T
        <3>. SUFFICES ASSUME k + 1 <= m PROVE g[k + 1] = h[k + 1]
            OBVIOUS
        <3>1. k + 1 \in 1..m /\ k + 1 \in 1..n /\ (k + 1) - 1 = k /\ k <= m
            BY <1>1
        <3>. QED BY <1>1, <1>2, <1>3, <2>2, <3>1
    <2>3. Nat \subseteq T
        <3>. HIDE DEF T
        <3>. QED BY <2>1, <2>2, SetInduction
    <2>. QED BY <1>1, <2>3
<1>5. h[m] < h[n]
    <2>. DEFINE T == {k \in Nat : m + k + 1 <= n => h[m] < h[m + k + 1]}
    <2>0. ASSUME NEW k \in 1..n PROVE h[k - 1] < h[k]
        <3>1. h[k - 1] \in Nat /\ Letters[term[k]] \in Nat
            BY <1>1
        <3>. QED BY <1>2, <3>1
    <2>1. 0 \in T
        <3>1. m + 1 \in 1..n /\ (m + 1) - 1 = m /\ m + 0 + 1 = m + 1
            BY <1>1
        <3>. QED BY <2>0, <3>1
    <2>2. ASSUME NEW k \in Nat, k \in T PROVE k + 1 \in T
        <3>. SUFFICES ASSUME m + (k + 1) + 1 <= n PROVE h[m] < h[m + (k + 1) + 1]
            OBVIOUS
        <3>. DEFINE j == m + (k + 1) + 1
        <3>1. j \in 1..n /\ j - 1 = m + k + 1 /\ j - 1 \in 0..n /\ j \in 0..n /\ m \in 0..n
              /\ m + k + 1 <= n
            BY <1>1
        <3>. HIDE DEF j
        <3>2. h[m] < h[j - 1] /\ h[j - 1] < h[j]
            BY <2>0, <2>2, <3>1
        <3>3. h[m] \in Nat /\ h[j - 1] \in Nat /\ h[j] \in Nat
            BY <3>1
        <3>. QED BY <3>2, <3>3 DEF j
    <2>3. Nat \subseteq T
        <3>. HIDE DEF T
        <3>. QED BY <2>1, <2>2, SetInduction
    <2>4. n - m - 1 \in Nat /\ m + (n - m - 1) + 1 = n
        BY <1>1
    <2>5. n - m - 1 \in T
        BY <2>3, <2>4
    <2>. QED BY <2>4, <2>5
<1>6. h[n] \in Nat /\ g[m] \in Nat /\ h[m] \in Nat
    BY <1>1
<1>. QED BY <1>2, <1>3, <1>4, <1>5, <1>6 DEF n, part

-------------------------------------------------------------------------------
(* What is kept of a sequence, place by place.                             *)
KeepsUpTo(h, seq, places, W) ==
    /\ h \in [0..Len(seq) -> Seq(W)] /\ h[0] = <<>>
    /\ \A k \in 1..Len(seq) :
          h[k] = IF k \in places THEN Append(h[k - 1], seq[k]) ELSE h[k - 1]

LEMMA KeptWalks ==
    ASSUME NEW W, NEW seq \in Seq(W), NEW places
    PROVE  \E h : KeepsUpTo(h, seq, places, W) /\ Kept(seq, places) = h[Len(seq)]
<1>. DEFINE n == Len(seq)
            at == [i \in DOMAIN seq |-> i]
            adds(kept, i) == IF i \in places THEN Append(kept, seq[i]) ELSE kept
            step == [p \in (1..n) \X Seq(W) |-> adds(p[2], p[1])]
            fold == CHOOSE iter : iter = [s \in SUBSET DOMAIN at |->
                        IF s = {} THEN <<>> ELSE adds(iter[s \ {Max(s)}], at[Max(s)])]
<1>1. Kept(seq, places) = fold[DOMAIN at]
    BY DEF Kept, FoldLeft, MapThenFoldSet
<1>2. n \in Nat /\ DOMAIN at = 1..n /\ \A k \in 1..n : at[k] = k /\ seq[k] \in W
    OBVIOUS
<1>. HIDE DEF n, at
<1>3. \A k \in 1..n : \A kept \in Seq(W) : adds(kept, k) \in Seq(W)
    BY <1>2
<1>. HIDE DEF adds
<1>4. step \in [(1..n) \X Seq(W) -> Seq(W)]
    BY <1>3
<1>5. PICK iter \in [SUBSET (1..n) -> Seq(W)] : Folds(iter, n, <<>>, step)
    <2>1. <<>> \in Seq(W)
        OBVIOUS
    <2>. HIDE DEF step
    <2>. QED BY <1>2, <1>4, <2>1, FoldExists
<1>6. ASSUME NEW s \in SUBSET (1..n), s # {}
      PROVE  Max(s) \in s /\ s \ {Max(s)} \in SUBSET (1..n)
    BY <1>2, <1>6, GreatestMember
<1>7. ASSUME NEW s \in SUBSET (1..n), s # {}
      PROVE  iter[s] = adds(iter[s \ {Max(s)}], at[Max(s)])
    <2>1. <<Max(s), iter[s \ {Max(s)}]>> \in (1..n) \X Seq(W)
        BY <1>6, <1>7
    <2>2. iter[s] = step[<<Max(s), iter[s \ {Max(s)}]>>]
        BY <1>5, <1>7 DEF Folds
    <2>3. at[Max(s)] = Max(s)
        BY <1>2, <1>6, <1>7
    <2>. QED BY <2>1, <2>2, <2>3
<1>8. iter = [s \in SUBSET DOMAIN at |->
                 IF s = {} THEN <<>> ELSE adds(iter[s \ {Max(s)}], at[Max(s)])]
    BY <1>2, <1>5, <1>7 DEF Folds
<1>9. fold = [s \in SUBSET DOMAIN at |->
                 IF s = {} THEN <<>> ELSE adds(fold[s \ {Max(s)}], at[Max(s)])]
    BY <1>8
<1>. HIDE DEF fold
<1>10. fold[{}] = <<>>
    BY <1>9
<1>11. ASSUME NEW k \in 1..n, fold[(1..k) \ {k}] \in Seq(W)
       PROVE  fold[1..k] = step[<<k, fold[(1..k) \ {k}]>>]
    <2>1. 1..k \in SUBSET (1..n) /\ 1..k # {} /\ Max(1..k) = k
        BY <1>2, UpToItself
    <2>2. fold[1..k] = adds(fold[(1..k) \ {k}], k)
        BY <1>2, <1>9, <2>1
    <2>. QED BY <1>11, <2>2
<1>12. Climbs(fold, Seq(W), n, <<>>, step) /\ StepOn(step, n, Seq(W))
    BY <1>4, <1>10, <1>11 DEF Climbs, StepOn
<1>. HIDE DEF step
<1>13. PICK h : Walks(h, Seq(W), n, <<>>, step) /\ h[n] = fold[1..n]
    <2>. DEFINE X == Seq(W)
                empty == <<>>
    <2>1. empty \in X /\ n \in Nat /\ Climbs(fold, X, n, empty, step) /\ StepOn(step, n, X)
        BY <1>2, <1>12
    <2>. HIDE DEF X, empty
    <2>2. \E h : Walks(h, X, n, empty, step) /\ h[n] = fold[1..n]
        BY <2>1, FoldWalks
    <2>. QED BY <2>2 DEF X, empty
<1>14. ASSUME NEW k \in 1..n PROVE h[k] = adds(h[k - 1], k)
    <2>1. k - 1 \in 0..n
        BY <1>2
    <2>2. h[k - 1] \in Seq(W) /\ h[k] = step[<<k, h[k - 1]>>]
        BY <1>13, <2>1 DEF Walks
    <2>. QED BY <2>2 DEF step
<1>15. KeepsUpTo(h, seq, places, W)
    BY <1>13, <1>14 DEF KeepsUpTo, Walks, n, adds
<1>. QED BY <1>1, <1>2, <1>13, <1>15 DEF n

(* The composed text of some parts, part by part.                          *)
ComposesUpTo(h, parts, W) ==
    /\ h \in [0..Len(Tail(parts)) -> Seq(W)] /\ h[0] = Head(parts)
    /\ \A k \in 1..Len(Tail(parts)) : h[k] = h[k - 1] \o <<Break>> \o Tail(parts)[k]

LEMMA ComposeWalks ==
    ASSUME NEW W, Break \in W, NEW parts \in Seq(Seq(W)), parts # <<>>
    PROVE  \E h : ComposesUpTo(h, parts, W) /\ Compose(parts) = <<h[Len(Tail(parts))]>>
<1>. DEFINE first == Head(parts)
            rest == Tail(parts)
            n == Len(rest)
            adds(text, part) == text \o <<Break>> \o part
            step == [p \in (1..n) \X Seq(W) |-> adds(p[2], rest[p[1]])]
            fold == CHOOSE iter : iter = [s \in SUBSET DOMAIN rest |->
                        IF s = {} THEN first ELSE adds(iter[s \ {Max(s)}], rest[Max(s)])]
<1>1. Compose(parts) = <<fold[DOMAIN rest]>>
    BY DEF Compose, FoldLeft, MapThenFoldSet
<1>2. n \in Nat /\ DOMAIN rest = 1..n /\ first \in Seq(W) /\ \A k \in 1..n : rest[k] \in Seq(W)
    OBVIOUS
<1>. HIDE DEF n, first, rest
<1>3. \A text, part \in Seq(W) : adds(text, part) \in Seq(W)
    OBVIOUS
<1>. HIDE DEF adds
<1>4. step \in [(1..n) \X Seq(W) -> Seq(W)]
    BY <1>2, <1>3
<1>5. PICK iter \in [SUBSET (1..n) -> Seq(W)] : Folds(iter, n, first, step)
    <2>. HIDE DEF step
    <2>. QED BY <1>2, <1>4, FoldExists
<1>6. ASSUME NEW s \in SUBSET (1..n), s # {}
      PROVE  Max(s) \in s /\ s \ {Max(s)} \in SUBSET (1..n)
    BY <1>2, <1>6, GreatestMember
<1>7. ASSUME NEW s \in SUBSET (1..n), s # {}
      PROVE  iter[s] = adds(iter[s \ {Max(s)}], rest[Max(s)])
    <2>1. <<Max(s), iter[s \ {Max(s)}]>> \in (1..n) \X Seq(W)
        BY <1>6, <1>7
    <2>2. iter[s] = step[<<Max(s), iter[s \ {Max(s)}]>>]
        BY <1>5, <1>7 DEF Folds
    <2>. QED BY <2>1, <2>2
<1>8. iter = [s \in SUBSET DOMAIN rest |->
                 IF s = {} THEN first ELSE adds(iter[s \ {Max(s)}], rest[Max(s)])]
    BY <1>2, <1>5, <1>7 DEF Folds
<1>9. fold = [s \in SUBSET DOMAIN rest |->
                 IF s = {} THEN first ELSE adds(fold[s \ {Max(s)}], rest[Max(s)])]
    BY <1>8
<1>. HIDE DEF fold
<1>10. fold[{}] = first
    BY <1>9
<1>11. ASSUME NEW k \in 1..n, fold[(1..k) \ {k}] \in Seq(W)
       PROVE  fold[1..k] = step[<<k, fold[(1..k) \ {k}]>>]
    <2>1. 1..k \in SUBSET (1..n) /\ 1..k # {} /\ Max(1..k) = k
        BY <1>2, UpToItself
    <2>2. fold[1..k] = adds(fold[(1..k) \ {k}], rest[k])
        BY <1>2, <1>9, <2>1
    <2>. QED BY <1>11, <2>2
<1>12. Climbs(fold, Seq(W), n, first, step) /\ StepOn(step, n, Seq(W))
    BY <1>4, <1>10, <1>11 DEF Climbs, StepOn
<1>. HIDE DEF step
<1>13. PICK h : Walks(h, Seq(W), n, first, step) /\ h[n] = fold[1..n]
    <2>. DEFINE X == Seq(W)
    <2>1. first \in X /\ n \in Nat /\ Climbs(fold, X, n, first, step) /\ StepOn(step, n, X)
        BY <1>2, <1>12
    <2>. HIDE DEF X
    <2>2. \E h : Walks(h, X, n, first, step) /\ h[n] = fold[1..n]
        BY <2>1, FoldWalks
    <2>. QED BY <2>2 DEF X
<1>14. ASSUME NEW k \in 1..n PROVE h[k] = adds(h[k - 1], rest[k])
    <2>1. k - 1 \in 0..n
        BY <1>2
    <2>2. h[k - 1] \in Seq(W) /\ h[k] = step[<<k, h[k - 1]>>]
        BY <1>13, <2>1 DEF Walks
    <2>. QED BY <2>2 DEF step
<1>15. ComposesUpTo(h, parts, W)
    BY <1>13, <1>14 DEF ComposesUpTo, Walks, n, adds, first, rest
<1>. QED BY <1>1, <1>2, <1>13, <1>15 DEF n, rest

-------------------------------------------------------------------------------
(* Of the terms that occur at a place the longest is taken.                *)
SoundTerms(terms) == \A t \in terms : t \in Seq(Known) /\ t # <<>> /\ Redacted \notin ToSet(t)

LEMMA SameSequence ==
    ASSUME NEW X, NEW Y, NEW s \in Seq(X), NEW t \in Seq(Y), Len(s) = Len(t),
           \A k \in 1..Len(s) : s[k] = t[k]
    PROVE  s = t
<1>1. s = [k \in 1..Len(s) |-> s[k]] /\ t = [k \in 1..Len(t) |-> t[k]]
    OBVIOUS
<1>. QED BY <1>1

LEMMA SubSeqHas ==
    ASSUME NEW X, NEW s \in Seq(X), NEW i \in 1..Len(s), NEW l \in Nat, i + l - 1 <= Len(s)
    PROVE  /\ SubSeq(s, i, i + l - 1) \in Seq(X) /\ Len(SubSeq(s, i, i + l - 1)) = l
           /\ \A k \in 1..l : SubSeq(s, i, i + l - 1)[k] = s[i + k - 1]
<1>. DEFINE m == i + l - 1
<1>1. i \in Nat /\ m \in Int /\ i <= m + 1 /\ m <= Len(s) /\ m - i + 1 = l /\ Len(s) \in Nat
    OBVIOUS
<1>2. \A j \in i..m : s[j] \in X
    BY <1>1
<1>3. SubSeq(s, i, m) = [k \in 1..l |-> s[i + k - 1]]
    BY <1>1 DEF m
<1>4. \A k \in 1..l : i + k - 1 \in i..m
    BY <1>1
<1>. HIDE DEF m
<1>5. [k \in 1..l |-> s[i + k - 1]] \in Seq(X) /\ Len([k \in 1..l |-> s[i + k - 1]]) = l
    BY <1>2, <1>4
<1>. QED BY <1>3, <1>5 DEF m

LEMMA LongestLeads ==
    ASSUME NEW W, NEW text \in Seq(W), NEW terms, SoundTerms(terms), NEW i \in 1..Len(text),
           {t \in terms : OccursAt(t, text, i)} # {}
    PROVE  LET here == {t \in terms : OccursAt(t, text, i)}
           IN  /\ Longest(here) \in here
               /\ \A u \in here : Len(u) <= Len(Longest(here))
               /\ Len(Longest(here)) \in 1..(Len(text) - i + 1)
<1>. DEFINE n == Len(text)
            here == {t \in terms : OccursAt(t, text, i)}
            lengths == {Len(t) : t \in here}
<1>1. n \in Nat
    OBVIOUS
<1>2. ASSUME NEW t \in here
      PROVE  /\ t \in Seq(Known) /\ Len(t) \in 1..(n - i + 1)
             /\ t = SubSeq(text, i, i + Len(t) - 1)
    <2>1. t \in Seq(Known) /\ t # <<>> /\ OccursAt(t, text, i)
        BY DEF SoundTerms
    <2>2. Len(t) \in Nat /\ Len(t) # 0
        BY <2>1, EmptySeq
    <2>3. i + Len(t) - 1 <= n /\ t = SubSeq(text, i, i + Len(t) - 1)
        BY <2>1 DEF OccursAt
    <2>. QED BY <1>1, <2>1, <2>2, <2>3
<1>3. PICK longest \in here : \A u \in here : Len(u) <= Len(longest)
    <2>0. \A t \in here : Len(t) \in 1..n
        <3>. SUFFICES ASSUME NEW t \in here PROVE Len(t) \in 1..n
            OBVIOUS
        <3>1. Len(t) \in 1..(n - i + 1)
            BY <1>2
        <3>. QED BY <1>1, <3>1
    <2>1. lengths \subseteq 1..n /\ lengths # {}
        <3>. HIDE DEF n
        <3>1. here # {}
            OBVIOUS
        <3>. HIDE DEF here
        <3>. QED BY <2>0, <3>1
    <2>2. Max(lengths) \in lengths /\ \A x \in lengths : x <= Max(lengths)
        BY <1>1, <2>1, GreatestMember
    <2>. QED BY <2>2
<1>4. ASSUME NEW t \in here, NEW u \in here, Len(t) < Len(u)
      PROVE  Size(t) \in Int /\ Size(u) \in Int /\ Size(t) < Size(u)
    <2>1. t = SubSeq(u, 1, Len(t))
        <3>. DEFINE part == SubSeq(u, 1, 1 + Len(t) - 1)
        <3>1. /\ Len(t) \in Nat /\ Len(u) \in Nat /\ 1 + Len(t) - 1 <= Len(u)
              /\ 1 \in 1..Len(u) /\ t \in Seq(Known) /\ u \in Seq(Known)
              /\ i + Len(t) - 1 <= n /\ i + Len(u) - 1 <= n /\ 1 + Len(t) - 1 = Len(t)
              /\ t = SubSeq(text, i, i + Len(t) - 1) /\ u = SubSeq(text, i, i + Len(u) - 1)
            BY <1>1, <1>2, <1>4
        <3>2. \A k \in 1..Len(t) : t[k] = text[i + k - 1]
            <4>. DEFINE l == Len(t)
            <4>1. l \in Nat /\ i + l - 1 <= Len(text)
                BY <3>1
            <4>. HIDE DEF l
            <4>2. \A k \in 1..l : SubSeq(text, i, i + l - 1)[k] = text[i + k - 1]
                BY <4>1, SubSeqHas
            <4>. QED BY <3>1, <4>2 DEF l
        <3>3. \A k \in 1..Len(u) : u[k] = text[i + k - 1]
            <4>. DEFINE l == Len(u)
            <4>1. l \in Nat /\ i + l - 1 <= Len(text)
                BY <3>1
            <4>. HIDE DEF l
            <4>2. \A k \in 1..l : SubSeq(text, i, i + l - 1)[k] = text[i + k - 1]
                BY <4>1, SubSeqHas
            <4>. QED BY <3>1, <4>2 DEF l
        <3>4. part \in Seq(Known) /\ Len(part) = Len(t)
              /\ \A k \in 1..Len(t) : part[k] = u[1 + k - 1]
            BY <3>1, SubSeqHas
        <3>. HIDE DEF part
        <3>5. \A k \in 1..Len(t) : 1 + k - 1 = k /\ k \in 1..Len(u)
            BY <3>1
        <3>6. \A k \in 1..Len(t) : t[k] = part[k]
            BY <3>2, <3>3, <3>4, <3>5
        <3>7. t = part
            BY <3>1, <3>4, <3>6, SameSequence
        <3>. QED BY <3>1, <3>7 DEF part
    <2>2. Len(t) \in 0..(Len(u) - 1) /\ u \in Seq(Known)
        BY <1>1, <1>2, <1>4
    <2>. QED BY <2>1, <2>2, LongerIsGreater
<1>5. \A t, u \in here : Len(t) = Len(u) => t = u
    BY <1>2
<1>. HIDE DEF here
<1>6. \A t \in here : Size(t) \in Int
    <2>. SUFFICES ASSUME NEW t \in here PROVE Size(t) \in Int
        OBVIOUS
    <2>1. t \in Seq(Known) /\ Len(t) \in Nat /\ Len(t) # 0
        BY <1>1, <1>2
    <2>2. 0 \in 0..(Len(t) - 1)
        BY <2>1
    <2>. QED BY <2>1, <2>2, LongerIsGreater
<1>7. \A t \in here : Len(t) \in Nat
    BY <1>1, <1>2
<1>8. \A u \in here : Size(u) <= Size(longest)
    <2>. SUFFICES ASSUME NEW u \in here PROVE Size(u) <= Size(longest)
        OBVIOUS
    <2>1. CASE Len(u) = Len(longest)
        BY <1>5, <1>6, <2>1
    <2>2. CASE Len(u) < Len(longest)
        BY <1>4, <2>2
    <2>. QED BY <1>3, <1>7, <2>1, <2>2
<1>9. Longest(here) \in here /\ \A u \in here : Size(u) <= Size(Longest(here))
    BY <1>8 DEF Longest
<1>10. Len(Longest(here)) = Len(longest)
    <2>1. CASE Len(Longest(here)) < Len(longest)
        <3>1. Size(Longest(here)) < Size(longest) /\ Size(longest) <= Size(Longest(here))
            BY <1>4, <1>9, <2>1
        <3>. QED BY <1>6, <1>9, <3>1
    <2>. QED BY <1>3, <1>7, <1>9, <2>1
<1>11. \A u \in here : Len(u) <= Len(Longest(here))
    BY <1>3, <1>10
<1>12. Len(Longest(here)) \in 1..(n - i + 1)
    BY <1>2, <1>9
<1>. QED BY <1>9, <1>11, <1>12 DEF here

-------------------------------------------------------------------------------
(* A text is redacted from a place on by what stands there and by the      *)
(* redaction of a later place.                                             *)
Reads(from, first, n, puts, goes, X) ==
    /\ from \in [first..(n + 1) -> Seq(X)] /\ from[n + 1] = <<>>
    /\ \A i \in first..n : from[i] = <<puts[i]>> \o from[goes[i]]

LEMMA ReadsFromTheEnd ==
    ASSUME NEW X, NEW n \in Nat, NEW puts \in [1..n -> X], NEW goes,
           \A i \in 1..n : goes[i] \in (i + 1)..(n + 1)
    PROVE  \E from : Reads(from, 1, n, puts, goes, X)
<1>. DEFINE Reached(first) == \E from : Reads(from, first, n, puts, goes, X)
            S == {m \in Nat : m <= n => Reached(n + 1 - m)}
<1>1. Reached(n + 1)
    <2>. DEFINE from == [i \in (n + 1)..(n + 1) |-> <<>>]
    <2>1. <<>> \in Seq(X) /\ (n + 1)..n = {} /\ n + 1 \in (n + 1)..(n + 1)
        OBVIOUS
    <2>2. Reads(from, n + 1, n, puts, goes, X)
        BY <2>1 DEF Reads
    <2>. QED BY <2>2
<1>2. ASSUME NEW i \in 1..n, Reached(i + 1) PROVE Reached(i)
    <2>1. PICK old : Reads(old, i + 1, n, puts, goes, X)
        BY <1>2
    <2>. DEFINE here == <<puts[i]>> \o old[goes[i]]
                from == [j \in i..(n + 1) |-> IF j = i THEN here ELSE old[j]]
    <2>2. goes[i] \in (i + 1)..(n + 1) /\ puts[i] \in X
        OBVIOUS
    <2>3. here \in Seq(X)
        <3>1. old[goes[i]] \in Seq(X) /\ <<puts[i]>> \in Seq(X)
            BY <2>1, <2>2 DEF Reads
        <3>. QED BY <3>1
    <2>4. i \in i..(n + 1) /\ \A j \in (i + 1)..(n + 1) : j \in i..(n + 1) /\ j # i
        OBVIOUS
    <2>5. \A j \in i..(n + 1) : j # i => j \in (i + 1)..(n + 1)
        OBVIOUS
    <2>. HIDE DEF here
    <2>6. from \in [i..(n + 1) -> Seq(X)]
        <3>1. \A j \in (i + 1)..(n + 1) : old[j] \in Seq(X)
            BY <2>1 DEF Reads
        <3>. QED BY <2>3, <2>5, <3>1
    <2>7. from[i] = here /\ \A j \in (i + 1)..(n + 1) : from[j] = old[j]
        BY <2>4
    <2>. HIDE DEF from
    <2>8. from[n + 1] = <<>>
        <3>1. n + 1 \in (i + 1)..(n + 1)
            OBVIOUS
        <3>. QED BY <2>1, <2>7, <3>1 DEF Reads
    <2>9. ASSUME NEW j \in i..n PROVE from[j] = <<puts[j]>> \o from[goes[j]]
        <3>1. CASE j = i
            BY <2>2, <2>7, <3>1 DEF here
        <3>2. CASE j # i
            <4>1. j \in (i + 1)..n /\ j \in (i + 1)..(n + 1) /\ j \in 1..n
                BY <3>2
            <4>2. goes[j] \in (i + 1)..(n + 1)
                <5>1. goes[j] \in (j + 1)..(n + 1)
                    BY <4>1
                <5>. QED BY <4>1, <5>1
            <4>3. old[j] = <<puts[j]>> \o old[goes[j]]
                BY <2>1, <4>1 DEF Reads
            <4>. QED BY <2>7, <4>1, <4>2, <4>3
        <3>. QED BY <3>1, <3>2
    <2>10. Reads(from, i, n, puts, goes, X)
        BY <2>6, <2>8, <2>9 DEF Reads
    <2>. QED BY <2>10
<1>. HIDE DEF Reached
<1>3. 0 \in S
    <2>1. n + 1 - 0 = n + 1
        OBVIOUS
    <2>. QED BY <1>1, <2>1
<1>4. ASSUME NEW m \in Nat, m \in S PROVE m + 1 \in S
    <2>. SUFFICES ASSUME m + 1 <= n PROVE Reached(n + 1 - (m + 1))
        OBVIOUS
    <2>. DEFINE i == n + 1 - (m + 1)
    <2>1. i \in 1..n /\ n + 1 - m = i + 1 /\ m <= n
        OBVIOUS
    <2>. HIDE DEF i
    <2>2. Reached(i + 1)
        BY <1>4, <2>1
    <2>3. Reached(i)
        BY <1>2, <2>1, <2>2
    <2>. QED BY <2>3 DEF i
<1>5. Nat \subseteq S
    <2>. HIDE DEF S
    <2>. QED BY <1>3, <1>4, SetInduction
<1>6. Reached(1)
    <2>1. n \in S /\ n <= n /\ n + 1 - n = 1
        BY <1>5
    <2>. QED BY <2>1
<1>. QED BY <1>6 DEF Reached

Here(terms, text, i) == {t \in terms : OccursAt(t, text, i)}

Puts(terms, text) ==
    [i \in 1..Len(text) |-> IF Here(terms, text, i) = {} THEN text[i] ELSE Redacted]

Goes(terms, text) ==
    [i \in 1..Len(text) |-> IF Here(terms, text, i) = {} THEN i + 1
                            ELSE i + Len(Longest(Here(terms, text, i)))]

LEMMA RedactReads ==
    ASSUME NEW W, NEW text \in Seq(W), NEW terms, SoundTerms(terms)
    PROVE  \E from : /\ Reads(from, 1, Len(text), Puts(terms, text), Goes(terms, text),
                              W \cup {Redacted})
                     /\ Redact(terms, text) = from[1]
<1>. DEFINE n == Len(text)
            X == W \cup {Redacted}
            puts == Puts(terms, text)
            goes == Goes(terms, text)
            Turn(f, i) == IF i > n THEN <<>>
                          ELSE IF Here(terms, text, i) = {} THEN <<text[i]>> \o f[i + 1]
                          ELSE <<Redacted>> \o f[i + Len(Longest(Here(terms, text, i)))]
            from == CHOOSE f : f = [i \in 1..(n + 1) |-> Turn(f, i)]
<1>1. Redact(terms, text) = from[1]
    BY DEF Redact, Here
<1>2. n \in Nat
    OBVIOUS
<1>3. puts \in [1..n -> X]
    <2>1. \A i \in 1..n : text[i] \in W
        OBVIOUS
    <2>. QED BY <2>1 DEF Puts
<1>4. ASSUME NEW i \in 1..n PROVE goes[i] \in (i + 1)..(n + 1)
    <2>1. CASE Here(terms, text, i) = {}
        BY <2>1 DEF Goes
    <2>2. CASE Here(terms, text, i) # {}
        <3>1. Len(Longest(Here(terms, text, i))) \in 1..(n - i + 1)
            BY <2>2, LongestLeads DEF Here
        <3>2. goes[i] = i + Len(Longest(Here(terms, text, i)))
            BY <2>2 DEF Goes
        <3>. QED BY <3>1, <3>2
    <2>. QED BY <2>1, <2>2
<1>. HIDE DEF n, puts, goes, X
<1>5. PICK f : Reads(f, 1, n, puts, goes, X)
    BY <1>2, <1>3, <1>4, ReadsFromTheEnd
<1>6. ASSUME NEW i \in 1..n, NEW g PROVE Turn(g, i) = <<puts[i]>> \o g[goes[i]]
    <2>1. ~ (i > n)
        BY <1>2
    <2>. QED BY <2>1 DEF puts, goes, Puts, Goes, n
<1>7. ASSUME NEW i \in 1..(n + 1), NEW g PROVE i \notin 1..n => i = n + 1 /\ Turn(g, i) = <<>>
    BY <1>2
<1>8. n + 1 \in 1..(n + 1) /\ n + 1 \notin 1..n /\ \A i \in 1..n : i \in 1..(n + 1)
    BY <1>2
<1>. HIDE DEF Turn
<1>9. f = [i \in 1..(n + 1) |-> Turn(f, i)]
    <2>1. f \in [1..(n + 1) -> Seq(X)]
        BY <1>5 DEF Reads
    <2>2. ASSUME NEW i \in 1..(n + 1) PROVE f[i] = Turn(f, i)
        <3>1. CASE i \in 1..n
            BY <1>5, <1>6, <3>1 DEF Reads
        <3>2. CASE i \notin 1..n
            BY <1>5, <1>7, <3>2 DEF Reads
        <3>. QED BY <3>1, <3>2
    <2>. QED BY <2>1, <2>2
<1>10. from = [i \in 1..(n + 1) |-> Turn(from, i)]
    BY <1>9
<1>11. ASSUME NEW g, g = [i \in 1..(n + 1) |-> Turn(g, i)] PROVE g = f
    <2>. DEFINE T == {m \in Nat : \A i \in 1..(n + 1) : i + m >= n + 1 => g[i] = f[i]}
    <2>1. g[n + 1] = <<>> /\ f[n + 1] = <<>>
        BY <1>7, <1>8, <1>9, <1>11
    <2>2. 0 \in T
        BY <1>2, <2>1
    <2>3. ASSUME NEW m \in Nat, m \in T PROVE m + 1 \in T
        <3>. SUFFICES ASSUME NEW i \in 1..(n + 1), i + (m + 1) >= n + 1 PROVE g[i] = f[i]
            OBVIOUS
        <3>1. CASE i = n + 1
            BY <2>1, <3>1
        <3>2. CASE i \in 1..n
            <4>1. goes[i] \in (i + 1)..(n + 1)
                BY <1>4, <3>2
            <4>2. goes[i] \in 1..(n + 1) /\ goes[i] + m >= n + 1
                BY <1>2, <3>2, <4>1
            <4>3. g[goes[i]] = f[goes[i]]
                BY <2>3, <4>2
            <4>4. g[i] = Turn(g, i) /\ f[i] = Turn(f, i)
                BY <1>9, <1>11
            <4>. QED BY <1>6, <3>2, <4>3, <4>4
        <3>. QED BY <1>2, <3>1, <3>2
    <2>4. Nat \subseteq T
        <3>. HIDE DEF T
        <3>. QED BY <2>2, <2>3, SetInduction
    <2>5. n + 1 \in T
        <3>1. n + 1 \in Nat
            BY <1>2
        <3>. HIDE DEF T
        <3>. QED BY <2>4, <3>1
    <2>6. \A i \in 1..(n + 1) : i + (n + 1) >= n + 1
        BY <1>2
    <2>7. \A i \in 1..(n + 1) : g[i] = f[i]
        BY <2>5, <2>6
    <2>. QED BY <1>9, <1>11, <2>7
<1>. HIDE DEF from
<1>12. from = f
    BY <1>10, <1>11
<1>. QED BY <1>1, <1>5, <1>12 DEF n, puts, goes, X

-------------------------------------------------------------------------------
(* An occurrence, word by word.                                            *)
LEMMA Occurrence ==
    ASSUME NEW X, NEW Y, NEW text \in Seq(X), NEW t \in Seq(Y), NEW i \in 1..Len(text)
    PROVE  OccursAt(t, text, i) <=>
              /\ i + Len(t) - 1 <= Len(text)
              /\ \A k \in 1..Len(t) : text[i + k - 1] = t[k]
<1>. DEFINE l == Len(t)
            part == SubSeq(text, i, i + l - 1)
<1>1. l \in Nat
    OBVIOUS
<1>2. OccursAt(t, text, i) <=> i + l - 1 <= Len(text) /\ part = t
    BY DEF OccursAt
<1>3. ASSUME i + l - 1 <= Len(text)
      PROVE  part \in Seq(X) /\ Len(part) = l /\ \A k \in 1..l : part[k] = text[i + k - 1]
    <2>. HIDE DEF l
    <2>. QED BY <1>1, <1>3, SubSeqHas
<1>. HIDE DEF part
<1>4. ASSUME i + l - 1 <= Len(text), \A k \in 1..l : text[i + k - 1] = t[k] PROVE part = t
    <2>1. \A k \in 1..l : part[k] = t[k]
        BY <1>3, <1>4
    <2>. QED BY <1>3, <1>4, <2>1, SameSequence
<1>5. ASSUME i + l - 1 <= Len(text), part = t PROVE \A k \in 1..l : text[i + k - 1] = t[k]
    BY <1>3, <1>5
<1>. QED BY <1>2, <1>4, <1>5 DEF l

LEMMA Lead ==
    ASSUME NEW X, NEW x \in X, NEW s \in Seq(X)
    PROVE  /\ <<x>> \o s \in Seq(X) /\ Len(<<x>> \o s) = Len(s) + 1
           /\ (<<x>> \o s)[1] = x
           /\ \A k \in 1..Len(s) : (<<x>> \o s)[k + 1] = s[k]
           /\ \A k \in 2..(Len(s) + 1) : (<<x>> \o s)[k] = s[k - 1]
<1>1. <<x>> \in Seq(X) /\ Len(<<x>>) = 1 /\ Len(s) \in Nat
    OBVIOUS
<1>2. <<x>> \o s \in Seq(X) /\ Len(<<x>> \o s) = Len(s) + 1 /\ (<<x>> \o s)[1] = x
    BY <1>1
<1>3. ASSUME NEW k \in 2..(Len(s) + 1) PROVE (<<x>> \o s)[k] = s[k - 1]
    BY <1>1
<1>4. ASSUME NEW k \in 1..Len(s) PROVE (<<x>> \o s)[k + 1] = s[k]
    <2>1. k + 1 \in 2..(Len(s) + 1) /\ (k + 1) - 1 = k
        BY <1>1
    <2>. QED BY <1>3, <2>1
<1>. QED BY <1>2, <1>3, <1>4

(* What a text has from its end on, it has from each place on.             *)
LEMMA BackInduction ==
    ASSUME NEW n \in Nat, NEW goes, \A i \in 1..n : goes[i] \in (i + 1)..(n + 1),
           NEW S, n + 1 \in S, \A i \in 1..n : goes[i] \in S => i \in S
    PROVE  1..(n + 1) \subseteq S
<1>. DEFINE T == {m \in Nat : \A i \in 1..(n + 1) : i + m >= n + 1 => i \in S}
<1>1. 0 \in T
    OBVIOUS
<1>2. ASSUME NEW m \in Nat, m \in T PROVE m + 1 \in T
    <2>. SUFFICES ASSUME NEW i \in 1..(n + 1), i + (m + 1) >= n + 1 PROVE i \in S
        OBVIOUS
    <2>1. CASE i = n + 1
        BY <2>1
    <2>2. CASE i \in 1..n
        <3>1. goes[i] \in (i + 1)..(n + 1)
            BY <2>2
        <3>2. goes[i] \in 1..(n + 1) /\ goes[i] + m >= n + 1
            BY <3>1
        <3>. QED BY <1>2, <2>2, <3>2
    <2>. QED BY <2>1, <2>2
<1>3. Nat \subseteq T
    <2>. HIDE DEF T
    <2>. QED BY <1>1, <1>2, SetInduction
<1>4. n \in T
    <2>. HIDE DEF T
    <2>. QED BY <1>3
<1>. QED BY <1>4

LEMMA GoesOn ==
    ASSUME NEW W, NEW text \in Seq(W), NEW terms, SoundTerms(terms)
    PROVE  \A i \in 1..Len(text) : Goes(terms, text)[i] \in (i + 1)..(Len(text) + 1)
<1>. SUFFICES ASSUME NEW i \in 1..Len(text)
              PROVE  Goes(terms, text)[i] \in (i + 1)..(Len(text) + 1)
    OBVIOUS
<1>1. CASE Here(terms, text, i) = {}
    BY <1>1 DEF Goes
<1>2. CASE Here(terms, text, i) # {}
    <2>1. Len(Longest(Here(terms, text, i))) \in 1..(Len(text) - i + 1)
        BY <1>2, LongestLeads DEF Here
    <2>2. Goes(terms, text)[i] = i + Len(Longest(Here(terms, text, i)))
        BY <1>2 DEF Goes
    <2>. QED BY <2>1, <2>2
<1>. QED BY <1>1, <1>2

(* No occurrence of the sequence t in the text s.                          *)
Free(t, s) == \A j \in DOMAIN s : ~ OccursAt(t, s, j)

(* From a place on, what is read before the first placeholder is the text. *)
Plainly(s, text, i) ==
    \A m \in 0..Len(s) : (\A k \in 1..m : s[k] # Redacted) =>
        i + m - 1 <= Len(text) /\ \A k \in 1..m : s[k] = text[i + k - 1]

LEMMA PlainlyRead ==
    ASSUME NEW W, NEW text \in Seq(W), NEW terms, SoundTerms(terms), NEW from,
           Reads(from, 1, Len(text), Puts(terms, text), Goes(terms, text), W \cup {Redacted})
    PROVE  \A i \in 1..(Len(text) + 1) : Plainly(from[i], text, i)
<1>. DEFINE n == Len(text)
            X == W \cup {Redacted}
            puts == Puts(terms, text)
            goes == Goes(terms, text)
            S == {i \in 1..(n + 1) : Plainly(from[i], text, i)}
<1>1. n \in Nat
    OBVIOUS
<1>2. \A i \in 1..n : goes[i] \in (i + 1)..(n + 1)
    BY GoesOn
<1>3. n + 1 \in S
    <2>1. from[n + 1] = <<>> /\ n + 1 \in 1..(n + 1)
        BY <1>1 DEF Reads
    <2>2. 0..Len(from[n + 1]) = {0} /\ 1..0 = {} /\ (n + 1) + 0 - 1 <= n
        BY <1>1, <2>1
    <2>. QED BY <2>1, <2>2 DEF Plainly
<1>4. ASSUME NEW i \in 1..n, goes[i] \in S PROVE i \in S
    <2>. DEFINE s == from[goes[i]]
    <2>1. i \in 1..(n + 1) /\ goes[i] \in 1..(n + 1)
        BY <1>1, <1>2
    <2>2. s \in Seq(X) /\ from[i] = <<puts[i]>> \o s
        BY <2>1 DEF Reads
    <2>3. puts[i] \in X
        BY DEF Puts
    <2>. HIDE DEF s, X
    <2>4. /\ Len(from[i]) = Len(s) + 1 /\ from[i][1] = puts[i]
          /\ \A k \in 2..(Len(s) + 1) : from[i][k] = s[k - 1]
        BY <2>2, <2>3, Lead
    <2>5. ASSUME NEW m \in 0..Len(from[i]), \A k \in 1..m : from[i][k] # Redacted
          PROVE  i + m - 1 <= n /\ \A k \in 1..m : from[i][k] = text[i + k - 1]
        <3>1. CASE m = 0
            BY <1>1, <3>1
        <3>2. CASE m # 0
            <4>0. Len(s) \in Nat
                BY <2>2
            <4>1. 1 \in 1..m /\ m - 1 \in 0..Len(s)
                BY <2>4, <3>2, <4>0
            <4>2. puts[i] # Redacted
                BY <2>4, <2>5, <4>1
            <4>3. Here(terms, text, i) = {}
                BY <4>2 DEF Puts
            <4>4. puts[i] = text[i] /\ goes[i] = i + 1
                BY <4>3 DEF Puts, Goes
            <4>5. ASSUME NEW k \in 1..(m - 1) PROVE s[k] # Redacted /\ from[i][k + 1] = s[k]
                <5>1. k + 1 \in 1..m /\ k + 1 \in 2..(Len(s) + 1) /\ (k + 1) - 1 = k
                    BY <2>4, <4>0, <4>1
                <5>. QED BY <2>4, <2>5, <5>1
            <4>6. Plainly(s, text, i + 1)
                BY <1>4, <4>4 DEF s
            <4>7. (i + 1) + (m - 1) - 1 <= n /\ \A k \in 1..(m - 1) : s[k] = text[(i + 1) + k - 1]
                BY <4>1, <4>5, <4>6 DEF Plainly
            <4>8. ASSUME NEW k \in 1..m PROVE from[i][k] = text[i + k - 1]
                <5>1. CASE k = 1
                    BY <2>4, <4>4, <5>1
                <5>2. CASE k # 1
                    <6>1. k - 1 \in 1..(m - 1) /\ (k - 1) + 1 = k /\ (i + 1) + (k - 1) - 1 = i + k - 1
                        BY <5>2
                    <6>. QED BY <4>5, <4>7, <6>1
                <5>. QED BY <5>1, <5>2
            <4>. QED BY <4>7, <4>8
        <3>. QED BY <3>1, <3>2
    <2>. QED BY <2>1, <2>5 DEF Plainly
<1>5. 1..(n + 1) \subseteq S
    <2>. HIDE DEF S, n, goes
    <2>. QED BY <1>1, <1>2, <1>3, <1>4, BackInduction
<1>. QED BY <1>5

(* Nothing that is to be redacted can be read in the redacted text, also   *)
(* not across what stood before and after a placeholder (privacy.py:69).   *)
THEOREM RedactHides ==
    ASSUME NEW W, NEW text \in Seq(W), NEW terms, SoundTerms(terms), NEW t \in terms
    PROVE  Redact(terms, text) \in Seq(W \cup {Redacted}) /\ Free(t, Redact(terms, text))
<1>. DEFINE n == Len(text)
            X == W \cup {Redacted}
            puts == Puts(terms, text)
            goes == Goes(terms, text)
<1>1. PICK from : Reads(from, 1, n, puts, goes, X) /\ Redact(terms, text) = from[1]
    BY RedactReads
<1>. DEFINE S == {i \in 1..(n + 1) : Free(t, from[i])}
<1>2. n \in Nat /\ \A i \in 1..n : goes[i] \in (i + 1)..(n + 1)
    BY GoesOn
<1>3. \A i \in 1..(n + 1) : Plainly(from[i], text, i)
    BY <1>1, PlainlyRead
<1>4. t \in Seq(Known) /\ Len(t) \in Nat /\ Len(t) # 0 /\ \A k \in 1..Len(t) : t[k] # Redacted
    <2>1. t \in Seq(Known) /\ t # <<>> /\ Redacted \notin ToSet(t)
        BY DEF SoundTerms
    <2>. QED BY <2>1, EmptySeq DEF ToSet
<1>5. \A i \in 1..(n + 1) : from[i] \in Seq(X)
    BY <1>1 DEF Reads
<1>6. n + 1 \in S
    <2>1. from[n + 1] = <<>> /\ n + 1 \in 1..(n + 1) /\ DOMAIN <<>> = {}
        BY <1>1, <1>2 DEF Reads
    <2>. QED BY <2>1 DEF Free
<1>7. ASSUME NEW i \in 1..n, goes[i] \in S PROVE i \in S
    <2>. DEFINE s == from[goes[i]]
                whole == from[i]
    <2>1. i \in 1..(n + 1) /\ goes[i] \in 1..(n + 1)
        BY <1>2
    <2>2. s \in Seq(X) /\ whole = <<puts[i]>> \o s /\ whole \in Seq(X)
        BY <1>1, <1>5, <2>1 DEF Reads
    <2>3. puts[i] \in X
        BY DEF Puts
    <2>8. Free(t, s) /\ Plainly(whole, text, i)
        BY <1>3, <1>7, <2>1
    <2>. HIDE DEF s, X, whole
    <2>4. /\ Len(whole) = Len(s) + 1 /\ whole[1] = puts[i] /\ Len(s) \in Nat
          /\ \A k \in 2..(Len(s) + 1) : whole[k] = s[k - 1]
        BY <2>2, <2>3, Lead
    <2>5. ASSUME NEW j \in 1..Len(whole), OccursAt(t, whole, j) PROVE FALSE
        <3>1. /\ j + Len(t) - 1 <= Len(whole)
              /\ \A k \in 1..Len(t) : whole[j + k - 1] = t[k]
            <4>1. OccursAt(t, whole, j) <=>
                    /\ j + Len(t) - 1 <= Len(whole)
                    /\ \A k \in 1..Len(t) : whole[j + k - 1] = t[k]
                <5>1. t \in Seq(Known) /\ whole \in Seq(X) /\ j \in 1..Len(whole)
                    BY <1>4, <2>2
                <5>. QED BY <5>1, Occurrence
            <4>. QED BY <2>5, <4>1
        <3>2. CASE j = 1
            <4>1. Len(t) \in 0..Len(whole) /\ \A k \in 1..Len(t) : j + k - 1 = k
                BY <1>4, <2>4, <3>1, <3>2
            <4>2. \A k \in 1..Len(t) : whole[k] = t[k]
                BY <3>1, <4>1
            <4>3. i + Len(t) - 1 <= n /\ \A k \in 1..Len(t) : whole[k] = text[i + k - 1]
                BY <1>4, <2>8, <4>1, <4>2 DEF Plainly
            <4>4. \A k \in 1..Len(t) : text[i + k - 1] = t[k]
                BY <4>2, <4>3
            <4>5. OccursAt(t, text, i)
                BY <1>4, <4>3, <4>4, Occurrence
            <4>6. puts[i] = Redacted
                BY <4>5 DEF Puts, Here
            <4>7. 1 \in 1..Len(t)
                BY <1>4
            <4>. QED BY <1>4, <2>4, <4>2, <4>6, <4>7
        <3>3. CASE j # 1
            <4>1. j - 1 \in 1..Len(s) /\ (j - 1) + Len(t) - 1 <= Len(s)
                BY <1>4, <2>4, <3>1, <3>3
            <4>2. ASSUME NEW k \in 1..Len(t) PROVE s[(j - 1) + k - 1] = t[k]
                <5>1. j + k - 1 \in 2..(Len(s) + 1) /\ (j + k - 1) - 1 = (j - 1) + k - 1
                    BY <1>4, <2>4, <4>1
                <5>. QED BY <2>4, <3>1, <5>1
            <4>3. OccursAt(t, s, j - 1)
                <5>. DEFINE p == j - 1
                <5>1. p \in 1..Len(s) /\ p + Len(t) - 1 <= Len(s)
                      /\ \A k \in 1..Len(t) : s[p + k - 1] = t[k]
                    BY <4>1, <4>2
                <5>. HIDE DEF p
                <5>2. OccursAt(t, s, p)
                    BY <1>4, <2>2, <5>1, Occurrence
                <5>. QED BY <5>2 DEF p
            <4>. QED BY <2>2, <2>8, <4>1, <4>3 DEF Free
        <3>. QED BY <3>2, <3>3
    <2>6. DOMAIN whole = 1..Len(whole)
        BY <2>2
    <2>. QED BY <2>1, <2>5, <2>6 DEF Free, whole
<1>8. 1..(n + 1) \subseteq S
    <2>. HIDE DEF S, n, goes
    <2>. QED BY <1>2, <1>6, <1>7, BackInduction
<1>9. 1 \in 1..(n + 1)
    BY <1>2
<1>. QED BY <1>1, <1>5, <1>8, <1>9

-------------------------------------------------------------------------------
(* What is kept of a sequence that has one more member at the front.       *)
KeptShift(x, kept) == IF x # Redacted THEN <<x>> \o kept ELSE kept

Shown(s) == Kept(s, {j \in DOMAIN s : s[j] # Redacted})

LEMMA ShiftAppends ==
    ASSUME NEW X, NEW x \in X, NEW s \in Seq(X), NEW y \in X
    PROVE  Append(KeptShift(x, s), y) = KeptShift(x, Append(s, y))
<1>1. CASE x = Redacted
    BY <1>1 DEF KeptShift
<1>2. CASE x # Redacted
    <2>1. <<x>> \in Seq(X) /\ <<y>> \in Seq(X)
        OBVIOUS
    <2>2. (<<x>> \o s) \o <<y>> = <<x>> \o (s \o <<y>>)
        BY <2>1, ConcatAssociative
    <2>3. <<x>> \o s \in Seq(X)
        BY <2>1, ConcatProperties
    <2>4. Append(<<x>> \o s, y) = (<<x>> \o s) \o <<y>> /\ Append(s, y) = s \o <<y>>
        BY <2>3, AppendIsConcat
    <2>. QED BY <1>2, <2>2, <2>4 DEF KeptShift
<1>. QED BY <1>1, <1>2

LEMMA ShownEmpty == Shown(<<>>) = <<>>
<1>. DEFINE nothing == <<>>
            places == {j \in DOMAIN nothing : nothing[j] # Redacted}
<1>1. nothing \in Seq({}) /\ Len(nothing) = 0
    OBVIOUS
<1>2. Kept(nothing, places) = <<>>
    <2>. HIDE DEF nothing, places
    <2>1. PICK h : KeepsUpTo(h, nothing, places, {}) /\ Kept(nothing, places) = h[Len(nothing)]
        BY <1>1, KeptWalks
    <2>. QED BY <1>1, <2>1 DEF KeepsUpTo
<1>. QED BY <1>2 DEF Shown

LEMMA ShownLead ==
    ASSUME NEW X, NEW x \in X, NEW s \in Seq(X)
    PROVE  Shown(s) \in Seq(X) /\ Shown(<<x>> \o s) = KeptShift(x, Shown(s))
<1>. DEFINE whole == <<x>> \o s
            n == Len(s)
            later == {j \in DOMAIN s : s[j] # Redacted}
            all == {j \in DOMAIN whole : whole[j] # Redacted}
<1>1. n \in Nat /\ DOMAIN s = 1..n /\ \A k \in 1..n : s[k] \in X
    OBVIOUS
<1>2. /\ whole \in Seq(X) /\ Len(whole) = n + 1 /\ whole[1] = x
      /\ \A k \in 1..n : whole[k + 1] = s[k]
    BY Lead
<1>3. DOMAIN whole = 1..(n + 1)
    BY <1>2
<1>. HIDE DEF whole, n
<1>4. PICK g : KeepsUpTo(g, s, later, X) /\ Kept(s, later) = g[Len(s)]
    <2>. HIDE DEF later
    <2>. QED BY KeptWalks
<1>5. PICK h : KeepsUpTo(h, whole, all, X) /\ Kept(whole, all) = h[Len(whole)]
    <2>. HIDE DEF all
    <2>. QED BY <1>2, KeptWalks
<1>6. /\ g \in [0..n -> Seq(X)] /\ g[0] = <<>>
      /\ \A k \in 1..n : g[k] = IF s[k] # Redacted THEN Append(g[k - 1], s[k]) ELSE g[k - 1]
    BY <1>1, <1>4 DEF KeepsUpTo, n
<1>7. /\ h[0] = <<>>
      /\ \A k \in 1..(n + 1) :
            h[k] = IF whole[k] # Redacted THEN Append(h[k - 1], whole[k]) ELSE h[k - 1]
    BY <1>2, <1>3, <1>5 DEF KeepsUpTo
<1>. DEFINE T == {k \in Nat : k <= n => h[k + 1] = KeptShift(x, g[k])}
<1>8. 0 \in T
    <2>1. 1 \in 1..(n + 1) /\ 1 - 1 = 0 /\ 0 + 1 = 1
        BY <1>1
    <2>2. h[1] = IF x # Redacted THEN Append(<<>>, x) ELSE <<>>
        BY <1>2, <1>7, <2>1
    <2>3. Append(<<>>, x) = <<x>> \o <<>>
        OBVIOUS
    <2>4. h[0 + 1] = KeptShift(x, g[0])
        BY <1>6, <2>1, <2>2, <2>3 DEF KeptShift
    <2>. QED BY <2>4
<1>9. ASSUME NEW k \in Nat, k \in T PROVE k + 1 \in T
    <2>. DEFINE m == k + 1
    <2>. SUFFICES ASSUME m <= n PROVE h[m + 1] = KeptShift(x, g[m])
        OBVIOUS
    <2>1. m \in 1..n /\ m + 1 \in 1..(n + 1) /\ m - 1 = k /\ (m + 1) - 1 = m /\ k \in 0..n
        BY <1>1
    <2>2. h[m] = KeptShift(x, g[k])
        BY <1>9, <2>1
    <2>. HIDE DEF m
    <2>3. whole[m + 1] = s[m] /\ s[m] \in X /\ g[k] \in Seq(X)
        BY <1>1, <1>2, <1>6, <2>1
    <2>4. h[m + 1] = IF s[m] # Redacted THEN Append(h[m], s[m]) ELSE h[m]
        BY <1>7, <2>1, <2>3
    <2>5. g[m] = IF s[m] # Redacted THEN Append(g[k], s[m]) ELSE g[k]
        BY <1>6, <2>1
    <2>6. Append(KeptShift(x, g[k]), s[m]) = KeptShift(x, Append(g[k], s[m]))
        BY <2>3, ShiftAppends
    <2>. QED BY <2>2, <2>4, <2>5, <2>6
<1>10. Nat \subseteq T
    <2>. HIDE DEF T
    <2>. QED BY <1>8, <1>9, SetInduction
<1>11. h[n + 1] = KeptShift(x, g[n])
    <2>1. n \in T
        <3>. HIDE DEF T
        <3>. QED BY <1>1, <1>10
    <2>. QED BY <1>1, <2>1
<1>12. Shown(s) = g[n] /\ Shown(whole) = h[n + 1] /\ n \in 0..n
    BY <1>1, <1>2, <1>4, <1>5 DEF Shown, n
<1>. QED BY <1>6, <1>11, <1>12 DEF whole

-------------------------------------------------------------------------------
(* The places of a text that some occurrence of a term covers.             *)
SpansOf(terms, text) ==
    UNION {{i..(i + Len(t) - 1) : i \in {i \in DOMAIN text : OccursAt(t, text, i)}} : t \in terms}

Apart(spans) == \A m, n \in spans : m \subseteq n \/ n \subseteq m \/ m \cap n = {}

LEMMA SpanOf ==
    ASSUME NEW text, NEW terms, NEW i \in DOMAIN text, NEW t \in Here(terms, text, i)
    PROVE  i..(i + Len(t) - 1) \in SpansOf(terms, text)
BY DEF SpansOf, Here

LEMMA SpanFrom ==
    ASSUME NEW text, NEW terms, NEW m \in SpansOf(terms, text)
    PROVE  \E i \in DOMAIN text : \E t \in Here(terms, text, i) : m = i..(i + Len(t) - 1)
<1>1. PICK t \in terms : m \in {i..(i + Len(t) - 1) : i \in {i \in DOMAIN text : OccursAt(t, text, i)}}
    BY DEF SpansOf
<1>2. PICK i \in DOMAIN text : OccursAt(t, text, i) /\ m = i..(i + Len(t) - 1)
    BY <1>1
<1>. QED BY <1>2 DEF Here

(* No occurrence covers both a place and the one before it.                *)
Seam(terms, text, i) == \A m \in SpansOf(terms, text) : ~ (i - 1 \in m /\ i \in m)

LEMMA SeamAfterWord ==
    ASSUME NEW W, NEW text \in Seq(W), NEW terms, SoundTerms(terms), NEW i \in 1..Len(text),
           Seam(terms, text, i), Here(terms, text, i) = {}
    PROVE  i \notin UNION SpansOf(terms, text) /\ Seam(terms, text, i + 1)
<1>1. ASSUME NEW m \in SpansOf(terms, text), i \in m PROVE FALSE
    <2>1. PICK a \in DOMAIN text : \E t \in Here(terms, text, a) : m = a..(a + Len(t) - 1)
        BY SpanFrom
    <2>2. PICK t \in Here(terms, text, a) : m = a..(a + Len(t) - 1)
        BY <2>1
    <2>3. a # i /\ a \in Nat /\ i \in Nat
        BY <2>2
    <2>. DEFINE last == a + Len(t) - 1
    <2>. HIDE DEF last
    <2>4. a <= i - 1 /\ i - 1 \in Int /\ a <= i
        BY <1>1, <2>2, <2>3 DEF last
    <2>5. i - 1 \in m
        <3>1. t \in Seq(Known)
            BY <2>2 DEF SoundTerms, Here
        <3>2. Len(t) \in Nat /\ i <= a + Len(t) - 1
            BY <1>1, <2>2, <3>1
        <3>3. i - 1 <= a + Len(t) - 1
            BY <2>3, <3>2
        <3>. QED BY <2>2, <2>3, <2>4, <3>2, <3>3
    <2>. QED BY <1>1, <2>5 DEF Seam
<1>2. (i + 1) - 1 = i
    OBVIOUS
<1>. QED BY <1>1, <1>2 DEF Seam

LEMMA SeamAfterTerm ==
    ASSUME NEW W, NEW text \in Seq(W), NEW terms, SoundTerms(terms), NEW i \in 1..Len(text),
           Apart(SpansOf(terms, text)), Seam(terms, text, i), Here(terms, text, i) # {}
    PROVE  /\ i..(i + Len(Longest(Here(terms, text, i))) - 1) \in SpansOf(terms, text)
           /\ Seam(terms, text, i + Len(Longest(Here(terms, text, i))))
<1>. DEFINE longest == Longest(Here(terms, text, i))
            l == Len(longest)
            whole == i..(i + l - 1)
<1>1. longest \in Here(terms, text, i) /\ (\A u \in Here(terms, text, i) : Len(u) <= l)
      /\ l \in 1..(Len(text) - i + 1)
    BY LongestLeads DEF Here
<1>2. DOMAIN text = 1..Len(text) /\ Len(text) \in Nat
    OBVIOUS
<1>. HIDE DEF longest
<1>3. whole \in SpansOf(terms, text)
    BY <1>1, <1>2, SpanOf
<1>. HIDE DEF l
<1>4. ASSUME NEW m \in SpansOf(terms, text), (i + l) - 1 \in m, i + l \in m PROVE FALSE
    <2>1. PICK a \in DOMAIN text : \E t \in Here(terms, text, a) : m = a..(a + Len(t) - 1)
        BY SpanFrom
    <2>2. PICK t \in Here(terms, text, a) : m = a..(a + Len(t) - 1)
        BY <2>1
    <2>3. t \in Seq(Known)
        BY <2>2 DEF SoundTerms, Here
    <2>. DEFINE k == Len(t)
    <2>4. k \in Nat /\ a \in Nat /\ i \in Nat /\ l \in Nat /\ l >= 1 /\ m = a..(a + k - 1)
          /\ a <= i + l /\ i + l <= a + k - 1
        BY <1>1, <1>2, <1>4, <2>2, <2>3
    <2>. HIDE DEF k
    <2>5. (i + l) - 1 \in whole /\ i + l \notin whole /\ i \in whole
        BY <2>4
    <2>6. whole \subseteq m
        <3>. HIDE DEF whole
        <3>1. whole \subseteq m \/ m \subseteq whole \/ whole \cap m = {}
            BY <1>3 DEF Apart
        <3>. QED BY <1>4, <2>5, <3>1
    <2>7. i \in m
        BY <2>5, <2>6
    <2>8. CASE a = i
        <3>1. k <= l
            BY <1>1, <2>2, <2>8 DEF k
        <3>. QED BY <2>4, <2>8, <3>1
    <2>9. CASE a # i
        <3>1. i - 1 \in m
            BY <2>4, <2>7, <2>9
        <3>. QED BY <2>7, <3>1 DEF Seam
    <2>. QED BY <2>8, <2>9
<1>. QED BY <1>3, <1>4 DEF Seam, l, longest

-------------------------------------------------------------------------------
(* Over places of which none is kept, nothing is added.                    *)
LEMMA KeptStays ==
    ASSUME NEW W, NEW seq \in Seq(W), NEW places, NEW h, KeepsUpTo(h, seq, places, W),
           NEW i \in 1..Len(seq), NEW last \in i..Len(seq), \A k \in i..last : k \notin places
    PROVE  h[last] = h[i - 1]
<1>. DEFINE T == {m \in Nat : (i - 1) + m <= last => h[(i - 1) + m] = h[i - 1]}
<1>0. Len(seq) \in Nat
    OBVIOUS
<1>1. 0 \in T
    <2>1. (i - 1) + 0 = i - 1
        OBVIOUS
    <2>. QED BY <2>1
<1>2. ASSUME NEW m \in Nat, m \in T PROVE m + 1 \in T
    <2>. SUFFICES ASSUME (i - 1) + (m + 1) <= last PROVE h[(i - 1) + (m + 1)] = h[i - 1]
        OBVIOUS
    <2>. DEFINE k == (i - 1) + (m + 1)
    <2>1. k \in 1..Len(seq) /\ k \in i..last /\ k - 1 = (i - 1) + m /\ (i - 1) + m <= last
        BY <1>0
    <2>. HIDE DEF k
    <2>2. h[k] = h[k - 1]
        BY <2>1 DEF KeepsUpTo
    <2>. QED BY <1>2, <2>1, <2>2 DEF k
<1>3. Nat \subseteq T
    <2>. HIDE DEF T
    <2>. QED BY <1>1, <1>2, SetInduction
<1>4. last - i + 1 \in T /\ (i - 1) + (last - i + 1) = last
    <2>. DEFINE m == last - i + 1
    <2>1. m \in Nat /\ (i - 1) + m = last
        BY <1>0
    <2>. HIDE DEF T, m
    <2>. QED BY <1>3, <2>1 DEF m
<1>5. (i - 1) + (last - i + 1) <= last
    BY <1>0
<1>. QED BY <1>4, <1>5

(* Of what is not to be redacted nothing is lost, unless two occurrences   *)
(* overlap: of the terms at one place the longest goes first, so that no   *)
(* part of it stays (privacy.py:50).                                       *)
THEOREM RedactKeepsTheRest ==
    ASSUME NEW W, Redacted \notin W, NEW text \in Seq(W), NEW terms, SoundTerms(terms),
           Apart(SpansOf(terms, text))
    PROVE  Shown(Redact(terms, text)) = Kept(text, DOMAIN text \ UNION SpansOf(terms, text))
<1>. DEFINE n == Len(text)
            X == W \cup {Redacted}
            puts == Puts(terms, text)
            goes == Goes(terms, text)
            places == DOMAIN text \ UNION SpansOf(terms, text)
<1>1. PICK from : Reads(from, 1, n, puts, goes, X) /\ Redact(terms, text) = from[1]
    BY RedactReads
<1>2. text \in Seq(X)
    BY SeqMonotonic
<1>3. PICK h : KeepsUpTo(h, text, places, X) /\ Kept(text, places) = h[Len(text)]
    <2>. HIDE DEF places, X
    <2>. QED BY <1>2, KeptWalks
<1>4. n \in Nat /\ DOMAIN text = 1..n /\ (\A i \in 1..n : goes[i] \in (i + 1)..(n + 1))
      /\ \A i \in 1..n : text[i] \in W
    BY GoesOn
<1>5. \A i \in 0..n : h[i] \in Seq(X)
    BY <1>3 DEF KeepsUpTo
<1>6. \A i \in 1..(n + 1) : from[i] \in Seq(X)
    BY <1>1 DEF Reads
<1>. DEFINE S == {i \in 1..(n + 1) :
                     Seam(terms, text, i) => h[n] = h[i - 1] \o Shown(from[i])}
<1>7. n + 1 \in S
    <2>1. from[n + 1] = <<>> /\ (n + 1) - 1 = n /\ n \in 0..n /\ n + 1 \in 1..(n + 1)
        BY <1>1, <1>4 DEF Reads
    <2>2. h[n] \o <<>> = h[n]
        BY <1>5, <2>1, ConcatEmptySeq
    <2>. QED BY <2>1, <2>2, ShownEmpty
<1>8. ASSUME NEW i \in 1..n, goes[i] \in S PROVE i \in S
    <2>. DEFINE s == from[goes[i]]
    <2>1. i \in 1..(n + 1) /\ goes[i] \in 1..(n + 1) /\ i - 1 \in 0..n
        BY <1>4
    <2>2. s \in Seq(X) /\ from[i] = <<puts[i]>> \o s /\ puts[i] \in X
        <3>1. puts[i] \in X
            BY <1>4 DEF Puts
        <3>. QED BY <1>1, <1>6, <2>1, <3>1 DEF Reads
    <2>3. Shown(s) \in Seq(X) /\ Shown(from[i]) = KeptShift(puts[i], Shown(s))
        <3>. HIDE DEF s, X
        <3>. QED BY <2>2, ShownLead
    <2>4. Seam(terms, text, goes[i]) => h[n] = h[goes[i] - 1] \o Shown(s)
        BY <1>8
    <2>. SUFFICES ASSUME Seam(terms, text, i) PROVE h[n] = h[i - 1] \o Shown(from[i])
        BY <2>1
    <2>5. h[i - 1] \in Seq(X)
        BY <1>5, <2>1
    <2>. HIDE DEF s, X
    <2>6. CASE Here(terms, text, i) = {}
        <3>1. puts[i] = text[i] /\ goes[i] = i + 1 /\ (i + 1) - 1 = i
            BY <2>6 DEF Puts, Goes
        <3>2. i \in places /\ Seam(terms, text, i + 1)
            BY <1>4, <2>6, SeamAfterWord
        <3>3. h[i] = Append(h[i - 1], text[i])
            BY <1>3, <3>2 DEF KeepsUpTo
        <3>4. text[i] # Redacted /\ text[i] \in X
            BY <1>4, <2>2, <3>1
        <3>5. Shown(from[i]) = <<text[i]>> \o Shown(s)
            BY <2>3, <3>1, <3>4 DEF KeptShift
        <3>6. <<text[i]>> \in Seq(X)
            BY <3>4
        <3>7. h[i] = h[i - 1] \o <<text[i]>>
            BY <2>5, <3>3, <3>4, AppendIsConcat
        <3>8. (h[i - 1] \o <<text[i]>>) \o Shown(s) = h[i - 1] \o (<<text[i]>> \o Shown(s))
            <4>. DEFINE a == h[i - 1]
                        b == <<text[i]>>
                        c == Shown(s)
            <4>1. a \in Seq(X) /\ b \in Seq(X) /\ c \in Seq(X)
                BY <2>3, <2>5, <3>6
            <4>. HIDE DEF a, b, c
            <4>2. (a \o b) \o c = a \o (b \o c)
                BY <4>1, ConcatAssociative
            <4>. QED BY <4>2 DEF a, b, c
        <3>. QED BY <2>4, <3>1, <3>2, <3>5, <3>7, <3>8
    <2>7. CASE Here(terms, text, i) # {}
        <3>. DEFINE l == Len(Longest(Here(terms, text, i)))
        <3>1. puts[i] = Redacted /\ goes[i] = i + l
            BY <2>7 DEF Puts, Goes
        <3>2. i..(i + l - 1) \in SpansOf(terms, text) /\ Seam(terms, text, i + l)
            BY <2>7, SeamAfterTerm
        <3>3. l \in 1..(n - i + 1)
            BY <2>7, LongestLeads DEF Here
        <3>. HIDE DEF l
        <3>4. \A k \in i..(i + l - 1) : k \notin places
            BY <3>2
        <3>5. l \in Nat /\ i + l - 1 <= n
            BY <1>4, <3>3
        <3>6. h[(i + l) - 1] = h[i - 1]
            <4>. DEFINE last == i + l - 1
            <4>1. last \in i..Len(text) /\ (i + l) - 1 = last /\ \A k \in i..last : k \notin places
                BY <1>4, <3>3, <3>4
            <4>. HIDE DEF places, last
            <4>2. h[last] = h[i - 1]
                BY <1>2, <1>3, <4>1, KeptStays
            <4>. QED BY <4>1, <4>2
        <3>7. Shown(from[i]) = Shown(s)
            BY <2>3, <3>1 DEF KeptShift
        <3>. QED BY <2>4, <3>1, <3>2, <3>6, <3>7
    <2>. QED BY <2>6, <2>7
<1>9. 1..(n + 1) \subseteq S
    <2>. HIDE DEF S, n, goes
    <2>. QED BY <1>4, <1>7, <1>8, BackInduction
<1>10. Seam(terms, text, 1)
    <2>1. ASSUME NEW m \in SpansOf(terms, text) PROVE 0 \notin m
        <3>1. PICK a \in DOMAIN text : \E t \in Here(terms, text, a) : m = a..(a + Len(t) - 1)
            BY SpanFrom
        <3>. QED BY <1>4, <3>1
    <2>2. 1 - 1 = 0
        OBVIOUS
    <2>. QED BY <2>1, <2>2 DEF Seam
<1>11. h[n] = h[0] \o Shown(from[1])
    <2>1. 1 \in 1..(n + 1) /\ 1 - 1 = 0
        BY <1>4
    <2>2. 1 \in S
        BY <1>9, <2>1
    <2>. QED BY <1>10, <2>1, <2>2
<1>12. h[0] = <<>> /\ Shown(from[1]) \in Seq(X)
    <2>1. 1 \in 1..(n + 1) /\ Redacted \in X
        BY <1>4
    <2>2. from[1] \in Seq(X)
        BY <1>6, <2>1
    <2>. HIDE DEF X
    <2>. QED BY <1>3, <2>1, <2>2, ShownLead DEF KeepsUpTo
<1>13. h[n] = Shown(from[1])
    <2>. HIDE DEF X
    <2>. QED BY <1>11, <1>12, ConcatEmptySeq
<1>. QED BY <1>1, <1>3, <1>13

-------------------------------------------------------------------------------
(* The terms of names are of their words, and none is empty.               *)
LEMMA TermsAreOfTheNames ==
    ASSUME NEW V, V \subseteq Known, NEW names, names \subseteq Seq(V)
    PROVE  \A t \in Terms(names) : t \in Seq(V) /\ t # <<>>
<1>1. Size(<<>>) = 0 - 1
    <2>. DEFINE empty == <<>>
    <2>1. empty \in Seq(Known) /\ Len(empty) = 0
        OBVIOUS
    <2>. HIDE DEF empty
    <2>2. PICK h \in [0..Len(empty) -> Nat] : h[0] = 0 /\ Size(empty) = h[Len(empty)] - 1
        BY <2>1, SizeAdds
    <2>. QED BY <2>1, <2>2 DEF empty
<1>2. ASSUME NEW t \in names, Size(t) >= 3 PROVE t \in Seq(V) /\ t # <<>>
    <2>1. CASE t = <<>>
        BY <1>1, <1>2, <2>1
    <2>. QED BY <2>1
<1>3. ASSUME NEW w \in UNION {ToSet(name) : name \in names} PROVE <<w>> \in Seq(V) /\ <<w>> # <<>>
    <2>1. PICK name \in names : w \in ToSet(name)
        OBVIOUS
    <2>2. w \in V
        BY <2>1 DEF ToSet
    <2>. QED BY <2>2
<1>. QED BY <1>2, <1>3 DEF Terms

LEMMA TermsAreSound ==
    ASSUME NEW V, V \subseteq Known \ {Redacted}, NEW names, names \subseteq Seq(V)
    PROVE  SoundTerms(Terms(names))
<1>. SUFFICES ASSUME NEW t \in Terms(names)
              PROVE  t \in Seq(Known) /\ t # <<>> /\ Redacted \notin ToSet(t)
    BY DEF SoundTerms
<1>1. t \in Seq(V) /\ t # <<>>
    BY TermsAreOfTheNames
<1>2. t \in Seq(Known)
    BY <1>1, SeqMonotonic
<1>3. ToSet(t) \subseteq V
    BY <1>1 DEF ToSet
<1>. QED BY <1>1, <1>2, <1>3

LEMMA BoundedAreSequences ==
    ASSUME NEW Chars, NEW n \in Nat
    PROVE  BoundedSeq(Chars, n) \subseteq Seq(Chars)
<1>. SUFFICES ASSUME NEW s \in BoundedSeq(Chars, n) PROVE s \in Seq(Chars)
    OBVIOUS
<1>1. PICK m \in 0..n : s \in [1..m -> Chars]
    BY DEF BoundedSeq, SeqOf
<1>. QED BY <1>1

LEMMA TestTextsAreRedacted == RedactsCompletely
<1>0. TestWords \subseteq Known \ {Redacted}
    BY PlainNames DEF Known
<1>. SUFFICES ASSUME NEW names \in UNION {kSubset(n, BoundedSeq(TestWords, 2) \ {<<>>}) : n \in 0..2},
                     NEW text \in BoundedSeq(TestWords, 4)
              PROVE  LET terms == Terms(names)
                         shown == Redact(terms, text)
                     IN  /\ \A t \in terms, i \in DOMAIN shown : ~OccursAt(t, shown, i)
                         /\ Apart(SpansOf(terms, text)) =>
                               Kept(shown, {i \in DOMAIN shown : shown[i] # Redacted})
                                   = Kept(text, DOMAIN text \ UNION SpansOf(terms, text))
    BY DEF RedactsCompletely, Apart, SpansOf
<1>. DEFINE terms == Terms(names)
            shown == Redact(terms, text)
<1>1. names \subseteq Seq(TestWords) /\ text \in Seq(TestWords)
    <2>1. names \subseteq BoundedSeq(TestWords, 2)
        <3>1. PICK n \in 0..2 : names \in kSubset(n, BoundedSeq(TestWords, 2) \ {<<>>})
            OBVIOUS
        <3>. QED BY <3>1 DEF kSubset
    <2>2. BoundedSeq(TestWords, 2) \subseteq Seq(TestWords) /\ BoundedSeq(TestWords, 4) \subseteq Seq(TestWords)
        BY BoundedAreSequences
    <2>. QED BY <2>1, <2>2
<1>2. SoundTerms(terms)
    BY <1>0, <1>1, TermsAreSound
<1>. HIDE DEF terms
<1>3. \A t \in terms : Free(t, shown)
    BY <1>1, <1>2, RedactHides
<1>4. Apart(SpansOf(terms, text)) =>
          Shown(shown) = Kept(text, DOMAIN text \ UNION SpansOf(terms, text))
    BY <1>0, <1>1, <1>2, RedactKeepsTheRest
<1>. QED BY <1>3, <1>4 DEF Free, Shown, terms

-------------------------------------------------------------------------------
Joins(z, x, y) ==
    /\ Len(z) = Len(x) + Len(y)
    /\ \A k \in 1..Len(x) : z[k] = x[k]
    /\ \A k \in 1..Len(y) : z[Len(x) + k] = y[k]

LEMMA Joined ==
    ASSUME NEW W, NEW x \in Seq(W), NEW y \in Seq(W)
    PROVE  x \o y \in Seq(W) /\ Joins(x \o y, x, y)
<1>1. ASSUME NEW k \in 1..Len(x) PROVE (x \o y)[k] = x[k]
    OBVIOUS
<1>2. ASSUME NEW k \in 1..Len(y) PROVE (x \o y)[Len(x) + k] = y[k]
    OBVIOUS
<1>. QED BY <1>1, <1>2 DEF Joins

(* A term that two texts are free of does not arise across the break that  *)
(* joins them.                                                             *)
LEMMA FreeJoins ==
    ASSUME NEW W, Break \in W, NEW x \in Seq(W), NEW y \in Seq(W),
           NEW V, Break \notin V, NEW t \in Seq(V), t # <<>>, Free(t, x), Free(t, y)
    PROVE  Free(t, x \o <<Break>> \o y)
<1>. DEFINE a == Len(x)
            l == Len(t)
            left == x \o <<Break>>
            whole == left \o y
<1>1. a \in Nat /\ l \in Nat /\ l # 0 /\ Len(y) \in Nat
    BY EmptySeq
<1>2. \A k \in 1..l : t[k] \in V
    OBVIOUS
<1>3. <<Break>> \in Seq(W) /\ Len(<<Break>>) = 1 /\ <<Break>>[1] = Break
    OBVIOUS
<1>4. /\ left \in Seq(W) /\ Len(left) = a + 1
      /\ (\A k \in 1..a : left[k] = x[k]) /\ left[a + 1] = Break
    <2>. DEFINE one == <<Break>>
    <2>1. one \in Seq(W) /\ Len(one) = 1 /\ one[1] = Break
        BY <1>3
    <2>. HIDE DEF one
    <2>2. x \o one \in Seq(W) /\ Joins(x \o one, x, one)
        BY <2>1, Joined
    <2>3. 1 \in 1..Len(one)
        BY <2>1
    <2>4. (x \o one)[Len(x) + 1] = one[1]
        BY <2>2, <2>3 DEF Joins
    <2>. QED BY <2>1, <2>2, <2>4 DEF one, Joins
<1>. HIDE DEF left
<1>5. /\ whole \in Seq(W) /\ Len(whole) = a + 1 + Len(y)
      /\ \A k \in 1..(a + 1) : whole[k] = left[k]
      /\ \A k \in 1..Len(y) : whole[(a + 1) + k] = y[k]
    <2>1. left \o y \in Seq(W) /\ Joins(left \o y, left, y)
        BY <1>4, Joined
    <2>. QED BY <1>4, <2>1 DEF Joins
<1>6. /\ \A k \in 1..a : whole[k] = x[k]
      /\ whole[a + 1] = Break
      /\ \A k \in 1..Len(y) : whole[(a + 1) + k] = y[k]
    <2>1. a + 1 \in 1..(a + 1) /\ \A k \in 1..a : k \in 1..(a + 1)
        BY <1>1
    <2>. HIDE DEF whole, a
    <2>. QED BY <1>4, <1>5, <2>1
<1>. HIDE DEF whole, a, l
<1>7. ASSUME NEW j \in 1..Len(whole), OccursAt(t, whole, j) PROVE FALSE
    <2>1. j + l - 1 <= Len(whole) /\ \A k \in 1..l : whole[j + k - 1] = t[k]
        <3>1. OccursAt(t, whole, j) <=>
                  j + Len(t) - 1 <= Len(whole) /\ \A k \in 1..Len(t) : whole[j + k - 1] = t[k]
            <4>1. t \in Seq(V) /\ whole \in Seq(W) /\ j \in 1..Len(whole)
                BY <1>5
            <4>. QED BY <4>1, Occurrence
        <3>. QED BY <1>7, <3>1 DEF l
    <2>2. CASE j + l - 1 <= a
        <3>1. j \in 1..a
            BY <1>1, <1>5, <2>2
        <3>2. \A k \in 1..l : x[j + k - 1] = t[k]
            <4>. SUFFICES ASSUME NEW k \in 1..l PROVE x[j + k - 1] = t[k]
                OBVIOUS
            <4>1. j + k - 1 \in 1..a
                BY <1>1, <2>2, <3>1
            <4>. QED BY <1>6, <2>1, <4>1
        <3>3. OccursAt(t, x, j)
            BY <2>2, <3>1, <3>2, Occurrence DEF a, l
        <3>4. j \in DOMAIN x
            BY <3>1 DEF a
        <3>. QED BY <3>3, <3>4 DEF Free
    <2>3. CASE j > a + 1
        <3>. DEFINE p == j - (a + 1)
        <3>1. p \in 1..Len(y) /\ p + l - 1 <= Len(y)
            BY <1>1, <1>5, <2>1, <2>3
        <3>2. \A k \in 1..l : y[p + k - 1] = t[k]
            <4>. SUFFICES ASSUME NEW k \in 1..l PROVE y[p + k - 1] = t[k]
                OBVIOUS
            <4>. DEFINE q == p + k - 1
            <4>1. q \in 1..Len(y) /\ (a + 1) + q = j + k - 1
                BY <1>1, <3>1
            <4>. HIDE DEF q
            <4>2. y[q] = t[k]
                BY <1>6, <2>1, <4>1
            <4>. QED BY <4>2 DEF q
        <3>. HIDE DEF p
        <3>3. OccursAt(t, y, p)
            BY <3>1, <3>2, Occurrence DEF l
        <3>. QED BY <3>1, <3>3 DEF Free
    <2>4. CASE j <= a + 1 /\ a + 1 <= j + l - 1
        <3>. DEFINE k == (a + 1) - j + 1
        <3>1. k \in 1..l /\ j + k - 1 = a + 1
            BY <1>1, <2>4
        <3>2. t[k] = Break
            BY <1>6, <2>1, <3>1
        <3>. QED BY <1>2, <3>1, <3>2 DEF l
    <2>. QED BY <1>1, <2>2, <2>3, <2>4
<1>8. DOMAIN whole = 1..Len(whole)
    BY <1>5
<1>. QED BY <1>7, <1>8 DEF Free, whole, left

LEMMA ComposedIsFree ==
    ASSUME NEW W, Break \in W, NEW parts \in Seq(Seq(W)),
           NEW V, Break \notin V, NEW t \in Seq(V), t # <<>>,
           \A i \in 1..Len(parts) : Free(t, parts[i])
    PROVE  \A chunk \in ToSet(Compose(parts)) : Free(t, chunk)
<1>1. CASE parts = <<>>
    <2>. DEFINE text == FoldLeft(LAMBDA t1, part : t1 \o <<Break>> \o part, Head(parts), Tail(parts))
    <2>0. Compose(parts) = IF parts = <<>> THEN <<>> ELSE <<text>>
        BY DEF Compose
    <2>. HIDE DEF text
    <2>1. Compose(parts) = <<>> /\ DOMAIN <<>> = {}
        BY <1>1, <2>0
    <2>2. ToSet(Compose(parts)) = {}
        BY <2>1 DEF ToSet
    <2>. QED BY <2>2
<1>2. CASE parts # <<>>
    <2>. DEFINE rest == Tail(parts)
                n == Len(rest)
    <2>1. PICK h : ComposesUpTo(h, parts, W) /\ Compose(parts) = <<h[n]>>
        BY <1>2, ComposeWalks
    <2>2. n \in Nat /\ Len(parts) = n + 1 /\ Head(parts) = parts[1]
          /\ \A k \in 1..n : rest[k] = parts[k + 1]
        BY <1>2
    <2>. DEFINE T == {k \in Nat : k <= n => Free(t, h[k])}
    <2>3. 0 \in T
        <3>1. 1 \in 1..Len(parts)
            BY <2>2
        <3>. QED BY <2>1, <2>2, <3>1 DEF ComposesUpTo
    <2>4. ASSUME NEW k \in Nat, k \in T PROVE k + 1 \in T
        <3>. DEFINE m == k + 1
        <3>. SUFFICES ASSUME m <= n PROVE Free(t, h[m])
            OBVIOUS
        <3>1. m \in 1..n /\ m - 1 = k /\ k \in 0..n /\ k <= n /\ m + 1 \in 1..Len(parts)
            BY <2>2
        <3>. HIDE DEF m
        <3>2. rest[m] = parts[m + 1]
            BY <2>2, <3>1
        <3>3. rest[m] \in Seq(W) /\ Free(t, rest[m])
            BY <3>1, <3>2
        <3>4. h[k] \in Seq(W) /\ Free(t, h[k]) /\ h[m] = h[k] \o <<Break>> \o rest[m]
            BY <2>1, <2>4, <3>1 DEF ComposesUpTo
        <3>. HIDE DEF rest
        <3>. QED BY <3>3, <3>4, FreeJoins
    <2>5. Nat \subseteq T
        <3>. HIDE DEF T
        <3>. QED BY <2>3, <2>4, SetInduction
    <2>6. Free(t, h[n])
        BY <2>2, <2>5
    <2>7. ToSet(Compose(parts)) = {h[n]}
        BY <2>1 DEF ToSet
    <2>. QED BY <2>6, <2>7
<1>. QED BY <1>1, <1>2

-------------------------------------------------------------------------------
(* No scanned text of a landed row (the title, the maker's columns, what   *)
(* is embedded) shows a name that it was redacted for.                     *)
LEMMA PartsAreTexts ==
    ASSUME NEW r \in Row
    PROVE  /\ NormalizeRow(r).parts \in Seq(Text)
           /\ NormalizeRow(r).title \in Seq(STRING \cup {"(untitled)"})
           /\ NormalizeRow(r).maker \in Text
<1>. DEFINE texts == <<r.title>> \o r.narrative
            places == {i \in DOMAIN texts : texts[i] # <<>>}
            W == STRING \cup {"(untitled)"}
<1>1. r.title \in Text /\ r.narrative \in Seq(Text) /\ r.maker \in Text
    BY DEF Row
<1>2. texts \in Seq(Text)
    BY <1>1, Lead
<1>3. Kept(texts, places) \in Seq(Text)
    <2>. HIDE DEF texts, places
    <2>1. PICK h : KeepsUpTo(h, texts, places, Text) /\ Kept(texts, places) = h[Len(texts)]
        BY <1>2, KeptWalks
    <2>2. Len(texts) \in 0..Len(texts)
        BY <1>2
    <2>. QED BY <2>1, <2>2 DEF KeepsUpTo
<1>4. NormalizeRow(r).parts = Kept(texts, places) /\ NormalizeRow(r).maker = r.maker
      /\ NormalizeRow(r).title = IF r.title = <<>> THEN <<"(untitled)">> ELSE r.title
    BY DEF NormalizeRow
<1>5. r.title \in Seq(W) /\ <<"(untitled)">> \in Seq(W)
    <2>1. "(untitled)" \in W /\ STRING \subseteq W
        OBVIOUS
    <2>2. <<"(untitled)">> \in Seq(W)
        BY <2>1
    <2>. HIDE DEF W
    <2>3. r.title \in Seq(W)
        BY <1>1, <2>1, SeqMonotonic DEF Text
    <2>. QED BY <2>2, <2>3
<1>. QED BY <1>1, <1>3, <1>4, <1>5

LEMMA RowHidesNames ==
    ASSUME NEW r \in Row, NEW names, names \subseteq Seq(DOMAIN Letters \ {Redacted, Break}),
           NEW t \in Terms(names)
    PROVE  LET doc == LandRow(r, names)
           IN  \A text \in ToSet(doc.chunks) \cup {doc.title, doc.maker} : Free(t, text)
<1>. DEFINE V == DOMAIN Letters \ {Redacted, Break}
            W == STRING \cup {"(untitled)"}
            All == W \cup {Redacted} \cup {Break}
            terms == Terms(names)
            doc == LandRow(r, names)
            n == NormalizeRow(r)
            parts == [i \in DOMAIN n.parts |-> Redact(terms, n.parts[i])]
<1>1. V \subseteq Known \ {Redacted} /\ V \subseteq Known /\ Break \notin V
    BY DEF Known
<1>. HIDE DEF V
<1>2. SoundTerms(terms) /\ t \in Seq(V) /\ t # <<>>
    BY <1>1, TermsAreSound, TermsAreOfTheNames DEF V
<1>. HIDE DEF terms
<1>3. ASSUME NEW text \in Seq(W)
      PROVE  Redact(terms, text) \in Seq(All) /\ Free(t, Redact(terms, text))
    <2>. HIDE DEF W
    <2>0. t \in terms
        BY DEF terms
    <2>1. Redact(terms, text) \in Seq(W \cup {Redacted}) /\ Free(t, Redact(terms, text))
        BY <1>2, <2>0, RedactHides
    <2>2. W \cup {Redacted} \subseteq All
        OBVIOUS
    <2>. HIDE DEF All
    <2>. QED BY <2>1, <2>2, SeqMonotonic
<1>4. n.parts \in Seq(Text) /\ n.title \in Seq(W) /\ n.maker \in Seq(W) /\ Text \subseteq Seq(W)
    <2>1. Text \subseteq Seq(W)
        <3>1. STRING \subseteq W
            OBVIOUS
        <3>. HIDE DEF W
        <3>. QED BY <3>1, SeqMonotonic DEF Text
    <2>. QED BY <2>1, PartsAreTexts
<1>5. doc.title = Redact(terms, n.title) /\ doc.maker = Redact(terms, n.maker)
      /\ doc.chunks = Compose(parts)
    BY DEF LandRow, terms
<1>. HIDE DEF n, doc, W, All
<1>6. parts \in Seq(Seq(All)) /\ \A i \in 1..Len(parts) : Free(t, parts[i])
    <2>1. DOMAIN n.parts = 1..Len(n.parts) /\ Len(n.parts) \in Nat
          /\ \A i \in 1..Len(n.parts) : n.parts[i] \in Seq(W)
        BY <1>4
    <2>2. \A i \in 1..Len(n.parts) : parts[i] \in Seq(All) /\ Free(t, parts[i])
        BY <1>3, <2>1
    <2>3. parts \in [1..Len(n.parts) -> Seq(All)]
        BY <2>1, <2>2
    <2>4. parts \in Seq(Seq(All)) /\ Len(parts) = Len(n.parts)
        <3>. DEFINE m == Len(n.parts)
                    X == Seq(All)
        <3>1. m \in Nat /\ parts \in [1..m -> X]
            BY <2>1, <2>3
        <3>. HIDE DEF parts, m, X
        <3>2. parts \in Seq(X) /\ Len(parts) = m
            BY <3>1
        <3>. QED BY <3>2 DEF m, X
    <2>. QED BY <2>2, <2>4
<1>7. \A chunk \in ToSet(doc.chunks) : Free(t, chunk)
    <2>1. Break \in All
        BY DEF All
    <2>. HIDE DEF parts
    <2>2. \A chunk \in ToSet(Compose(parts)) : Free(t, chunk)
        BY <1>1, <1>2, <1>6, <2>1, ComposedIsFree
    <2>. QED BY <1>5, <2>2
<1>8. Free(t, doc.title) /\ Free(t, doc.maker)
    BY <1>3, <1>4, <1>5
<1>. QED BY <1>7, <1>8 DEF doc

-------------------------------------------------------------------------------
(* The chunker.  Windows of w words begin s words apart; the last of them  *)
(* is the first that reaches the end.                                      *)
LEMMA Quotient ==
    ASSUME NEW a \in Nat, NEW s \in Nat \ {0}
    PROVE  LET q == a \div s IN q \in Nat /\ q * s <= a /\ a < q * s + s
OBVIOUS

LEMMA Multiples ==
    ASSUME NEW a \in Nat, NEW b \in Nat, NEW s \in Nat \ {0}
    PROVE  /\ a * s \in Nat /\ a <= a * s
           /\ a <= b => a * s <= b * s
           /\ (a + 1) * s = a * s + s
OBVIOUS

WindowCount(n, w, s) == IF n <= w THEN 1 ELSE 1 + (n - w + s - 1) \div s

LEMMA WindowsReachTheEnd ==
    ASSUME NEW n \in Nat \ {0}, NEW w \in Nat \ {0}, NEW s \in 1..w
    PROVE  LET count == WindowCount(n, w, s)
               p == [i \in 1..count |-> (i - 1) * s]
           IN  /\ count \in 1..n /\ p \in [1..count -> Nat] /\ p[1] = 0
               /\ \A i \in 1..(count - 1) : p[i + 1] = p[i] + s /\ p[i] + w < n
               /\ p[count] + w >= n /\ p[count] < n
<1>. DEFINE count == WindowCount(n, w, s)
            p == [i \in 1..count |-> (i - 1) * s]
<1>0. s \in Nat \ {0} /\ s <= w
    OBVIOUS
<1>1. CASE n <= w
    <2>1. count = 1
        BY <1>1 DEF WindowCount
    <2>. HIDE DEF count
    <2>2. p[1] = 0 /\ p \in [1..count -> Nat]
        BY <2>1, <1>0
    <2>. HIDE DEF p
    <2>3. p[count] + w >= n /\ p[count] < n /\ count \in 1..n /\ 1..(count - 1) = {}
        BY <1>1, <2>1, <2>2
    <2>. QED BY <2>2, <2>3 DEF p, count
<1>2. CASE ~(n <= w)
    <2>. DEFINE d == n - w
                a == d + s - 1
                q == a \div s
    <2>1. d \in Nat \ {0} /\ a \in Nat /\ a = d + s - 1
        BY <1>0, <1>2
    <2>2. count = 1 + q
        BY <1>2 DEF WindowCount
    <2>. HIDE DEF count, a
    <2>3. q \in Nat /\ q * s <= a /\ a < q * s + s
        BY <1>0, <2>1, Quotient
    <2>. HIDE DEF q
    <2>. DEFINE m == q * s
    <2>4. m \in Nat /\ q <= m /\ d <= m /\ m <= d + s - 1
        BY <1>0, <2>1, <2>3, Multiples
    <2>5. q # 0
        <3>1. q = 0 => m = 0
            BY <1>0
        <3>. HIDE DEF m, d
        <3>. QED BY <2>1, <2>4, <3>1
    <2>6. q - 1 \in Nat /\ (q - 1) * s \in Nat /\ q - 1 <= (q - 1) * s /\ m = (q - 1) * s + s
        <3>1. q - 1 \in Nat /\ (q - 1) + 1 = q
            BY <2>3, <2>5
        <3>2. ((q - 1) + 1) * s = (q - 1) * s + s /\ (q - 1) * s \in Nat /\ q - 1 <= (q - 1) * s
            BY <1>0, <3>1, Multiples
        <3>. QED BY <3>1, <3>2
    <2>. DEFINE k == (q - 1) * s
    <2>7. k \in Nat /\ q - 1 <= k /\ m = k + s
        BY <2>6
    <2>8. \A i \in 1..q : (i - 1) * s \in Nat /\ (i - 1) * s <= k /\ i * s = (i - 1) * s + s
        <3>. SUFFICES ASSUME NEW i \in 1..q
                      PROVE  (i - 1) * s \in Nat /\ (i - 1) * s <= k /\ i * s = (i - 1) * s + s
            OBVIOUS
        <3>1. i - 1 \in Nat /\ i - 1 <= q - 1 /\ (i - 1) + 1 = i
            BY <2>3
        <3>2. (i - 1) * s \in Nat /\ (i - 1) * s <= (q - 1) * s
              /\ ((i - 1) + 1) * s = (i - 1) * s + s
            BY <1>0, <2>6, <3>1, Multiples
        <3>. QED BY <3>1, <3>2
    <2>. HIDE DEF m, k
    <2>9. k < d /\ m + w >= n /\ m < n /\ q <= d /\ count \in 1..n
        BY <1>0, <1>2, <2>1, <2>2, <2>3, <2>4, <2>7
    <2>10. p[1] = 0
        BY <1>0, <2>9
    <2>11. count \in 1..count /\ count - 1 = q
        BY <2>2, <2>3
    <2>12. p[count] = m
        BY <2>11 DEF m
    <2>13. p \in [1..count -> Nat]
        <3>. SUFFICES ASSUME NEW i \in 1..count PROVE (i - 1) * s \in Nat
            OBVIOUS
        <3>1. i - 1 \in Nat
            BY <2>2, <2>3
        <3>. QED BY <1>0, <3>1, Multiples
    <2>14. ASSUME NEW i \in 1..(count - 1)
           PROVE  p[i + 1] = p[i] + s /\ p[i] + w < n
        <3>1. i \in 1..q /\ i \in 1..count /\ i + 1 \in 1..count /\ (i + 1) - 1 = i
            BY <2>2, <2>3
        <3>2. p[i] = (i - 1) * s /\ p[i + 1] = i * s
            BY <3>1
        <3>3. p[i] \in Nat /\ p[i] <= k /\ p[i + 1] = p[i] + s
            BY <2>8, <3>1, <3>2
        <3>. HIDE DEF p
        <3>. QED BY <1>0, <2>7, <2>9, <3>3
    <2>. HIDE DEF p
    <2>. QED BY <2>9, <2>10, <2>12, <2>13, <2>14 DEF p, count
<1>. QED BY <1>1, <1>2

(* Chunk c is the text from first[c] to last[c]; the chunks go on by at     *)
(* least a word, share as many as they should, and cover every position.   *)
AreWindows(chunks, text, window, shared, count, first, last) ==
    /\ chunks = [c \in 1..count |-> SubSeq(text, first[c], last[c])]
    /\ \A c \in 1..count : first[c] <= last[c] /\ last[c] - first[c] < window
    /\ \A c \in 1..(count - 1) : last[c] < last[c + 1] /\ last[c] - first[c + 1] + 1 = shared
    /\ \A x \in 1..Len(text) : \E c \in 1..count : first[c] <= x /\ x <= last[c]

Shared(window, overlap) == IF overlap < window THEN overlap ELSE window - 1

(* What WindowsCover states of short texts and small windows, of any text, *)
(* window and overlap.                                                     *)
LEMMA ChunksAreWindows ==
    ASSUME NEW Words, NEW text \in Seq(Words), text # <<>>,
           NEW window \in Nat \ {0}, NEW overlap \in Nat
    PROVE  \E count \in 1..Len(text) : \E first, last \in [1..count -> 1..Len(text)] :
              AreWindows(WindowChunks(text, window, overlap), text, window,
                         Shared(window, overlap), count, first, last)
<1>. DEFINE n == Len(text)
            step == IF window > overlap THEN window - overlap ELSE 1
            shared == Shared(window, overlap)
            count == WindowCount(n, window, step)
            p == [i \in 1..count |-> (i - 1) * step]
<1>1. n \in Nat \ {0}
    BY EmptySeq
<1>2. step \in 1..window /\ shared = window - step
    BY DEF Shared
<1>3. WindowChunks(text, window, overlap) =
          [i \in 1..count |->
              SubSeq(text, (i - 1) * step + 1,
                     IF (i - 1) * step + window < n THEN (i - 1) * step + window ELSE n)]
    BY <1>1 DEF WindowChunks, WindowCount
<1>. HIDE DEF n, step, shared, count
<1>4. /\ count \in 1..n /\ p \in [1..count -> Nat] /\ p[1] = 0
      /\ \A i \in 1..(count - 1) : p[i + 1] = p[i] + step /\ p[i] + window < n
      /\ p[count] + window >= n /\ p[count] < n
    BY <1>1, <1>2, WindowsReachTheEnd DEF count
<1>. DEFINE first == [c \in 1..count |-> p[c] + 1]
            last == [c \in 1..count |-> IF p[c] + window < n THEN p[c] + window ELSE n]
<1>5. WindowChunks(text, window, overlap) = [c \in 1..count |-> SubSeq(text, first[c], last[c])]
    <2>1. \A c \in 1..count : first[c] = (c - 1) * step + 1
        OBVIOUS
    <2>2. \A c \in 1..count :
              last[c] = IF (c - 1) * step + window < n THEN (c - 1) * step + window ELSE n
        OBVIOUS
    <2>. HIDE DEF first, last, p
    <2>. QED BY <1>3, <2>1, <2>2
<1>. HIDE DEF p
<1>6. count \in 1..count /\ \A c \in 1..count : c = count \/ (c \in 1..(count - 1) /\ c + 1 \in 1..count)
    BY <1>1, <1>4
<1>7. \A c \in 1..count : p[c] \in Nat /\ p[c] < n
    BY <1>1, <1>4, <1>6
<1>8. last[count] = n
    <2>1. ~(p[count] + window < n)
        BY <1>1, <1>4, <1>6, <1>7
    <2>. QED BY <1>6, <2>1
<1>9. \A c \in 1..(count - 1) : last[c] = p[c] + window /\ last[c] < n /\ first[c + 1] = p[c] + step + 1
    <2>. SUFFICES ASSUME NEW c \in 1..(count - 1)
                  PROVE  last[c] = p[c] + window /\ last[c] < n /\ first[c + 1] = p[c] + step + 1
        OBVIOUS
    <2>1. c \in 1..count /\ c + 1 \in 1..count
        BY <1>1, <1>4
    <2>2. p[c] + window < n /\ p[c + 1] = p[c] + step
        BY <1>4
    <2>. QED BY <2>1, <2>2
<1>10. \A c \in 1..count : /\ first[c] \in 1..n /\ last[c] \in 1..n
                           /\ first[c] <= last[c] /\ last[c] - first[c] < window
    <2>. SUFFICES ASSUME NEW c \in 1..count
                  PROVE  /\ first[c] \in 1..n /\ last[c] \in 1..n
                         /\ first[c] <= last[c] /\ last[c] - first[c] < window
        OBVIOUS
    <2>. DEFINE x == p[c]
    <2>1. x \in Nat /\ x < n
        BY <1>7
    <2>2. first[c] = x + 1 /\ last[c] = IF x + window < n THEN x + window ELSE n
        OBVIOUS
    <2>. HIDE DEF x, first, last
    <2>. QED BY <1>1, <2>1, <2>2
<1>. HIDE DEF first, last
<1>11. first \in [1..count -> 1..n] /\ last \in [1..count -> 1..n]
    BY <1>10 DEF first, last
<1>12. ASSUME NEW c \in 1..(count - 1)
       PROVE  last[c] < last[c + 1] /\ last[c] - first[c + 1] + 1 = shared
    <2>1. c \in 1..count /\ c + 1 \in 1..count
        BY <1>1, <1>4
    <2>2. last[c] = p[c] + window /\ last[c] < n /\ first[c + 1] = p[c] + step + 1 /\ p[c] \in Nat
        BY <1>7, <1>9, <2>1
    <2>3. last[c] - first[c + 1] + 1 = shared
        BY <1>2, <2>2
    <2>4. CASE c + 1 = count
        BY <1>8, <2>2, <2>3, <2>4
    <2>5. CASE c + 1 # count
        <3>1. c + 1 \in 1..(count - 1)
            BY <1>1, <1>4, <2>1, <2>5
        <3>2. last[c + 1] = p[c + 1] + window /\ p[c + 1] = p[c] + step
            BY <1>4, <1>9, <3>1
        <3>3. last[c] < last[c + 1]
            BY <1>2, <2>2, <3>2
        <3>. QED BY <2>3, <3>3
    <2>. QED BY <2>4, <2>5
<1>13. ASSUME NEW x \in 1..n
       PROVE  \E c \in 1..count : first[c] <= x /\ x <= last[c]
    <2>. DEFINE T == {c \in 1..count : first[c] <= x}
                g == Max(T)
    <2>1. first[1] = 1 /\ 1 \in 1..count
        BY <1>1, <1>4 DEF first
    <2>2. T \subseteq 1..count /\ T # {} /\ count \in Nat
        <3>1. 1 \in T
            BY <2>1
        <3>2. count \in Nat
            BY <1>1, <1>4
        <3>. QED BY <3>1, <3>2
    <2>3. g \in T /\ \A c \in T : c <= g
        <3>. HIDE DEF T
        <3>. QED BY <2>2, GreatestMember
    <2>. HIDE DEF g
    <2>4. g \in 1..count /\ first[g] <= x /\ \A c \in 1..count : first[c] <= x => c <= g
        BY <2>3
    <2>. HIDE DEF T
    <2>5. CASE g = count
        BY <1>8, <2>4, <2>5
    <2>6. CASE g # count
        <3>1. g \in 1..(count - 1) /\ g + 1 \in 1..count /\ g \in Nat
            BY <1>6, <2>4, <2>6
        <3>2. ~(first[g + 1] <= x)
            <4>1. ~(g + 1 <= g)
                BY <3>1
            <4>. QED BY <2>4, <3>1, <4>1
        <3>3. last[g] = p[g] + window /\ first[g + 1] = p[g] + step + 1 /\ p[g] \in Nat
            BY <1>7, <1>9, <2>4, <3>1
        <3>4. x <= last[g]
            BY <1>2, <3>2, <3>3
        <3>. QED BY <2>4, <3>4
    <2>. QED BY <2>5, <2>6
<1>14. AreWindows(WindowChunks(text, window, overlap), text, window, shared, count, first, last)
    BY <1>5, <1>10, <1>12, <1>13 DEF AreWindows, n
<1>. QED BY <1>4, <1>11, <1>14 DEF n, shared

(* The chunks of a text hold its words, all of them and no other, for any  *)
(* window and overlap (chunk.py:25).                                       *)
THEOREM ChunksHoldAll ==
    ASSUME NEW Words, NEW text \in Seq(Words), NEW window \in Nat \ {0}, NEW overlap \in Nat
    PROVE  UNION {ToSet(chunk) : chunk \in ToSet(WindowChunks(text, window, overlap))} = ToSet(text)
<1>. DEFINE chunks == WindowChunks(text, window, overlap)
            n == Len(text)
<1>1. CASE text = <<>>
    <2>1. chunks = <<>>
        BY <1>1 DEF WindowChunks
    <2>. HIDE DEF chunks
    <2>. QED BY <1>1, <2>1 DEF ToSet, chunks
<1>2. CASE text # <<>>
    <2>0. PICK count \in 1..n : \E first, last \in [1..count -> 1..n] :
              AreWindows(chunks, text, window, Shared(window, overlap), count, first, last)
        BY <1>2, ChunksAreWindows
    <2>1. PICK first \in [1..count -> 1..n], last \in [1..count -> 1..n] :
              AreWindows(chunks, text, window, Shared(window, overlap), count, first, last)
        BY <2>0
    <2>2. /\ chunks = [c \in 1..count |-> SubSeq(text, first[c], last[c])]
          /\ \A c \in 1..count : first[c] <= last[c]
          /\ \A x \in 1..n : \E c \in 1..count : first[c] <= x /\ x <= last[c]
        BY <2>1 DEF AreWindows
    <2>. HIDE DEF chunks
    <2>3. n \in Nat /\ DOMAIN text = 1..n
        OBVIOUS
    <2>4. ToSet(chunks) = {chunks[c] : c \in 1..count}
        BY <2>2 DEF ToSet
    <2>5. ASSUME NEW c \in 1..count
          PROVE  ToSet(chunks[c]) = {text[x] : x \in first[c]..last[c]}
        <3>. DEFINE a == first[c]
                    b == last[c]
        <3>1. chunks[c] = SubSeq(text, a, b) /\ a \in 1..n /\ b \in 1..n /\ a <= b
            BY <2>2
        <3>. HIDE DEF a, b
        <3>2. chunks[c] = [i \in 1..(b - a + 1) |-> text[a + i - 1]]
            BY <2>3, <3>1
        <3>3. ToSet(chunks[c]) = {text[a + i - 1] : i \in 1..(b - a + 1)}
            BY <3>2 DEF ToSet
        <3>4. \A x \in a..b : x - a + 1 \in 1..(b - a + 1) /\ a + (x - a + 1) - 1 = x
            BY <3>1
        <3>5. \A i \in 1..(b - a + 1) : a + i - 1 \in a..b
            BY <3>1
        <3>6. \A x \in a..b : text[x] \in ToSet(chunks[c])
            BY <3>3, <3>4
        <3>. QED BY <3>3, <3>5, <3>6 DEF a, b
    <2>6. \A c \in 1..count : \A x \in first[c]..last[c] : x \in 1..n
        <3>. SUFFICES ASSUME NEW c \in 1..count, NEW x \in first[c]..last[c] PROVE x \in 1..n
            OBVIOUS
        <3>1. first[c] \in 1..n /\ last[c] \in 1..n
            OBVIOUS
        <3>. QED BY <2>3, <3>1
    <2>7. \A x \in 1..n : \E c \in 1..count : x \in first[c]..last[c]
        <3>. SUFFICES ASSUME NEW x \in 1..n PROVE \E c \in 1..count : x \in first[c]..last[c]
            OBVIOUS
        <3>1. PICK c \in 1..count : first[c] <= x /\ x <= last[c]
            BY <2>2
        <3>2. first[c] \in 1..n /\ last[c] \in 1..n
            OBVIOUS
        <3>. QED BY <2>3, <3>1, <3>2
    <2>8. UNION {ToSet(chunk) : chunk \in ToSet(chunks)} = UNION {ToSet(chunks[c]) : c \in 1..count}
        BY <2>4
    <2>9. UNION {ToSet(chunks[c]) : c \in 1..count} = ToSet(text)
        <3>0. ToSet(text) = {text[x] : x \in 1..n}
            BY <2>3 DEF ToSet
        <3>1. ASSUME NEW c \in 1..count, NEW e \in ToSet(chunks[c]) PROVE e \in ToSet(text)
            <4>1. e \in {text[x] : x \in first[c]..last[c]}
                BY <2>5, <3>1
            <4>2. PICK x \in first[c]..last[c] : e = text[x]
                BY <4>1
            <4>3. x \in 1..n
                BY <2>6, <4>2
            <4>. QED BY <3>0, <4>2, <4>3
        <3>2. ASSUME NEW x \in 1..n PROVE \E c \in 1..count : text[x] \in ToSet(chunks[c])
            BY <2>5, <2>7
        <3>. DEFINE all == UNION {ToSet(chunks[c]) : c \in 1..count}
        <3>3. all \subseteq ToSet(text)
            BY <3>1
        <3>4. ASSUME NEW e \in ToSet(text) PROVE e \in all
            <4>1. PICK x \in 1..n : e = text[x]
                BY <3>0
            <4>. QED BY <3>2, <4>1
        <3>. HIDE DEF all
        <3>5. all = ToSet(text)
            BY <3>3, <3>4
        <3>. QED BY <3>5 DEF all
    <2>. QED BY <2>8, <2>9 DEF chunks
<1>. QED BY <1>1, <1>2

LEMMA TestTextsAreCovered == WindowsCover
<1>. SUFFICES ASSUME NEW n \in 0..7, NEW window \in 1..4, NEW overlap \in 0..5
              PROVE  LET text == [i \in 1..n |-> i]
                         chunks == WindowChunks(text, window, overlap)
                         shared == IF overlap < window THEN overlap ELSE window - 1
                     IN  /\ UNION {ToSet(chunks[c]) : c \in DOMAIN chunks} = 1..n
                         /\ Len(chunks) <= n
                         /\ \A c \in DOMAIN chunks :
                               /\ Len(chunks[c]) \in 1..window
                               /\ chunks[c] = SubSeq(text, chunks[c][1], chunks[c][1] + Len(chunks[c]) - 1)
                               /\ c > 1 => /\ Last(chunks[c - 1]) < Last(chunks[c])
                                           /\ Last(chunks[c - 1]) - chunks[c][1] + 1 = shared
    BY DEF WindowsCover
<1>. DEFINE text == [i \in 1..n |-> i]
            chunks == WindowChunks(text, window, overlap)
            shared == IF overlap < window THEN overlap ELSE window - 1
<1>1. n \in Nat /\ window \in Nat \ {0} /\ overlap \in Nat
    OBVIOUS
<1>2. text \in Seq(Nat) /\ Len(text) = n /\ DOMAIN text = 1..n
    BY <1>1
<1>3. ToSet(text) = 1..n
    BY DEF ToSet
<1>4. UNION {ToSet(chunk) : chunk \in ToSet(chunks)} = 1..n
    <2>. HIDE DEF text
    <2>. QED BY <1>1, <1>2, <1>3, ChunksHoldAll
<1>5. ToSet(chunks) = {chunks[c] : c \in DOMAIN chunks}
    BY DEF ToSet
<1>6. UNION {ToSet(chunks[c]) : c \in DOMAIN chunks} = 1..n
    <2>. HIDE DEF chunks
    <2>1. UNION {ToSet(chunk) : chunk \in ToSet(chunks)} = UNION {ToSet(chunks[c]) : c \in DOMAIN chunks}
        BY <1>5
    <2>. QED BY <1>4, <2>1
<1>7. CASE n = 0
    <2>1. chunks = <<>>
        BY <1>2, <1>7 DEF WindowChunks
    <2>. HIDE DEF chunks
    <2>2. Len(chunks) <= n /\ DOMAIN chunks = {}
        BY <1>7, <2>1
    <2>. QED BY <1>6, <2>2 DEF chunks
<1>8. CASE n # 0
    <2>0. text # <<>>
        BY <1>2, <1>8
    <2>. HIDE DEF text, chunks
    <2>1. PICK count \in 1..n : \E first, last \in [1..count -> 1..n] :
              AreWindows(chunks, text, window, Shared(window, overlap), count, first, last)
        BY <1>1, <1>2, <2>0, ChunksAreWindows DEF chunks
    <2>2. PICK first \in [1..count -> 1..n], last \in [1..count -> 1..n] :
              AreWindows(chunks, text, window, Shared(window, overlap), count, first, last)
        BY <2>1
    <2>3. /\ chunks = [c \in 1..count |-> SubSeq(text, first[c], last[c])]
          /\ \A c \in 1..count : first[c] <= last[c] /\ last[c] - first[c] < window
          /\ \A c \in 1..(count - 1) : last[c] < last[c + 1] /\ last[c] - first[c + 1] + 1 = shared
        BY <2>2 DEF AreWindows, Shared
    <2>4. count \in Nat /\ DOMAIN chunks = 1..count /\ Len(chunks) = count /\ count <= n
        BY <1>1, <2>3
    <2>5. ASSUME NEW c \in 1..count
          PROVE  /\ Len(chunks[c]) = last[c] - first[c] + 1 /\ Len(chunks[c]) \in 1..window
                 /\ chunks[c] = SubSeq(text, first[c], last[c])
                 /\ chunks[c][1] = first[c] /\ Last(chunks[c]) = last[c]
        <3>. DEFINE a == first[c]
                    b == last[c]
                    k == b - a + 1
        <3>1. a \in 1..n /\ b \in 1..n /\ a <= b /\ b - a < window /\ chunks[c] = SubSeq(text, a, b)
            BY <2>3
        <3>. HIDE DEF a, b
        <3>2. k \in Nat /\ 1 <= k /\ k <= window /\ k \in 1..window
            BY <1>1, <3>1
        <3>3. SubSeq(text, a, b) = [i \in 1..k |-> a + i - 1]
            <4>1. SubSeq(text, a, b) = [i \in 1..k |-> text[a + i - 1]]
                BY <1>2, <3>1
            <4>2. \A i \in 1..k : a + i - 1 \in 1..n
                BY <1>1, <3>1
            <4>3. \A i \in 1..k : text[a + i - 1] = a + i - 1
                BY <4>2 DEF text
            <4>. HIDE DEF k
            <4>. QED BY <4>1, <4>3
        <3>4. a + k - 1 = b /\ a + 1 - 1 = a
            BY <1>1, <3>1
        <3>. HIDE DEF k
        <3>5. Len(chunks[c]) = k /\ chunks[c][1] = a /\ chunks[c][k] = b
            BY <3>1, <3>2, <3>3, <3>4
        <3>. QED BY <3>1, <3>2, <3>5 DEF Last, a, b, k
    <2>6. ASSUME NEW c \in 1..count
          PROVE  chunks[c] = SubSeq(text, chunks[c][1], chunks[c][1] + Len(chunks[c]) - 1)
        <3>1. first[c] \in 1..n /\ last[c] \in 1..n
            OBVIOUS
        <3>2. first[c] + (last[c] - first[c] + 1) - 1 = last[c]
            BY <1>1, <3>1
        <3>. QED BY <2>5, <3>2
    <2>7. ASSUME NEW c \in 1..count, c > 1
          PROVE  /\ Last(chunks[c - 1]) < Last(chunks[c])
                 /\ Last(chunks[c - 1]) - chunks[c][1] + 1 = shared
        <3>1. c - 1 \in 1..(count - 1) /\ c - 1 \in 1..count /\ (c - 1) + 1 = c
            BY <2>4, <2>7
        <3>2. last[c - 1] < last[c] /\ last[c - 1] - first[c] + 1 = shared
            BY <2>3, <3>1
        <3>. QED BY <2>5, <3>1, <3>2
    <2>. QED BY <1>6, <2>4, <2>5, <2>6, <2>7 DEF text, chunks
<1>. QED BY <1>7, <1>8

-------------------------------------------------------------------------------
(* Each document has a key of one of the two kinds, a visit it stems from, *)
(* an entry and a licence if it comes from outside, and finitely many      *)
(* chunks.                                                                 *)
DocumentsSound ==
    /\ IsFiniteSet(DOMAIN corpus)
    /\ \A k \in DOMAIN corpus :
          /\ k \in DOMAIN visited
          /\ k[1] \in {"object", "url"}
          /\ k[1] = "url" => corpus[k].licence # None /\ visited[k].said \in Entry
          /\ IsFiniteSet(DOMAIN corpus[k].chunks)

VersionsExist ==
    /\ version = [x \in Sources |-> version[x]]
    /\ \A x \in Sources : version[x] \in 1..Len(Versions[x])

LandingInv == VersionsExist /\ DocumentsSound /\ VisitedIsCurrent

-------------------------------------------------------------------------------
(* What a visit lands is a function of the hash, but for a manifest        *)
(* entry's licence and scope: skipping an unchanged record loses no more.  *)
LEMMA HashCovers ==
    ASSUME NEW r, NEW q, RowHash(r) = RowHash(q), NEW names
    PROVE  LandRow(r, names) = LandRow(q, names)
BY DEF RowHash, LandRow

EntryDocument(e, licence, inScope) ==
    [hash |-> EntryHash(e), title |-> e.title, maker |-> <<>>, details |-> <<>>,
     metadata |-> <<>>, licence |-> licence, material |-> None,
     sensitivity |-> "public", inScope |-> inScope,
     chunks |-> WindowChunks(e.body, Window, Overlap)]

LEMMA EntryExcept ==
    ASSUME NEW e, NEW l, NEW s
    PROVE  [LandEntry(e) EXCEPT !.licence = l, !.inScope = s] = EntryDocument(e, l, s)
<1>. DEFINE doc == LandEntry(e)
            once == [doc EXCEPT !.licence = l]
<1>1. doc = EntryDocument(e, e.licence, e.inScope)
    BY DEF LandEntry, EntryDocument
<1>. HIDE DEF doc
<1>2. once = EntryDocument(e, l, e.inScope)
    BY <1>1 DEF EntryDocument
<1>. HIDE DEF once
<1>3. [once EXCEPT !.inScope = s] = EntryDocument(e, l, s)
    BY <1>2 DEF EntryDocument
<1>. QED BY <1>3 DEF once, doc

LEMMA EntryLands ==
    ASSUME NEW e
    PROVE  /\ LandEntry(e) = EntryDocument(e, LandEntry(e).licence, LandEntry(e).inScope)
           /\ LandEntry(e).licence = e.licence
BY DEF LandEntry, EntryDocument

LEMMA RowLands ==
    ASSUME NEW r, NEW names
    PROVE  LandRow(r, names).hash = RowHash(r)
BY DEF LandRow

LEMMA EntryHashCovers ==
    ASSUME NEW e, NEW d, EntryHash(e) = EntryHash(d), NEW l, NEW s
    PROVE  EntryDocument(e, l, s) = EntryDocument(d, l, s)
<1>1. e.body = d.body /\ e.title = d.title
    BY DEF EntryHash
<1>. QED BY <1>1 DEF EntryDocument

(* Rows and entries land with finitely many chunks.                        *)
LEMMA RowChunks ==
    ASSUME NEW r, NEW names
    PROVE  IsFiniteSet(DOMAIN LandRow(r, names).chunks)
<1>1. \A parts : DOMAIN Compose(parts) = {} \/ DOMAIN Compose(parts) = {1}
    <2>. SUFFICES ASSUME NEW parts
                  PROVE  DOMAIN Compose(parts) = {} \/ DOMAIN Compose(parts) = {1}
        OBVIOUS
    <2>. DEFINE text == FoldLeft(LAMBDA t, part : t \o <<Break>> \o part, Head(parts), Tail(parts))
    <2>1. Compose(parts) = IF parts = <<>> THEN <<>> ELSE <<text>>
        BY DEF Compose
    <2>. HIDE DEF text
    <2>. QED BY <2>1
<1>. QED BY <1>1, FS_EmptySet, FS_Singleton DEF LandRow

LEMMA EntryChunks ==
    ASSUME NEW e \in Entry
    PROVE  IsFiniteSet(DOMAIN LandEntry(e).chunks)
<1>. DEFINE n == Len(e.body)
            step == IF Window > Overlap THEN Window - Overlap ELSE 1
            count == IF n <= Window THEN 1 ELSE 1 + (n - Window + step - 1) \div step
<1>1. n \in Nat /\ Window \in Nat /\ Overlap \in Nat
    BY LandingAssumption DEF Entry, Text
<1>2. step \in Nat \ {0}
    BY <1>1
<1>. HIDE DEF n, step
<1>3. count \in Int
    BY <1>1, <1>2
<1>. HIDE DEF count
<1>4. DOMAIN LandEntry(e).chunks = {} \/ DOMAIN LandEntry(e).chunks = 1..count
    BY DEF LandEntry, WindowChunks, n, step, count
<1>5. IsFiniteSet(1..count)
    BY <1>3, FS_Interval
<1>6. IsFiniteSet({})
    BY FS_EmptySet
<1>. QED BY <1>4, <1>5, <1>6

-------------------------------------------------------------------------------
(* A job that reads saying, and lands docs for the keys that are new or    *)
(* whose hash has changed, keeps the corpus current and sound.             *)
LEMMA UpsertKeeps ==
    ASSUME LandingInv, NEW saying, NEW docs, NEW names, NEW hash,
           Upsert(saying, docs, names),
           DOMAIN docs = Changed(saying, hash), IsFiniteSet(DOMAIN saying),
           \A k \in DOMAIN saying : \/ /\ k[1] = "object"
                                       /\ hash[k] = RowHash(saying[k])
                                       /\ k \in DOMAIN docs => docs[k] = LandRow(saying[k], names)
                                    \/ /\ k[1] = "url"
                                       /\ hash[k] = EntryHash(saying[k])
                                       /\ saying[k] \in Entry /\ Complete(saying[k])
                                       /\ k \in DOMAIN docs => docs[k] = LandEntry(saying[k])
    PROVE  LandingInv'
<1>1. /\ corpus' = [k \in DOMAIN docs \cup DOMAIN corpus |->
                       IF k \in DOMAIN docs THEN docs[k] ELSE corpus[k]]
      /\ visited' = [k \in DOMAIN saying \cup DOMAIN visited |->
                       IF k \notin DOMAIN saying THEN visited[k]
                       ELSE [said |-> saying[k],
                             under |-> IF k \in DOMAIN docs THEN names ELSE visited[k].under]]
      /\ version' = version
    BY DEF Upsert
<1>2. DOMAIN docs \subseteq DOMAIN saying
    BY DEF Changed
<1>3. DOMAIN corpus' = DOMAIN docs \cup DOMAIN corpus
    BY <1>1
<1>4. VersionsExist'
    BY <1>1 DEF LandingInv, VersionsExist
<1>5. IsFiniteSet(DOMAIN corpus')
    <2>1. IsFiniteSet(DOMAIN docs)
        BY <1>2, FS_Subset
    <2>2. IsFiniteSet(DOMAIN corpus)
        BY DEF LandingInv, DocumentsSound
    <2>3. IsFiniteSet(DOMAIN docs \cup DOMAIN corpus)
        BY <2>1, <2>2, FS_Union
    <2>. QED BY <1>3, <2>3
<1>6. ASSUME NEW k \in DOMAIN corpus'
      PROVE  /\ k \in DOMAIN visited' /\ k[1] \in {"object", "url"}
             /\ k[1] = "url" => corpus'[k].licence # None /\ visited'[k].said \in Entry
             /\ IsFiniteSet(DOMAIN corpus'[k].chunks)
    <2>1. CASE k \in DOMAIN docs
        <3>1. /\ corpus'[k] = docs[k] /\ k \in DOMAIN visited' /\ k \in DOMAIN saying
              /\ visited'[k].said = saying[k]
            BY <1>1, <1>2, <2>1
        <3>2. CASE k[1] = "object"
            BY <2>1, <3>1, <3>2, RowChunks
        <3>3. CASE k[1] = "url"
            <4>1. docs[k] = LandEntry(saying[k]) /\ saying[k] \in Entry /\ Complete(saying[k])
                BY <2>1, <3>1, <3>3
            <4>2. IsFiniteSet(DOMAIN docs[k].chunks)
                BY <4>1, EntryChunks
            <4>3. docs[k].licence # None
                BY <4>1 DEF LandEntry, Complete
            <4>. QED BY <3>1, <3>3, <4>2, <4>3
        <3>. QED BY <3>1, <3>2, <3>3
    <2>2. CASE k \notin DOMAIN docs
        <3>1. k \in DOMAIN corpus /\ corpus'[k] = corpus[k]
            BY <1>1, <1>3, <2>2
        <3>2. k \in DOMAIN visited'
            BY <1>1, <3>1 DEF LandingInv, DocumentsSound
        <3>3. k[1] = "url" => visited'[k].said \in Entry
            <4>1. CASE k \in DOMAIN saying
                <5>1. visited'[k].said = saying[k]
                    BY <1>1, <4>1
                <5>. QED BY <4>1, <5>1
            <4>2. CASE k \notin DOMAIN saying
                <5>1. visited'[k] = visited[k]
                    BY <1>1, <3>1, <4>2 DEF LandingInv, DocumentsSound
                <5>. QED BY <3>1, <5>1 DEF LandingInv, DocumentsSound
            <4>. QED BY <4>1, <4>2
        <3>. QED BY <3>1, <3>2, <3>3 DEF LandingInv, DocumentsSound
    <2>. QED BY <2>1, <2>2
<1>7. ASSUME NEW k \in DOMAIN corpus'
      PROVE  IF k[1] = "object" THEN corpus'[k] = LandRow(visited'[k].said, visited'[k].under)
             ELSE corpus'[k] = EntryDocument(visited'[k].said, corpus'[k].licence, corpus'[k].inScope)
    <2>1. CASE k \in DOMAIN docs
        <3>1. /\ corpus'[k] = docs[k] /\ k \in DOMAIN saying
              /\ visited'[k].said = saying[k] /\ visited'[k].under = names
            BY <1>1, <1>2, <2>1
        <3>2. CASE k[1] = "object"
            BY <2>1, <3>1, <3>2
        <3>3. CASE k[1] = "url"
            <4>1. docs[k] = LandEntry(saying[k])
                BY <2>1, <3>1, <3>3
            <4>. QED BY <3>1, <3>3, <4>1, EntryLands
        <3>. QED BY <2>1, <3>1, <3>2, <3>3
    <2>2. CASE k \notin DOMAIN docs /\ k \notin DOMAIN saying
        <3>1. k \in DOMAIN corpus /\ corpus'[k] = corpus[k] /\ visited'[k] = visited[k]
            BY <1>1, <1>3, <2>2 DEF LandingInv, DocumentsSound
        <3>. QED BY <3>1, EntryExcept DEF LandingInv, VisitedIsCurrent
    <2>3. CASE k \notin DOMAIN docs /\ k \in DOMAIN saying
        <3>1. /\ k \in DOMAIN corpus /\ corpus'[k] = corpus[k] /\ corpus[k].hash = hash[k]
              /\ visited'[k].said = saying[k] /\ visited'[k].under = visited[k].under
            BY <1>1, <1>3, <2>3 DEF Changed
        <3>2. CASE k[1] = "object"
            <4>1. corpus[k] = LandRow(visited[k].said, visited[k].under)
                BY <3>1, <3>2 DEF LandingInv, VisitedIsCurrent
            <4>2. RowHash(visited[k].said) = RowHash(saying[k])
                BY <2>3, <3>1, <3>2, <4>1, RowLands
            <4>. QED BY <3>1, <3>2, <4>1, <4>2, HashCovers
        <3>3. CASE k[1] = "url"
            <4>1. corpus[k] = EntryDocument(visited[k].said, corpus[k].licence, corpus[k].inScope)
                BY <3>1, <3>3, EntryExcept DEF LandingInv, VisitedIsCurrent
            <4>2. EntryHash(visited[k].said) = EntryHash(saying[k])
                BY <2>3, <3>1, <3>3, <4>1 DEF EntryDocument
            <4>. QED BY <3>1, <3>3, <4>1, <4>2, EntryHashCovers
        <3>. QED BY <2>3, <3>2, <3>3
    <2>. QED BY <2>1, <2>2, <2>3
<1>8. DocumentsSound'
    BY <1>5, <1>6 DEF DocumentsSound
<1>9. VisitedIsCurrent'
    BY <1>7, EntryExcept DEF VisitedIsCurrent
<1>. QED BY <1>4, <1>8, <1>9 DEF LandingInv

LEMMA CatalogueKeeps ==
    ASSUME LandingInv, NEW failing, IngestCatalogue(failing)
    PROVE  LandingInv'
<1>. DEFINE names == DonorsOfCatalogue \cup blocked
            keys == {RowKey(x) : x \in Rows \ failing}
            saying == [k \in keys |-> Versions[k[2]][version[k[2]]]]
            hash == [k \in DOMAIN saying |-> RowHash(saying[k])]
            docs == [k \in Changed(saying, hash) |-> LandRow(saying[k], names)]
<1>1. Upsert(saying, docs, names)
    BY DEF IngestCatalogue
<1>2. IsFiniteSet(keys)
    <2>1. IsFiniteSet(Rows \ failing)
        BY LandingAssumption, FS_Subset
    <2>. DEFINE f == [x \in Rows \ failing |-> RowKey(x)]
    <2>2. IsFiniteSet({f[x] : x \in Rows \ failing})
        BY <2>1, ImageIsFinite
    <2>3. keys = {f[x] : x \in Rows \ failing}
        OBVIOUS
    <2>. QED BY <2>2, <2>3
<1>3. \A k \in keys : k[1] = "object"
    BY DEF RowKey
<1>4. DOMAIN saying = keys /\ DOMAIN docs = Changed(saying, hash)
    OBVIOUS
<1>5. \A k \in keys : hash[k] = RowHash(saying[k])
    OBVIOUS
<1>6. \A k \in DOMAIN docs : docs[k] = LandRow(saying[k], names)
    OBVIOUS
<1>. HIDE DEF saying, hash, docs, names, keys
<1>. QED BY <1>1, <1>2, <1>3, <1>4, <1>5, <1>6, UpsertKeeps

LEMMA ManifestKeeps ==
    ASSUME LandingInv, NEW failing, IngestManifest(failing)
    PROVE  LandingInv'
<1>. DEFINE read == {Versions[x][version[x]] : x \in Entries \ failing}
            keys == {EntryKey(e) : e \in {e \in read : Complete(e)}}
            saying == [k \in keys |-> CHOOSE e \in read : Complete(e) /\ EntryKey(e) = k]
            hash == [k \in DOMAIN saying |-> EntryHash(saying[k])]
            docs == [k \in Changed(saying, hash) |-> LandEntry(saying[k])]
<1>1. Upsert(saying, docs, {})
    BY DEF IngestManifest
<1>2. IsFiniteSet(keys)
    <2>1. IsFiniteSet(Entries \ failing)
        BY LandingAssumption, FS_Subset
    <2>. DEFINE f == [x \in Entries \ failing |-> Versions[x][version[x]]]
                g == [e \in read |-> EntryKey(e)]
    <2>2. IsFiniteSet({f[x] : x \in Entries \ failing})
        BY <2>1, ImageIsFinite
    <2>3. read = {f[x] : x \in Entries \ failing}
        OBVIOUS
    <2>4. IsFiniteSet(read)
        BY <2>2, <2>3
    <2>. HIDE DEF read, g
    <2>5. IsFiniteSet({g[e] : e \in read})
        BY <2>4, ImageIsFinite
    <2>. USE DEF g
    <2>6. keys \subseteq {g[e] : e \in read}
        OBVIOUS
    <2>. QED BY <2>5, <2>6, FS_Subset
<1>3. read \subseteq Entry
    <2>. SUFFICES ASSUME NEW x \in Entries PROVE Versions[x][version[x]] \in Entry
        OBVIOUS
    <2>1. Versions[x] \in Seq(Entry)
        BY LandingAssumption
    <2>2. version[x] \in 1..Len(Versions[x])
        BY DEF LandingInv, VersionsExist, Sources
    <2>. QED BY <2>1, <2>2
<1>. HIDE DEF read
<1>4. ASSUME NEW k \in keys
      PROVE  saying[k] \in read /\ Complete(saying[k]) /\ EntryKey(saying[k]) = k
    <2>1. \E e \in read : Complete(e) /\ EntryKey(e) = k
        OBVIOUS
    <2>. QED BY <2>1
<1>5. \A k \in keys : k[1] = "url"
    BY DEF EntryKey
<1>6. DOMAIN saying = keys /\ DOMAIN docs = Changed(saying, hash)
    OBVIOUS
<1>7. \A k \in keys : hash[k] = EntryHash(saying[k])
    OBVIOUS
<1>8. \A k \in DOMAIN docs : docs[k] = LandEntry(saying[k])
    OBVIOUS
<1>. HIDE DEF saying, hash, docs, keys
<1>. QED BY <1>1, <1>2, <1>3, <1>4, <1>5, <1>6, <1>7, <1>8, UpsertKeeps

LEMMA LandingStep ==
    ASSUME LandingInv, LandingNext \/ UNCHANGED landing
    PROVE  LandingInv'
<1>1. CASE \E failing \in SUBSET Rows : IngestCatalogue(failing)
    BY <1>1, CatalogueKeeps
<1>2. CASE \E failing \in SUBSET Entries : IngestManifest(failing)
    BY <1>2, ManifestKeeps
<1>3. CASE \E x \in Sources : Edit(x)
    <2>1. PICK x \in Sources : Edit(x)
        BY <1>3
    <2>2. Versions[x] \in Seq(Row) \/ Versions[x] \in Seq(Entry)
        BY <2>1, LandingAssumption DEF Sources
    <2>3. Len(Versions[x]) \in Nat /\ version[x] \in 1..Len(Versions[x])
        BY <2>2 DEF LandingInv, VersionsExist
    <2>4. version' = [version EXCEPT ![x] = version[x] + 1] /\ version[x] < Len(Versions[x])
        BY <2>1 DEF Edit
    <2>5. VersionsExist'
        BY <2>3, <2>4 DEF LandingInv, VersionsExist
    <2>6. corpus' = corpus /\ visited' = visited
        BY <2>1 DEF Edit
    <2>. QED BY <2>5, <2>6 DEF LandingInv, DocumentsSound, VisitedIsCurrent
<1>4. CASE \E name \in Extra : Block(name)
    BY <1>4 DEF Block, LandingInv, VersionsExist, DocumentsSound, VisitedIsCurrent
<1>5. CASE UNCHANGED landing
    BY <1>5 DEF landing, LandingInv, VersionsExist, DocumentsSound, VisitedIsCurrent
<1>. QED BY <1>1, <1>2, <1>3, <1>4, <1>5 DEF LandingNext

LEMMA LandingStart == LandingInit => LandingInv
<1>. SUFFICES ASSUME LandingInit PROVE LandingInv
    OBVIOUS
<1>1. version = [x \in Sources |-> 1] /\ DOMAIN corpus = {}
    BY DEF LandingInit
<1>2. \A x \in Sources : Len(Versions[x]) \in Nat /\ Len(Versions[x]) >= 1
    BY LandingAssumption DEF Sources
<1>. QED BY <1>1, <1>2, FS_EmptySet DEF LandingInv, VersionsExist, DocumentsSound, VisitedIsCurrent

-------------------------------------------------------------------------------
(* A document of the catalogue stems from a row and was redacted for names *)
(* that the sources or the block list hold; one of the manifest for none.  *)
NamesInv ==
    /\ blocked \subseteq Extra
    /\ \A k \in DOMAIN corpus :
          IF k[1] = "object" THEN visited[k].said \in Row /\ visited[k].under \subseteq Names
          ELSE visited[k].under = {}

LEMMA UpsertKeepsNames ==
    ASSUME LandingInv, NamesInv, NEW saying, NEW docs, NEW names, Upsert(saying, docs, names),
           DOMAIN docs \subseteq DOMAIN saying,
           \/ names \subseteq Names /\ \A k \in DOMAIN saying : k[1] = "object" /\ saying[k] \in Row
           \/ names = {} /\ \A k \in DOMAIN saying : k[1] = "url"
    PROVE  NamesInv'
<1>. DEFINE later(k) == [said |-> saying[k],
                         under |-> IF k \in DOMAIN docs THEN names ELSE visited[k].under]
<1>1. /\ DOMAIN corpus' = DOMAIN docs \cup DOMAIN corpus
      /\ visited' = [k \in DOMAIN saying \cup DOMAIN visited |->
                        IF k \notin DOMAIN saying THEN visited[k] ELSE later(k)]
      /\ blocked' = blocked
    BY DEF Upsert
<1>. HIDE DEF later
<1>2. ASSUME NEW k \in DOMAIN corpus'
      PROVE  IF k[1] = "object" THEN visited'[k].said \in Row /\ visited'[k].under \subseteq Names
             ELSE visited'[k].under = {}
    <2>1. CASE k \in DOMAIN saying
        <3>1. visited'[k].said = saying[k]
              /\ visited'[k].under = IF k \in DOMAIN docs THEN names ELSE visited[k].under
            BY <1>1, <2>1 DEF later
        <3>2. CASE k \in DOMAIN docs
            BY <2>1, <3>1, <3>2
        <3>3. CASE k \notin DOMAIN docs
            <4>1. k \in DOMAIN corpus
                BY <1>1, <3>3
            <4>. QED BY <2>1, <3>1, <3>3, <4>1 DEF NamesInv
        <3>. QED BY <3>2, <3>3
    <2>2. CASE k \notin DOMAIN saying
        <3>1. k \in DOMAIN corpus
            BY <1>1, <2>2
        <3>2. k \in DOMAIN visited
            BY <3>1 DEF LandingInv, DocumentsSound
        <3>3. visited'[k] = visited[k]
            BY <1>1, <2>2, <3>2
        <3>. QED BY <3>1, <3>3 DEF NamesInv
    <2>. QED BY <2>1, <2>2
<1>. QED BY <1>1, <1>2 DEF NamesInv

LEMMA RowRead ==
    ASSUME LandingInv, NEW x \in Rows
    PROVE  /\ Versions[x][version[x]] \in Row
           /\ Versions[x][version[x]].donors \subseteq Names
<1>1. Versions[x] \in Seq(Row)
    BY LandingAssumption
<1>2. version[x] \in 1..Len(Versions[x])
    BY DEF LandingInv, VersionsExist, Sources
<1>3. version[x] \in DOMAIN Versions[x]
    BY <1>1, <1>2
<1>. QED BY <1>1, <1>2, <1>3 DEF Names

LEMMA NamesStep ==
    ASSUME LandingInv, NamesInv, LandingNext \/ UNCHANGED landing
    PROVE  NamesInv'
<1>1. ASSUME NEW failing, IngestCatalogue(failing) PROVE NamesInv'
    <2>. DEFINE names == DonorsOfCatalogue \cup blocked
                saying == [k \in {RowKey(x) : x \in Rows \ failing} |->
                              Versions[k[2]][version[k[2]]]]
                hash == [k \in DOMAIN saying |-> RowHash(saying[k])]
                docs == [k \in Changed(saying, hash) |-> LandRow(saying[k], names)]
    <2>1. Upsert(saying, docs, names)
        BY <1>1 DEF IngestCatalogue
    <2>2. names \subseteq Names
        <3>1. blocked \subseteq Names
            BY DEF NamesInv, Names
        <3>2. DonorsOfCatalogue \subseteq Names
            BY RowRead DEF DonorsOfCatalogue
        <3>. QED BY <3>1, <3>2
    <2>3. ASSUME NEW k \in DOMAIN saying PROVE k[1] = "object" /\ saying[k] \in Row
        <3>1. PICK x \in Rows \ failing : k = RowKey(x)
            OBVIOUS
        <3>2. k[1] = "object" /\ k[2] = x
            BY <3>1 DEF RowKey
        <3>3. saying[k] = Versions[x][version[x]]
            BY <3>2
        <3>. QED BY <3>2, <3>3, RowRead
    <2>4. DOMAIN docs \subseteq DOMAIN saying
        BY DEF Changed
    <2>. HIDE DEF saying, docs, names
    <2>. QED BY <2>1, <2>2, <2>3, <2>4, UpsertKeepsNames
<1>2. ASSUME NEW failing, IngestManifest(failing) PROVE NamesInv'
    <2>. DEFINE read == {Versions[x][version[x]] : x \in Entries \ failing}
                saying == [k \in {EntryKey(e) : e \in {e \in read : Complete(e)}} |->
                              CHOOSE e \in read : Complete(e) /\ EntryKey(e) = k]
                hash == [k \in DOMAIN saying |-> EntryHash(saying[k])]
                docs == [k \in Changed(saying, hash) |-> LandEntry(saying[k])]
    <2>1. Upsert(saying, docs, {})
        BY <1>2 DEF IngestManifest
    <2>2. \A k \in DOMAIN saying : k[1] = "url"
        BY DEF EntryKey
    <2>3. DOMAIN docs \subseteq DOMAIN saying
        BY DEF Changed
    <2>. HIDE DEF saying, docs
    <2>. QED BY <2>1, <2>2, <2>3, UpsertKeepsNames
<1>3. ASSUME NEW x, Edit(x) PROVE NamesInv'
    BY <1>3 DEF Edit, NamesInv
<1>4. ASSUME NEW name \in Extra, Block(name) PROVE NamesInv'
    BY <1>4 DEF Block, NamesInv
<1>5. CASE UNCHANGED landing
    BY <1>5 DEF landing, NamesInv
<1>. QED BY <1>1, <1>2, <1>3, <1>4, <1>5 DEF LandingNext

LEMMA NamesStart == LandingInit => NamesInv
BY DEF LandingInit, NamesInv

LEMMA DocumentsHideNames ==
    ASSUME LandingInv, NamesInv
    PROVE  RedactionIsComplete
<1>. SUFFICES ASSUME NEW k \in DOMAIN corpus, NEW t \in Terms(visited[k].under),
                     NEW text \in ToSet(corpus[k].chunks) \cup {corpus[k].title, corpus[k].maker}
              PROVE  Free(t, text)
    BY TestTextsAreRedacted DEF RedactionIsComplete, Free
<1>1. CASE k[1] = "object"
    <2>1. visited[k].said \in Row
          /\ visited[k].under \subseteq Seq(DOMAIN Letters \ {Redacted, Break})
        BY <1>1, PlainNames DEF NamesInv
    <2>2. corpus[k] = LandRow(visited[k].said, visited[k].under)
        BY <1>1 DEF LandingInv, VisitedIsCurrent
    <2>. QED BY <2>1, <2>2, RowHidesNames
<1>2. CASE k[1] # "object"
    <2>1. visited[k].under = {}
        BY <1>2 DEF NamesInv
    <2>. QED BY <2>1 DEF Terms
<1>. QED BY <1>1, <1>2

-------------------------------------------------------------------------------
(* The gates: a document that a search may find is public by its record.   *)
LEMMA FirstKeyword ==
    ASSUME NEW mentions, "passenger_list" \in mentions
    PROVE  MaterialOf(mentions) = "passenger_list"
<1>. DEFINE found == {i \in DOMAIN Keywords : Keywords[i] \in mentions}
<1>1. 1 \in found /\ found \subseteq 1..4 /\ Keywords[1] = "passenger_list"
    BY DEF Keywords
<1>. HIDE DEF found
<1>2. \A x \in found : 1 <= x
    BY <1>1
<1>3. \A x \in found : (\A y \in found : x <= y) => x = 1
    BY <1>1, <1>2
<1>4. Min(found) \in found /\ \A y \in found : Min(found) <= y
    BY <1>1, <1>2 DEF Min
<1>5. Min(found) = 1
    BY <1>3, <1>4
<1>6. MaterialOf(mentions) = IF found = {} THEN None ELSE Keywords[Min(found)]
    BY DEF MaterialOf, found
<1>. QED BY <1>1, <1>5, <1>6

LEMMA RetrievableIsPublic ==
    ASSUME LandingInv, NEW k \in DOMAIN corpus, Retrievable(corpus[k])
    PROVE  PublicRecord(k)
<1>. DEFINE said == visited[k].said
            names == visited[k].under
<1>1. CASE k[1] = "url"
    BY <1>1 DEF PublicRecord, LandingInv, DocumentsSound
<1>2. CASE k[1] = "object"
    <2>1. corpus[k] = LandRow(said, names)
        BY <1>2 DEF LandingInv, VisitedIsCurrent
    <2>2. /\ LandRow(said, names).inScope <=>
                 Or(said.bookShip, ShipOf(said.vessel)) \in {"ship_i", "ship_ii"}
          /\ LandRow(said, names).sensitivity =
                 IF Or(said.bookMaterial, MaterialOf(said.mentions)) = "passenger_list"
                 THEN "passenger_archival" ELSE "public"
        BY DEF LandRow, NormalizeRow
    <2>3. Or(said.bookMaterial, MaterialOf(said.mentions)) # "passenger_list"
        BY <2>1, <2>2 DEF Retrievable
    <2>4. Or(said.bookShip, ShipOf(said.vessel)) \in {"ship_i", "ship_ii"}
        BY <2>1, <2>2 DEF Retrievable
    <2>5. /\ said.bookMaterial # "passenger_list"
          /\ said.bookMaterial = None => "passenger_list" \notin said.mentions
        BY <2>3, FirstKeyword DEF Or, None
    <2>. HIDE DEF said
    <2>6. /\ said.bookShip # None => said.bookShip \in {"ship_i", "ship_ii"}
          /\ said.bookShip = None => ShipOf(said.vessel) \in {"ship_i", "ship_ii"}
        BY <2>4 DEF Or
    <2>. DEFINE ships ==
             IF said.bookShip # None THEN {said.bookShip}
             ELSE IF {"scotland", "hanseatic"} \cap said.vessel # {} THEN {"ship_ii"}
             ELSE IF "empress of japan" \in said.vessel THEN
                {s \in {"ship_i", "ship_ii"} :
                    (IF s = "ship_i" THEN "(i)" ELSE "(ii)") \in said.vessel}
             ELSE {}
    <2>7. ships \cap {"ship_i", "ship_ii"} # {}
        <3>1. CASE said.bookShip # None
            BY <2>6, <3>1
        <3>2. CASE said.bookShip = None
            BY <2>6, <3>2 DEF ShipOf
        <3>. QED BY <3>1, <3>2
    <2>. QED BY <1>2, <2>5, <2>7 DEF PublicRecord, said
<1>. QED BY <1>1, <1>2 DEF LandingInv, DocumentsSound

LEMMA ChunksAreFinite ==
    ASSUME LandingInv
    PROVE  IsFiniteSet(RetrievableChunks)
<1>. DEFINE keys == {k \in DOMAIN corpus : Retrievable(corpus[k])}
            chunk(k, i) == [document |-> k, index |-> i, content |-> corpus[k].chunks[i],
                            title |-> corpus[k].title]
            of == [k \in keys |-> {chunk(k, i) : i \in DOMAIN corpus[k].chunks}]
<1>1. IsFiniteSet(keys)
    BY FS_Subset DEF LandingInv, DocumentsSound
<1>2. \A k \in keys : IsFiniteSet(of[k])
    <2>. SUFFICES ASSUME NEW k \in keys PROVE IsFiniteSet(of[k])
        OBVIOUS
    <2>. DEFINE f == [i \in DOMAIN corpus[k].chunks |-> chunk(k, i)]
    <2>1. IsFiniteSet(DOMAIN corpus[k].chunks)
        BY DEF LandingInv, DocumentsSound
    <2>. HIDE DEF f
    <2>2. IsFiniteSet({f[i] : i \in DOMAIN corpus[k].chunks})
        BY <2>1, ImageIsFinite
    <2>3. of[k] = {f[i] : i \in DOMAIN corpus[k].chunks}
        BY DEF f
    <2>. QED BY <2>2, <2>3
<1>3. RetrievableChunks = UNION {of[k] : k \in keys}
    BY DEF RetrievableChunks
<1>. HIDE DEF of
<1>4. IsFiniteSet({of[k] : k \in keys})
    BY <1>1, ImageIsFinite
<1>. HIDE DEF keys
<1>5. IsFiniteSet(UNION {of[k] : k \in keys})
    BY <1>2, <1>4, FS_UNION
<1>. QED BY <1>3, <1>5
===============================================================================
