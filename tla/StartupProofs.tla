--------------------------- MODULE StartupProofs ---------------------------
(***************************************************************************)
(* A process only starts with a sound configuration and never refuses one, *)
(* for any keys, files, variables and secrets; and the signatures of its   *)
(* KMS signer are right for every key, digest and nonce.                   *)
(***************************************************************************)
EXTENDS Startup, LifecycleProofs

-----------------------------------------------------------------------------
(* Sequences in order *)

\* The positions that come before a position, or are it, when keys are sorted.
UpTo(keys, i) == {j \in DOMAIN keys : keys[j] < keys[i] \/ (keys[j] = keys[i] /\ j <= i)}

\* A bijection is one to one and onto.
LEMMA BijectionIs ==
    ASSUME NEW S, NEW T, NEW f \in Bijection(S, T)
    PROVE  /\ f \in [S -> T]
           /\ \A i, j \in S : f[i] = f[j] => i = j
           /\ \A j \in T : \E i \in S : f[i] = j
BY DEF Bijection, Injection, IsInjective, Surjection

\* And what is, is one.
LEMMA BijectionIf ==
    ASSUME NEW S, NEW T, NEW f \in [S -> T],
           \A i, j \in S : f[i] = f[j] => i = j,
           \A j \in T : \E i \in S : f[i] = j
    PROVE  f \in Bijection(S, T)
BY DEF Bijection, Injection, IsInjective, Surjection

\* The positions of a sequence are finitely many.
LEMMA PositionsFinite ==
    ASSUME NEW S, NEW seq \in Seq(S)
    PROVE  /\ DOMAIN seq = 1 .. Len(seq) /\ Len(seq) \in Nat
           /\ IsFiniteSet(DOMAIN seq) /\ Cardinality(DOMAIN seq) = Len(seq)
<1>1. DOMAIN seq = 1 .. Len(seq) /\ Len(seq) \in Nat /\ Len(seq) \in Int /\ 1 \in Int
  OBVIOUS
<1>2. IsFiniteSet(1 .. Len(seq))
      /\ Cardinality(1 .. Len(seq)) = IF 1 > Len(seq) THEN 0 ELSE Len(seq) - 1 + 1
  BY <1>1, FS_Interval
<1> QED
  BY <1>1, <1>2

\* The order of positions is total: the position of one is smaller.
LEMMA RanksDiffer ==
    ASSUME NEW keys \in Seq(Nat), NEW i \in DOMAIN keys, NEW j \in DOMAIN keys,
           keys[i] < keys[j] \/ (keys[i] = keys[j] /\ i < j)
    PROVE  Cardinality(UpTo(keys, i)) < Cardinality(UpTo(keys, j))
<1>1. /\ DOMAIN keys = 1 .. Len(keys) /\ Len(keys) \in Nat
      /\ \A k \in DOMAIN keys : keys[k] \in Nat
  OBVIOUS
<1>2. IsFiniteSet(DOMAIN keys)
  BY PositionsFinite
<1>3. UpTo(keys, i) \subseteq UpTo(keys, j) /\ UpTo(keys, j) \subseteq DOMAIN keys
  BY <1>1 DEF UpTo
<1>4. j \in UpTo(keys, j) /\ j \notin UpTo(keys, i)
  BY <1>1 DEF UpTo
<1>5. IsFiniteSet(UpTo(keys, j))
  BY <1>2, <1>3, FS_Subset
<1> QED
  BY <1>3, <1>4, <1>5, FS_Subset, FS_CardinalityType

\* There is an order of the positions in which the keys are sorted.
LEMMA SortingOrder ==
    ASSUME NEW keys \in Seq(Nat)
    PROVE  \E p \in Bijection(DOMAIN keys, DOMAIN keys) :
               \A i, j \in DOMAIN keys : i < j => keys[p[i]] <= keys[p[j]]
<1> DEFINE D == DOMAIN keys
           rank == [i \in D |-> Cardinality(UpTo(keys, i))]
<1>1. D = 1 .. Len(keys) /\ Len(keys) \in Nat /\ \A k \in D : keys[k] \in Nat
  OBVIOUS
<1>2. IsFiniteSet(D) /\ Cardinality(D) = Len(keys)
  BY PositionsFinite
<1>3. ASSUME NEW i \in D PROVE rank[i] \in D
  <2>1. UpTo(keys, i) \subseteq D /\ i \in UpTo(keys, i)
    BY <1>1 DEF UpTo
  <2>2. IsFiniteSet(UpTo(keys, i)) /\ Cardinality(UpTo(keys, i)) <= Len(keys)
    BY <1>2, <2>1, FS_Subset
  <2>3. Cardinality(UpTo(keys, i)) \in Nat /\ Cardinality(UpTo(keys, i)) # 0
    BY <2>1, <2>2, FS_CardinalityType, FS_EmptySet
  <2> QED
    BY <1>1, <2>2, <2>3
<1>4. \A i, j \in D : keys[i] < keys[j] \/ (keys[i] = keys[j] /\ i < j) => rank[i] < rank[j]
  BY RanksDiffer
<1>5. rank \in [D -> D]
  BY <1>3
<1> HIDE DEF rank
<1>6. ASSUME NEW i \in D, NEW j \in D, rank[i] = rank[j] PROVE i = j
  <2>1. rank[i] \in Nat
    BY <1>1, <1>5
  <2>2. ~(rank[i] < rank[j]) /\ ~(rank[j] < rank[i])
    BY <1>6, <2>1
  <2> QED
    BY <1>1, <1>4, <2>2
<1>7. rank \in Injection(D, D)
  BY <1>5, <1>6 DEF Injection, IsInjective
<1>8. rank \in Surjection(D, D)
  BY <1>2, <1>7, FS_Injection
<1> DEFINE p == [m \in D |-> CHOOSE i \in D : rank[i] = m]
<1>9. ASSUME NEW m \in D PROVE p[m] \in D /\ rank[p[m]] = m
  BY <1>8, <1>9 DEF Surjection
<1>10. p \in [D -> D]
  BY <1>9
<1> HIDE DEF p
<1>11. p \in Injection(D, D)
  BY <1>9, <1>10 DEF Injection, IsInjective
<1>12. p \in Bijection(D, D)
  BY <1>2, <1>11, FS_Injection DEF Bijection
<1>13. ASSUME NEW i \in D, NEW j \in D, i < j PROVE keys[p[i]] <= keys[p[j]]
  <2>1. p[i] \in D /\ p[j] \in D /\ rank[p[i]] < rank[p[j]] /\ ~(rank[p[j]] < rank[p[i]])
    BY <1>1, <1>9, <1>13
  <2>2. ~(keys[p[j]] < keys[p[i]])
    BY <1>4, <2>1
  <2> QED
    BY <1>1, <2>1, <2>2
<1> QED
  BY <1>12, <1>13

\* Keys in order, and the positions a key has.
Ordered(seq) == \A i, j \in DOMAIN seq : i < j => seq[i] <= seq[j]
Positions(seq, k) == {i \in DOMAIN seq : seq[i] = k}

\* Sorting keeps the number of keys and sorts them.
LEMMA SortKeysOrders ==
    ASSUME NEW keys \in Seq(Nat)
    PROVE  /\ SortKeys(keys) \in Seq(Nat) /\ DOMAIN SortKeys(keys) = DOMAIN keys
           /\ Ordered(SortKeys(keys))
           /\ \E p \in Bijection(DOMAIN keys, DOMAIN keys) :
                  \A i \in DOMAIN keys : SortKeys(keys)[i] = keys[p[i]]
<1> DEFINE order == CHOOSE p \in Bijection(DOMAIN keys, DOMAIN keys) :
                        \A i, j \in DOMAIN keys : i < j => keys[p[i]] <= keys[p[j]]
<1>1. order \in Bijection(DOMAIN keys, DOMAIN keys)
      /\ \A i, j \in DOMAIN keys : i < j => keys[order[i]] <= keys[order[j]]
  BY SortingOrder
<1>2. SortKeys(keys) = [i \in DOMAIN keys |-> keys[order[i]]]
  BY DEF SortKeys
<1> HIDE DEF order
<1>3. order \in [DOMAIN keys -> DOMAIN keys]
  BY <1>1 DEF Bijection, Injection
<1>4. DOMAIN keys = 1 .. Len(keys) /\ Len(keys) \in Nat /\ \A k \in DOMAIN keys : keys[k] \in Nat
  OBVIOUS
<1>5. SortKeys(keys) \in [1 .. Len(keys) -> Nat]
  BY <1>2, <1>3, <1>4
<1>6. SortKeys(keys) \in Seq(Nat) /\ DOMAIN SortKeys(keys) = DOMAIN keys
  BY <1>4, <1>5
<1>7. \A i \in DOMAIN keys : SortKeys(keys)[i] = keys[order[i]]
  BY <1>2
<1> QED
  BY <1>1, <1>6, <1>7 DEF Ordered

\* A sequence and one rearranged have the same number of each key.
LEMMA SameCounts ==
    ASSUME NEW s \in Seq(Nat), NEW t \in Seq(Nat), NEW p \in Bijection(DOMAIN t, DOMAIN s),
           \A i \in DOMAIN t : t[i] = s[p[i]], NEW k
    PROVE  Cardinality(Positions(t, k)) = Cardinality(Positions(s, k))
<1>1. /\ p \in [DOMAIN t -> DOMAIN s]
      /\ \A i, j \in DOMAIN t : p[i] = p[j] => i = j
      /\ \A j \in DOMAIN s : \E i \in DOMAIN t : p[i] = j
  BY DEF Bijection, Injection, IsInjective, Surjection
<1> DEFINE q == [i \in Positions(t, k) |-> p[i]]
<1>2. q \in [Positions(t, k) -> Positions(s, k)]
  BY <1>1 DEF Positions
<1>3. \A i \in Positions(t, k) : q[i] = p[i]
  OBVIOUS
<1> HIDE DEF q
<1>4. q \in Injection(Positions(t, k), Positions(s, k))
  BY <1>1, <1>2, <1>3 DEF Injection, IsInjective, Positions
<1>5. q \in Surjection(Positions(t, k), Positions(s, k))
  BY <1>1, <1>2, <1>3 DEF Surjection, Positions
<1>6. IsFiniteSet(Positions(s, k))
  <2>1. IsFiniteSet(DOMAIN s) /\ Positions(s, k) \subseteq DOMAIN s
    BY PositionsFinite DEF Positions
  <2> QED
    BY <2>1, FS_Subset
<1> QED
  BY <1>4, <1>5, <1>6, FS_Injection

\* Sequences with the same number of each key are rearrangements.
LEMMA Rearranged ==
    ASSUME NEW s \in Seq(Nat), NEW t \in Seq(Nat),
           \A k \in ToSet(s) \cup ToSet(t) :
               Cardinality(Positions(t, k)) = Cardinality(Positions(s, k))
    PROVE  /\ Len(t) = Len(s)
           /\ \E p \in Bijection(DOMAIN t, DOMAIN s) : \A i \in DOMAIN t : t[i] = s[p[i]]
<1> DEFINE K == ToSet(s) \cup ToSet(t)
           g == [k \in K |-> CHOOSE f : f \in Bijection(Positions(t, k), Positions(s, k))]
           p == [i \in DOMAIN t |-> g[t[i]][i]]
<1>1. ASSUME NEW k \in K
      PROVE  g[k] \in Bijection(Positions(t, k), Positions(s, k))
  <2>1. /\ IsFiniteSet(DOMAIN s) /\ Positions(s, k) \subseteq DOMAIN s
        /\ IsFiniteSet(DOMAIN t) /\ Positions(t, k) \subseteq DOMAIN t
    BY PositionsFinite DEF Positions
  <2>2. IsFiniteSet(Positions(s, k)) /\ IsFiniteSet(Positions(t, k))
    BY <2>1, FS_Subset
  <2>3. ExistsBijection(Positions(t, k), Positions(s, k))
    BY <2>2, FS_SameCardinalityBij
  <2> QED
    BY <2>3 DEF ExistsBijection
<1> HIDE DEF g
<1>2. ASSUME NEW k \in K
      PROVE  /\ g[k] \in [Positions(t, k) -> Positions(s, k)]
             /\ \A i, j \in Positions(t, k) : g[k][i] = g[k][j] => i = j
             /\ \A j \in Positions(s, k) : \E i \in Positions(t, k) : g[k][i] = j
  BY <1>1, BijectionIs
<1>3. \A i \in DOMAIN t : t[i] \in K /\ i \in Positions(t, t[i])
  BY DEF ToSet, Positions
<1>4. \A j \in DOMAIN s : s[j] \in K /\ j \in Positions(s, s[j])
  BY DEF ToSet, Positions
<1> HIDE DEF K
<1>5. ASSUME NEW i \in DOMAIN t PROVE p[i] = g[t[i]][i] /\ p[i] \in DOMAIN s /\ s[p[i]] = t[i]
  <2>1. g[t[i]][i] \in Positions(s, t[i])
    BY <1>2, <1>3
  <2> QED
    BY <2>1 DEF Positions
<1>6. p \in [DOMAIN t -> DOMAIN s]
  BY <1>5
<1> HIDE DEF p
<1>7. ASSUME NEW i \in DOMAIN t, NEW j \in DOMAIN t, p[i] = p[j] PROVE i = j
  <2>1. t[i] = t[j]
    BY <1>5, <1>7
  <2>2. i \in Positions(t, t[i]) /\ j \in Positions(t, t[i]) /\ t[i] \in K
    BY <1>3, <2>1
  <2>3. g[t[i]][i] = g[t[i]][j]
    BY <1>5, <1>7, <2>1
  <2> QED
    BY <1>2, <2>2, <2>3
<1>8. ASSUME NEW j \in DOMAIN s PROVE \E i \in DOMAIN t : p[i] = j
  <2>1. PICK i \in Positions(t, s[j]) : g[s[j]][i] = j
    BY <1>2, <1>4
  <2>2. i \in DOMAIN t /\ t[i] = s[j]
    BY DEF Positions
  <2> QED
    BY <1>5, <2>1, <2>2
<1>9. p \in Bijection(DOMAIN t, DOMAIN s)
  BY <1>6, <1>7, <1>8, BijectionIf
<1>10. Cardinality(DOMAIN t) = Cardinality(DOMAIN s)
  <2>1. IsFiniteSet(DOMAIN t) /\ IsFiniteSet(DOMAIN s)
    BY PositionsFinite
  <2>2. p \in Injection(DOMAIN t, DOMAIN s) /\ p \in Surjection(DOMAIN t, DOMAIN s)
    BY <1>9 DEF Bijection
  <2> QED
    BY <2>1, <2>2, FS_Injection
<1> QED
  BY <1>5, <1>9, <1>10, PositionsFinite

\* No more positions than there are.
LEMMA NoInjection ==
    ASSUME NEW S, NEW T, IsFiniteSet(S), IsFiniteSet(T), Cardinality(T) < Cardinality(S),
           NEW f \in [S -> T]
    PROVE  \E i, j \in S : i # j /\ f[i] = f[j]
<1> SUFFICES ASSUME \A i, j \in S : f[i] = f[j] => i = j PROVE FALSE
  OBVIOUS
<1>1. f \in Injection(S, T)
  BY DEF Injection, IsInjective
<1>2. Cardinality(S) <= Cardinality(T)
  BY <1>1, FS_Injection
<1> QED
  BY <1>2, FS_CardinalityType

\* Of two sequences in order, one a rearrangement of the other, none has the
\* smaller key at a position: the other has too many keys that are as small.
LEMMA NotSmaller ==
    ASSUME NEW n \in Nat, NEW s \in [1 .. n -> Nat], NEW t \in [1 .. n -> Nat],
           \A j, k \in 1 .. n : j < k => s[j] <= s[k] /\ t[j] <= t[k],
           NEW p \in Bijection(1 .. n, 1 .. n),
           \A j \in 1 .. n : t[j] = s[p[j]], NEW i \in 1 .. n
    PROVE  ~(t[i] < s[i])
<1> SUFFICES ASSUME t[i] < s[i] PROVE FALSE
  OBVIOUS
<1>2. p \in [1 .. n -> 1 .. n] /\ \A j, k \in 1 .. n : p[j] = p[k] => j = k
  <2> DEFINE S == 1 .. n
  <2>1. p \in Bijection(S, S)
    OBVIOUS
  <2> HIDE DEF S
  <2>2. p \in [S -> S] /\ \A j, k \in S : p[j] = p[k] => j = k
    BY ONLY <2>1, BijectionIs
  <2> QED
    BY <2>2 DEF S
<1>3. ASSUME NEW j \in 1 .. i PROVE p[j] \in 1 .. i - 1
  <2>1. j \in 1 .. n /\ p[j] \in 1 .. n /\ s[p[j]] = t[j]
    <3>1. j \in 1 .. n
      OBVIOUS
    <3>2. p[j] \in 1 .. n /\ t[j] = s[p[j]]
      BY ONLY <1>2, <3>1, \A k \in 1 .. n : t[k] = s[p[k]]
    <3> QED
      BY <3>1, <3>2
  <2>2. j = i \/ j < i
    OBVIOUS
  <2>3. t[j] <= t[i]
    BY <2>1, <2>2
  <2>4. s[p[j]] < s[i]
    BY <2>1, <2>3
  <2>5. ~(i < p[j]) /\ i # p[j]
    BY <2>1, <2>4
  <2> QED
    BY <2>1, <2>5
<1> DEFINE f == [j \in 1 .. i |-> p[j]]
<1>4. f \in [1 .. i -> 1 .. i - 1] /\ \A j \in 1 .. i : f[j] = p[j]
  BY <1>3
<1> HIDE DEF f
<1>5. /\ IsFiniteSet(1 .. i) /\ Cardinality(1 .. i) = i
      /\ IsFiniteSet(1 .. i - 1) /\ Cardinality(1 .. i - 1) = i - 1
  <2>1. 1 \in Int /\ i \in Int /\ i - 1 \in Int /\ 1 <= i
    OBVIOUS
  <2>2. IsFiniteSet(1 .. i) /\ Cardinality(1 .. i) = IF 1 > i THEN 0 ELSE i - 1 + 1
    BY <2>1, FS_Interval
  <2>3. IsFiniteSet(1 .. i - 1)
        /\ Cardinality(1 .. i - 1) = IF 1 > i - 1 THEN 0 ELSE i - 1 - 1 + 1
    BY <2>1, FS_Interval
  <2> QED
    BY <2>1, <2>2, <2>3
<1>8. Cardinality(1 .. i - 1) < Cardinality(1 .. i)
  BY <1>5
<1> DEFINE S == 1 .. i
           T == 1 .. i - 1
<1>10. IsFiniteSet(S) /\ IsFiniteSet(T) /\ Cardinality(T) < Cardinality(S) /\ f \in [S -> T]
  BY <1>4, <1>5, <1>8
<1> HIDE DEF S, T
<1>11. \E j, k \in S : j # k /\ f[j] = f[k]
  BY <1>10, NoInjection
<1>6. PICK j \in 1 .. i, k \in 1 .. i : j # k /\ f[j] = f[k]
  BY <1>11 DEF S
<1>9. j \in 1 .. n /\ k \in 1 .. n
  OBVIOUS
<1> QED
  BY <1>2, <1>4, <1>6, <1>9

\* Sorting is the only way to bring keys in order.
LEMMA SortKeysUnique ==
    ASSUME NEW keys \in Seq(Nat), NEW t \in Seq(Nat), Ordered(t), Len(t) = Len(keys),
           NEW p \in Bijection(DOMAIN t, DOMAIN keys), \A i \in DOMAIN t : t[i] = keys[p[i]]
    PROVE  t = SortKeys(keys)
<1> DEFINE s == SortKeys(keys)
<1>1. s \in Seq(Nat) /\ DOMAIN s = DOMAIN keys /\ Ordered(s)
  BY SortKeysOrders
<1>2. PICK q \in Bijection(DOMAIN keys, DOMAIN keys) : \A i \in DOMAIN keys : s[i] = keys[q[i]]
  BY SortKeysOrders
<1> HIDE DEF s
<1>3. ASSUME NEW k
      PROVE  Cardinality(Positions(t, k)) = Cardinality(Positions(s, k))
  <2>1. Cardinality(Positions(t, k)) = Cardinality(Positions(keys, k))
    BY SameCounts
  <2>2. q \in Bijection(DOMAIN s, DOMAIN keys) /\ \A i \in DOMAIN s : s[i] = keys[q[i]]
    BY <1>1, <1>2
  <2>3. Cardinality(Positions(s, k)) = Cardinality(Positions(keys, k))
    BY <1>1, <2>2, SameCounts
  <2> QED
    BY <2>1, <2>3
<1>4. /\ Len(t) = Len(s)
      /\ \E r \in Bijection(DOMAIN t, DOMAIN s) : \A i \in DOMAIN t : t[i] = s[r[i]]
  <2>1. s \in Seq(Nat) /\ t \in Seq(Nat)
    BY <1>1
  <2>2. \A k \in ToSet(s) \cup ToSet(t) :
            Cardinality(Positions(t, k)) = Cardinality(Positions(s, k))
    BY <1>3
  <2> QED
    BY ONLY <2>1, <2>2, Rearranged
<1>5. \E r \in Bijection(DOMAIN s, DOMAIN t) : \A i \in DOMAIN s : s[i] = t[r[i]]
  <2>1. s \in Seq(Nat) /\ t \in Seq(Nat)
    BY <1>1
  <2>2. \A k \in ToSet(t) \cup ToSet(s) :
            Cardinality(Positions(s, k)) = Cardinality(Positions(t, k))
    BY <1>3
  <2> QED
    BY ONLY <2>1, <2>2, Rearranged
<1> DEFINE n == Len(t)
<1>6. /\ n \in Nat /\ DOMAIN t = 1 .. n /\ DOMAIN s = 1 .. n
      /\ s \in [1 .. n -> Nat] /\ t \in [1 .. n -> Nat]
  <2>1. DOMAIN t = 1 .. n /\ DOMAIN s = 1 .. n /\ n \in Nat
    BY <1>1, <1>4, PositionsFinite
  <2>2. t \in [DOMAIN t -> Nat] /\ s \in [DOMAIN s -> Nat]
    BY <1>1
  <2> QED
    BY <2>1, <2>2
<1> HIDE DEF n
<1>7. \A j, k \in 1 .. n : j < k => s[j] <= s[k] /\ t[j] <= t[k]
  BY <1>1, <1>6 DEF Ordered
<1>8. PICK r \in Bijection(1 .. n, 1 .. n) : \A i \in 1 .. n : t[i] = s[r[i]]
  BY <1>4, <1>6
<1>9. PICK u \in Bijection(1 .. n, 1 .. n) : \A i \in 1 .. n : s[i] = t[u[i]]
  BY <1>5, <1>6
<1>10. ASSUME NEW i \in 1 .. n PROVE t[i] = s[i]
  <2>1. ~(t[i] < s[i])
    BY ONLY <1>6, <1>7, <1>8, i \in 1 .. n, NotSmaller
  <2>2. \A j, k \in 1 .. n : j < k => t[j] <= t[k] /\ s[j] <= s[k]
    BY <1>7
  <2>3. ~(s[i] < t[i])
    BY ONLY <1>6, <2>2, <1>9, i \in 1 .. n, NotSmaller
  <2>4. t[i] \in Nat /\ s[i] \in Nat
    BY <1>6
  <2> QED
    BY ONLY <2>1, <2>3, <2>4
<1>11. t = s
  <2>1. t = [i \in 1 .. n |-> t[i]] /\ s = [i \in 1 .. n |-> s[i]]
    BY <1>6
  <2> QED
    BY <1>10, <2>1
<1> QED
  BY <1>11 DEF s

-----------------------------------------------------------------------------
(* The configuration *)

\* What main has to check of the vault is that it is the multisig of the keys.
LEMMA VaultChecked ==
    ASSUME NEW c, c.pocket.MultisigPublicKeys \in Seq(Nat),
           c.pocket.MultisigAddress \in MultisigConfig
    PROVE  VaultIsMultisig(c.pocket) <=>
               /\ c.pocket.MultisigThreshold \in 1 .. Len(c.pocket.MultisigPublicKeys)
               /\ MultisigOf(c) = c.pocket.MultisigAddress
<1> DEFINE keys == c.pocket.MultisigPublicKeys
           vault == c.pocket.MultisigAddress
           t == vault.keys
           threshold == c.pocket.MultisigThreshold
           prefix == c.pocket.Bech32Prefix
<1>1. /\ keys \in Seq(Nat) /\ t \in Seq(Nat)
      /\ vault = [prefix |-> vault.prefix, threshold |-> vault.threshold, keys |-> t]
  BY DEF MultisigConfig
<1>2. VaultIsMultisig(c.pocket) <=>
          /\ vault.prefix = prefix /\ vault.threshold = threshold
          /\ vault.threshold \in 1 .. Len(t)
          /\ Ordered(t)
          /\ \A k \in ToSet(t) \cup ToSet(keys) :
                 Cardinality(Positions(t, k)) = Cardinality(Positions(keys, k))
  BY DEF VaultIsMultisig, Ordered, Positions
<1>3. MultisigOf(c) = vault <=>
          prefix = vault.prefix /\ threshold = vault.threshold /\ SortKeys(keys) = t
  BY <1>1 DEF MultisigOf
<1> HIDE DEF keys, vault, t, threshold, prefix
<1>4. ASSUME Ordered(t), \A k \in ToSet(t) \cup ToSet(keys) :
                 Cardinality(Positions(t, k)) = Cardinality(Positions(keys, k))
      PROVE  SortKeys(keys) = t /\ Len(t) = Len(keys)
  <2>1. /\ Len(t) = Len(keys)
        /\ \E p \in Bijection(DOMAIN t, DOMAIN keys) : \A i \in DOMAIN t : t[i] = keys[p[i]]
    <3>1. \A k \in ToSet(keys) \cup ToSet(t) :
              Cardinality(Positions(t, k)) = Cardinality(Positions(keys, k))
      BY <1>4
    <3> QED
      BY ONLY <1>1, <3>1, Rearranged
  <2>2. PICK p \in Bijection(DOMAIN t, DOMAIN keys) : \A i \in DOMAIN t : t[i] = keys[p[i]]
    BY <2>1
  <2> QED
    BY ONLY <1>1, <1>4, <2>1, <2>2, SortKeysUnique
<1>5. ASSUME SortKeys(keys) = t
      PROVE  /\ Ordered(t) /\ Len(t) = Len(keys)
             /\ \A k : Cardinality(Positions(t, k)) = Cardinality(Positions(keys, k))
  <2>1. DOMAIN t = DOMAIN keys /\ Ordered(t)
    BY <1>1, <1>5, SortKeysOrders
  <2>2. PICK p \in Bijection(DOMAIN keys, DOMAIN keys) : \A i \in DOMAIN keys : t[i] = keys[p[i]]
    BY <1>1, <1>5, SortKeysOrders
  <2>3. p \in Bijection(DOMAIN t, DOMAIN keys) /\ \A i \in DOMAIN t : t[i] = keys[p[i]]
    BY <2>1, <2>2
  <2>4. ASSUME NEW k PROVE Cardinality(Positions(t, k)) = Cardinality(Positions(keys, k))
    BY ONLY <1>1, <2>3, SameCounts
  <2>5. Len(t) = Len(keys)
    BY <1>1, <2>1
  <2> QED
    BY <2>1, <2>4, <2>5
<1>6. CASE SortKeys(keys) = t
  BY <1>2, <1>3, <1>5, <1>6 DEF keys, vault, threshold
<1>7. CASE SortKeys(keys) # t
  BY <1>2, <1>3, <1>4, <1>7 DEF vault
<1> QED
  BY <1>6, <1>7

\* What ValidateConfig asks of the configuration without the prefix.
Valid(c) == MongoValid(c) /\ EthereumValid(c) /\ PocketValid(c) /\ IntervalsValid(c)

\* What the vault's configuration needs to be compared.
VaultTyped(c) ==
    /\ c.pocket.MultisigPublicKeys \in Seq(Nat)
    /\ c.pocket.MultisigAddress \in MultisigConfig

\* A private key that gives an account is one that parses.
LEMMA AccountIsOfKey ==
    ASSUME NEW c, EthereumSigner(c) # 0
    PROVE  /\ c.ethereum.PrivateKey \in DOMAIN EthereumKey
           /\ EthereumSigner(c) = EthereumKey[c.ethereum.PrivateKey]
BY DEF EthereumSigner

\* A configuration that passes every check is sound.
LEMMA CheckedIsSound ==
    ASSUME NEW c, VaultTyped(c), Valid(c), ServicesValid(c),
           c.gsm.Enabled => SecretsGiven(c),
           c.pocket.ChainID = PocketChain, c.ethereum.ChainID = EthereumChain
    PROVE  Sound(c)
<1>1. VaultIsMultisig(c.pocket)
  BY VaultChecked DEF VaultTyped, Valid, PocketValid, PocketSignerValid
<1>2. EthereumSigner(c) \in ToSet(c.ethereum.ValidatorAddresses)
      /\ 0 \notin ToSet(c.ethereum.ValidatorAddresses)
  BY DEF Valid, EthereumValid, IsValidEthereumAddress
<1>3. /\ Unprefixed[c.ethereum.PrivateKey] \in DOMAIN EthereumKey
      /\ EthereumKey[Unprefixed[c.ethereum.PrivateKey]] \in ToSet(c.ethereum.ValidatorAddresses)
  BY <1>2, AccountIsOfKey, KeysAssumption
<1>4. /\ 0 \notin ToSet(c.pocket.MultisigPublicKeys)
      /\ CreatePocketSigner(c) \in ToSet(c.pocket.MultisigPublicKeys)
      /\ Len(c.pocket.MultisigPublicKeys) > 1
  BY DEF Valid, PocketValid, PocketSignerValid, PublicKeysParse
<1>5. /\ "" \notin {c.pocket.ChainID, c.pocket.CoinDenom, c.pocket.Bech32Prefix,
                    c.ethereum.ChainID, c.ethereum.RPCURL,
                    c.ethereum.WrappedPocketAddress, c.ethereum.MintControllerAddress}
      /\ IF c.pocket.GRPCEnabled THEN c.pocket.GRPCHost # "" /\ c.pocket.GRPCPort # 0
         ELSE c.pocket.RPCURL # ""
      /\ 0 \notin {c.pocket.RPCTimeoutMillis, c.ethereum.RPCTimeoutMillis}
  BY DEF Valid, PocketValid, EthereumValid
<1> QED
  BY <1>1, <1>2, <1>3, <1>4, <1>5 DEF Sound, Valid

\* Without the prefix of the private key a configuration is the same.
LEMMA WithoutPrefixSame ==
    ASSUME NEW c \in Config
    PROVE  LET w == WithoutPrefix(c)
           IN  /\ w.mongo = c.mongo /\ w.pocket = c.pocket /\ w.services = c.services
               /\ w.health = c.health /\ w.gsm = c.gsm
               /\ w.ethereum.PrivateKey = Unprefixed[c.ethereum.PrivateKey]
               /\ w.ethereum.RPCURL = c.ethereum.RPCURL
               /\ w.ethereum.RPCTimeoutMillis = c.ethereum.RPCTimeoutMillis
               /\ w.ethereum.ChainID = c.ethereum.ChainID
               /\ w.ethereum.WrappedPocketAddress = c.ethereum.WrappedPocketAddress
               /\ w.ethereum.MintControllerAddress = c.ethereum.MintControllerAddress
               /\ w.ethereum.ValidatorAddresses = c.ethereum.ValidatorAddresses
BY DEF Config, WithoutPrefix

\* A sound configuration passes the validation.
LEMMA SoundIsValid ==
    ASSUME NEW c \in Config, Sound(c)
    PROVE  Valid(WithoutPrefix(c))
<1> DEFINE w == WithoutPrefix(c)
           members == ToSet(c.pocket.MultisigPublicKeys)
<1>1. VaultTyped(c)
  BY DEF VaultTyped, Config
<1>2. /\ w.mongo = c.mongo /\ w.pocket = c.pocket /\ w.services = c.services
      /\ w.health = c.health
      /\ w.ethereum.PrivateKey = Unprefixed[c.ethereum.PrivateKey]
      /\ w.ethereum.RPCURL = c.ethereum.RPCURL
      /\ w.ethereum.RPCTimeoutMillis = c.ethereum.RPCTimeoutMillis
      /\ w.ethereum.ChainID = c.ethereum.ChainID
      /\ w.ethereum.WrappedPocketAddress = c.ethereum.WrappedPocketAddress
      /\ w.ethereum.MintControllerAddress = c.ethereum.MintControllerAddress
      /\ w.ethereum.ValidatorAddresses = c.ethereum.ValidatorAddresses
  BY WithoutPrefixSame
<1> HIDE DEF w
<1>3. MongoValid(w) /\ IntervalsValid(w)
  BY <1>2 DEF Sound, MongoValid, IntervalsValid
<1>4. EthereumValid(w)
  <2>1. EthereumSigner(w) \in ToSet(c.ethereum.ValidatorAddresses)
    BY <1>2 DEF Sound, EthereumSigner
  <2> QED
    BY <1>2, <2>1 DEF Sound, EthereumValid, IsValidEthereumAddress
<1>5. CreatePocketSigner(c) \in members /\ 0 \notin members /\ CreatePocketSigner(c) # 0
  BY DEF Sound
<1>6. c.pocket.Mnemonic # "" \/ c.pocket.GcpKmsKeyName # ""
  <2>1. CASE UsesKms(c)
    BY <2>1 DEF UsesKms
  <2>2. CASE ~UsesKms(c)
    BY <1>5, <2>2, KeysAssumption DEF CreatePocketSigner, NewMnemonicSigner
  <2> QED
    BY <2>1, <2>2
<1>7. VaultIsMultisig(c.pocket) /\ c.pocket.MultisigAddress.prefix = c.pocket.Bech32Prefix
  BY DEF Sound, VaultIsMultisig
<1>8. PocketSignerValid(c)
  BY <1>1, <1>5, <1>7, VaultChecked DEF VaultTyped, PocketSignerValid, PublicKeysParse
<1>9. PocketSignerValid(w)
  BY <1>2, <1>8 DEF PocketSignerValid, CreatePocketSigner, UsesKms, MultisigOf
<1>10. PocketValid(w)
  <2>1. /\ IF c.pocket.GRPCEnabled THEN c.pocket.GRPCHost # "" /\ c.pocket.GRPCPort # 0
           ELSE c.pocket.RPCURL # ""
        /\ c.pocket.RPCTimeoutMillis # 0 /\ c.pocket.ChainID # "" /\ c.pocket.Bech32Prefix # ""
        /\ c.pocket.CoinDenom # "" /\ Len(c.pocket.MultisigPublicKeys) > 1
    BY DEF Sound
  <2>2. IsValidBech32Address(c.pocket.Bech32Prefix, c.pocket.MultisigAddress)
    BY <1>7 DEF IsValidBech32Address
  <2> QED
    BY <1>2, <1>6, <1>9, <2>1, <2>2 DEF PocketValid
<1> QED
  BY <1>3, <1>4, <1>10 DEF Valid, w

\* The secrets fill in settings that are then given.
LEMMA WithSecretsTyped ==
    ASSUME NEW c \in Config, SecretsGiven(c)
    PROVE  WithSecrets(c) \in Config /\ SecretsGiven(WithSecrets(c))
<1>1. /\ SecretOr(c.gsm.MongoSecretName, c.mongo.URI) \in STRING
      /\ SecretOr(c.gsm.EthSecretName, c.ethereum.PrivateKey) \in STRING
      /\ SecretOr(c.gsm.PoktSecretName, c.pocket.Mnemonic) \in STRING
  BY SecretsAssumption DEF SecretOr, SecretsGiven, Config
<1>2. WithSecrets(c) \in Config
  BY <1>1 DEF WithSecrets, Config
<1>3. /\ WithSecrets(c).gsm = c.gsm
      /\ WithSecrets(c).mongo.URI = SecretOr(c.gsm.MongoSecretName, c.mongo.URI)
      /\ WithSecrets(c).ethereum.PrivateKey =
             SecretOr(c.gsm.EthSecretName, c.ethereum.PrivateKey)
      /\ WithSecrets(c).pocket.Mnemonic = SecretOr(c.gsm.PoktSecretName, c.pocket.Mnemonic)
      /\ WithSecrets(c).pocket.GcpKmsKeyName = c.pocket.GcpKmsKeyName
  BY DEF WithSecrets, Config
<1> QED
  BY <1>2, <1>3 DEF SecretsGiven, SecretOr

\* What main knows of the configuration at each stage.
AfterValidate ==
    {"database", "indexes", "cosmos", "ethereum", "health", "services", "started"}
StartInv ==
    /\ stage = "file" => config = NoConfig
    /\ stage = "env" => config \in (Files \ {Unreadable}) \cup {NoConfig}
    /\ stage \in {"secrets", "validate"} => config \in Config
    /\ stage \in AfterValidate \cup {"validate"} => (config.gsm.Enabled => SecretsGiven(config))
    /\ stage \in AfterValidate => VaultTyped(config) /\ Valid(config)
    /\ stage \in {"ethereum", "health", "services", "started"} =>
           config.pocket.ChainID = PocketChain
    /\ stage \in {"health", "services", "started"} => config.ethereum.ChainID = EthereumChain
    /\ stage = "started" => ServicesValid(config)

\* A stage ends well, with a refusal or with the failure of a call.
LEMMA StageTo ==
    ASSUME NEW name, NEW cond \in BOOLEAN, NEW calls, NEW next, Stage(name, cond, calls, next)
    PROVE  /\ stage = name
           /\ \/ cond /\ stage' = next
              \/ ~cond /\ stage' = "refused"
              \/ stage' = "failed"
BY DEF Stage

\* Nobody is refused a start with a sound configuration.
RefusedStep == stage # "refused" /\ stage' = "refused" => ~Sound(config)

\* The stages up to the validation.
LEMMA ReadingStep ==
    ASSUME StartInv, ReadFile \/ ReadENV \/ ReadSecrets \/ ValidateConfig
    PROVE  StartInv' /\ RefusedStep
<1>1. CASE ReadFile
  <2>1. PICK f \in Files \cup {NoConfig} :
            /\ Stage("file", f # Unreadable, FALSE, "env")
            /\ config' = IF f = Unreadable THEN config ELSE f
    BY <1>1 DEF ReadFile
  <2>2. stage = "file" /\ config = NoConfig
        /\ ((stage' = "env" /\ f # Unreadable) \/ stage' \in {"refused", "failed"})
    BY <2>1 DEF Stage, StartInv
  <2>3. ~Sound(NoConfig)
    <3>1. NoConfig.pocket.MultisigPublicKeys = <<>>
      BY DEF NoConfig
    <3> QED
      BY <3>1 DEF Sound
  <2> QED
    BY <2>1, <2>2, <2>3 DEF StartInv, RefusedStep, AfterValidate
<1>2. CASE ReadENV
  <2>1. PICK e \in Envs :
            /\ Stage("env", TRUE, FALSE, "secrets")
            /\ config' = WithEnvironment(e, config)
    BY <1>2 DEF ReadENV
  <2>2. stage = "env" /\ stage' = "secrets"
    BY <2>1 DEF Stage
  <2>3. config' \in Config
    BY <2>1, <2>2, ConfigAssumption DEF StartInv
  <2> QED
    BY <2>2, <2>3 DEF StartInv, RefusedStep, AfterValidate
<1>3. CASE ReadSecrets
  <2>1. stage = "secrets" /\ config \in Config
    BY <1>3 DEF ReadSecrets, Stage, StartInv
  <2>2. \/ stage' = "validate" /\ (config.gsm.Enabled => SecretsGiven(config))
        \/ stage' = "refused" /\ config.gsm.Enabled /\ ~SecretsGiven(config)
        \/ stage' = "failed"
    BY <1>3 DEF ReadSecrets, Stage
  <2>3. config' = IF config.gsm.Enabled /\ SecretsGiven(config) THEN WithSecrets(config) ELSE config
    BY <1>3 DEF ReadSecrets
  <2>4. stage' = "validate" =>
            config' \in Config /\ (config'.gsm.Enabled => SecretsGiven(config'))
    BY <2>1, <2>2, <2>3, WithSecretsTyped
  <2>5. stage' = "refused" => ~Sound(config)
    BY <2>2 DEF Sound
  <2>6. SecretsGiven(config)' <=> SecretsGiven(config')
    BY DEF SecretsGiven
  <2> QED
    BY <2>2, <2>4, <2>5, <2>6 DEF StartInv, RefusedStep, AfterValidate
<1>4. CASE ValidateConfig
  <2> DEFINE c == WithoutPrefix(config)
  <2>1. stage = "validate" /\ config \in Config /\ config' = c
    BY <1>4 DEF ValidateConfig, Stage, StartInv
  <2>2. \/ stage' = "database" /\ Valid(c)
        \/ stage' = "refused" /\ ~Valid(c)
        \/ stage' = "failed"
    BY <1>4 DEF ValidateConfig, Stage, Valid
  <2>3. RefusedStep
    BY <2>1, <2>2, SoundIsValid DEF RefusedStep
  <2>4. VaultTyped(c)
    <3>1. c.pocket = config.pocket
      BY <2>1, WithoutPrefixSame
    <3> QED
      BY <2>1, <3>1 DEF VaultTyped, Config
  <2>5. Valid(c) => (c.gsm.Enabled => SecretsGiven(c))
    <3>1. /\ c.gsm = config.gsm /\ c.mongo = config.mongo /\ c.pocket = config.pocket
          /\ config.gsm.Enabled => SecretsGiven(config)
      BY <2>1, WithoutPrefixSame DEF StartInv
    <3>2. Valid(c) => c.ethereum.PrivateKey # ""
      <4>1. Valid(c) => EthereumSigner(c) # 0
        BY DEF Valid, EthereumValid, IsValidEthereumAddress
      <4> QED
        BY <4>1, AccountIsOfKey, KeysAssumption
    <3> HIDE DEF c
    <3> QED
      BY <3>1, <3>2 DEF SecretsGiven
  <2> HIDE DEF c
  <2> QED
    BY <2>1, <2>2, <2>3, <2>4, <2>5 DEF StartInv, AfterValidate
<1> QED
  BY <1>1, <1>2, <1>3, <1>4

\* The stages after it, which leave the configuration as it is.
LEMMA ConnectingStep ==
    ASSUME StartInv,
           \/ Connect \/ SetupIndexesAndLocker \/ ValidateCosmosNetwork
           \/ ValidateEthereumNetwork \/ NewHealthCheck \/ NewServices
    PROVE  StartInv' /\ RefusedStep
<1>0. config' = config
  BY DEF Connect, SetupIndexesAndLocker, ValidateCosmosNetwork, ValidateEthereumNetwork,
     NewHealthCheck, NewServices
<1>1. stage' = "failed" => StartInv' /\ RefusedStep
  BY DEF StartInv, RefusedStep, AfterValidate
<1>2. stage' = "refused" => StartInv'
  BY DEF StartInv, AfterValidate
<1>3. CASE Connect \/ SetupIndexesAndLocker
  <2>1. \/ stage = "database" /\ stage' = "indexes"
        \/ stage = "indexes" /\ stage' = "cosmos"
        \/ stage' = "failed"
    BY <1>3 DEF Connect, SetupIndexesAndLocker, Stage
  <2> QED
    BY <1>0, <1>1, <2>1 DEF StartInv, RefusedStep, AfterValidate
<1>4. CASE ValidateCosmosNetwork
  <2>1. /\ stage = "cosmos"
        /\ \/ stage' = "ethereum" /\ PocketChain = config.pocket.ChainID
           \/ stage' = "refused" /\ PocketChain # config.pocket.ChainID
           \/ stage' = "failed"
    BY <1>4 DEF ValidateCosmosNetwork, Stage
  <2>2. RefusedStep
    BY <2>1 DEF RefusedStep, Sound
  <2> QED
    BY <1>0, <1>1, <1>2, <2>1, <2>2 DEF StartInv, AfterValidate
<1>5. CASE ValidateEthereumNetwork
  <2>1. /\ stage = "ethereum"
        /\ \/ stage' = "health" /\ EthereumChain = config.ethereum.ChainID
           \/ stage' = "refused" /\ EthereumChain # config.ethereum.ChainID
           \/ stage' = "failed"
    BY <1>5 DEF ValidateEthereumNetwork, Stage
  <2>2. RefusedStep
    BY <2>1 DEF RefusedStep, Sound
  <2> QED
    BY <1>0, <1>1, <1>2, <2>1, <2>2 DEF StartInv, AfterValidate
<1>6. CASE NewHealthCheck
  <2>1. /\ stage = "health"
        /\ \/ stage' = "services"
           \/ stage' = "refused" /\ ~(PocketSignerValid(config) /\ EthereumSigner(config) # 0)
           \/ stage' = "failed"
    BY <1>6 DEF NewHealthCheck, Stage
  <2>2. PocketSignerValid(config) /\ EthereumSigner(config) # 0
    BY <2>1 DEF StartInv, AfterValidate, Valid, PocketValid, EthereumValid, IsValidEthereumAddress
  <2> QED
    BY <1>0, <1>1, <2>1, <2>2 DEF StartInv, RefusedStep, AfterValidate
<1>7. CASE NewServices
  <2>1. /\ stage = "services"
        /\ \/ stage' = "started" /\ ServicesValid(config)
           \/ stage' = "refused" /\ ~ServicesValid(config)
           \/ stage' = "failed"
    BY <1>7 DEF NewServices, Stage
  <2>2. RefusedStep
    BY <2>1 DEF RefusedStep, Sound
  <2>3. ServicesValid(config)' <=> ServicesValid(config)
    BY <1>0 DEF ServicesValid, EnabledServices
  <2> QED
    BY <1>0, <1>1, <1>2, <2>1, <2>2, <2>3 DEF StartInv, AfterValidate
<1> QED
  BY <1>3, <1>4, <1>5, <1>6, <1>7

\* Every step of the process.
LEMMA StartStep == StartInv /\ [ProcessNext]_processVars => StartInv' /\ RefusedStep
<1> SUFFICES ASSUME StartInv, [ProcessNext]_processVars PROVE StartInv' /\ RefusedStep
  OBVIOUS
<1>1. CASE Starting
  BY <1>1, ReadingStep, ConnectingStep DEF Starting
<1>2. CASE \/ Started(Next)
           \/ \E kind \in {"eth", "cosmos"}, digest \in Digests, nonce \in Scalars :
                  Sign(kind, digest, nonce)
           \/ UNCHANGED processVars
  <2>1. stage' = stage /\ config' = config
    BY <1>2 DEF Started, Sign, processVars, startupVars
  <2> QED
    BY <2>1 DEF StartInv, RefusedStep
<1> QED
  BY <1>1, <1>2 DEF ProcessNext

\* The process starts with nothing but an empty configuration.
LEMMA StartInit == ProcessInit => StartInv
BY DEF ProcessInit, StartInv, AfterValidate

\* A started process has a sound configuration (main.go, app/config.go,
\* app/gsm.go, the constructors of the services), whatever file,
\* variables and secrets it was made of.
THEOREM StartsSound == ProcessSpec => []StartedIsSound
<1>1. StartInv => StartedIsSound
  BY CheckedIsSound DEF StartInv, AfterValidate, StartedIsSound
<1> QED
  BY <1>1, StartInit, StartStep, PTL DEF ProcessSpec

\* No sound configuration is refused, in whatever order it lists the keys of
\* the vault and with or without a prefix of the private key.
THEOREM RefusesUnsound == ProcessSpec => SoundIsNotRefused
BY StartInit, StartStep, PTL DEF ProcessSpec, SoundIsNotRefused, RefusedStep

-----------------------------------------------------------------------------
(* The process as Lifecycle has it *)

\* A step of the process is a step of what was started, or none for Lifecycle.
LEMMA ProcessStep == [ProcessNext]_processVars => [Next]_vars
<1> SUFFICES ASSUME [ProcessNext]_processVars PROVE [Next]_vars
  OBVIOUS
<1>1. CASE Starting
  BY <1>1 DEF Starting, ReadFile, ReadENV, ReadSecrets, ValidateConfig, Connect,
     SetupIndexesAndLocker, ValidateCosmosNetwork, ValidateEthereumNetwork,
     NewHealthCheck, NewServices, Stage
<1>2. CASE Started(Next)
  BY <1>2 DEF Started
<1>3. CASE \E kind \in {"eth", "cosmos"}, digest \in Digests, nonce \in Scalars :
               Sign(kind, digest, nonce)
  BY <1>3 DEF Sign
<1>4. CASE UNCHANGED processVars
  BY <1>4 DEF processVars
<1> QED
  BY <1>1, <1>2, <1>3, <1>4 DEF ProcessNext

\* The process implements Lifecycle.
THEOREM ProcessIsLifecycle == ProcessSpec => Spec
BY ProcessStep, PTL DEF ProcessSpec, ProcessInit, Spec

\* So the wait group of a process never goes below zero, and no service of
\* it runs after the database is disconnected.
THEOREM ProcessLifecycle == ProcessSpec => [](TypeOK /\ NoRunAfterDisconnect)
BY ProcessIsLifecycle, LifecycleTypeOK, LifecycleNoRunAfterDisconnect, PTL

-----------------------------------------------------------------------------
(* Numbers modulo the order of the group *)

\* Equal up to multiples of the order.
Congruent(a, b) == \E k \in Int : a = b + k * Order

\* The order is a number.
LEMMA OrderNat == Order \in Nat /\ Order \in Int /\ Order > 2
BY OrderAssumption

\* Congruence is symmetric.
LEMMA CongruentSymm ==
    ASSUME NEW a \in Int, NEW b \in Int, Congruent(a, b) PROVE Congruent(b, a)
<1>1. PICK k \in Int : a = b + k * Order
  BY DEF Congruent
<1>2. b = a + (0 - k) * Order
  BY <1>1, OrderNat
<1> QED
  BY <1>2 DEF Congruent

\* Congruence is transitive.
LEMMA CongruentTrans ==
    ASSUME NEW a \in Int, NEW b \in Int, NEW c \in Int, Congruent(a, b), Congruent(b, c)
    PROVE  Congruent(a, c)
<1>1. PICK k \in Int : a = b + k * Order
  BY DEF Congruent
<1>2. PICK l \in Int : b = c + l * Order
  BY DEF Congruent
<1>3. a = c + (k + l) * Order
  BY <1>1, <1>2, OrderNat
<1> QED
  BY <1>3 DEF Congruent

\* Congruent numbers have congruent multiples.
LEMMA CongruentTimes ==
    ASSUME NEW a \in Int, NEW b \in Int, NEW c \in Int, Congruent(a, b)
    PROVE  Congruent(c * a, c * b) /\ Congruent(a * c, b * c)
<1>1. PICK k \in Int : a = b + k * Order
  BY DEF Congruent
<1>2. c * a = c * b + (c * k) * Order
  BY <1>1, OrderNat
<1>3. c * k \in Int
  OBVIOUS
<1>4. a * c = b * c + (c * k) * Order
  BY <1>1, OrderNat
<1> QED
  BY <1>2, <1>3, <1>4 DEF Congruent

\* A product that is congruent to one leaves a factor as it is.
LEMMA CongruentUnit ==
    ASSUME NEW a \in Int, NEW i \in Int, NEW c \in Int, Congruent(a * i, 1)
    PROVE  Congruent(a * (i * c), c) /\ Congruent(c * (a * i), c)
<1>1. PICK k \in Int : a * i = 1 + k * Order
  BY DEF Congruent
<1>2. /\ a * (i * c) = (a * i) * c /\ c * (a * i) = (a * i) * c
      /\ (1 + k * Order) * c = c + (c * k) * Order /\ c * k \in Int
  BY OrderNat
<1>3. a * (i * c) = c + (c * k) * Order /\ c * (a * i) = c + (c * k) * Order
  BY <1>1, <1>2
<1> QED
  BY <1>2, <1>3 DEF Congruent

\* Congruent numbers have congruent sums.
LEMMA CongruentPlus ==
    ASSUME NEW a \in Int, NEW b \in Int, NEW c \in Int, NEW d \in Int,
           Congruent(a, b), Congruent(c, d)
    PROVE  Congruent(a + c, b + d)
<1>1. PICK k \in Int : a = b + k * Order
  BY DEF Congruent
<1>2. PICK l \in Int : c = d + l * Order
  BY DEF Congruent
<1>3. a + c = (b + d) + (k + l) * Order
  BY <1>1, <1>2, OrderNat
<1> QED
  BY <1>3 DEF Congruent

\* The remainder is congruent to the number, and less than the order.
LEMMA Remainder ==
    ASSUME NEW a \in Int
    PROVE  a % Order \in 0 .. Order - 1 /\ Congruent(a, a % Order) /\ Congruent(a % Order, a)
<1>1. a % Order \in 0 .. Order - 1 /\ a \div Order \in Int
  BY OrderNat
<1>2. a = (a % Order) + (a \div Order) * Order
  BY OrderNat
<1>3. Congruent(a, a % Order)
  BY <1>1, <1>2 DEF Congruent
<1> QED
  BY <1>1, <1>3, CongruentSymm

\* And only one is.
LEMMA CongruentEqual ==
    ASSUME NEW a \in 0 .. Order - 1, NEW b \in 0 .. Order - 1, Congruent(a, b)
    PROVE  a = b
<1>1. PICK k \in Int : a = b + k * Order
  BY DEF Congruent
<1>2. CASE k >= 1
  <2>1. k * Order >= Order
    BY <1>2, OrderNat
  <2> QED
    BY <1>1, <2>1, OrderNat
<1>3. CASE k <= 0 - 1
  <2>1. k * Order <= 0 - Order
    BY <1>3, OrderNat
  <2> QED
    BY <1>1, <2>1, OrderNat
<1>4. CASE k = 0
  BY <1>1, <1>4, OrderNat
<1> QED
  BY <1>2, <1>3, <1>4

\* An even order would be twice its half, which the assumption excludes.
LEMMA OrderOdd == \A k \in Nat : Order # 2 * k
<1> SUFFICES ASSUME NEW k \in Nat, Order = 2 * k PROVE FALSE
  OBVIOUS
<1>1. 2 \in Scalars /\ k \in Scalars
  BY OrderNat DEF Scalars
<1>2. Order % Order = 0
  BY OrderNat
<1> QED
  BY <1>1, <1>2, OrderAssumption

\* Of a scalar and its opposite exactly one is in the lower half.
LEMMA Halves ==
    /\ Order \div 2 \in Nat /\ Order = 2 * (Order \div 2) + 1
    /\ \A a \in Scalars : Order - a \in Scalars /\ (a <= Order \div 2 <=> Order - a > Order \div 2)
<1>1. Order \div 2 \in Nat /\ (Order = 2 * (Order \div 2) \/ Order = 2 * (Order \div 2) + 1)
  BY OrderNat
<1>2. Order = 2 * (Order \div 2) + 1
  BY <1>1, OrderOdd
<1> QED
  BY <1>1, <1>2, OrderNat DEF Scalars

\* A scalar can be cancelled, for the order divides no product of scalars.
LEMMA Cancel ==
    ASSUME NEW a \in Scalars, NEW b \in 0 .. Order - 1, NEW c \in 0 .. Order - 1,
           Congruent(a * b, a * c)
    PROVE  b = c
<1>1. ASSUME NEW d \in 0 .. Order - 1, NEW e \in 0 .. Order - 1, d > e, Congruent(a * d, a * e)
      PROVE  FALSE
  <2>1. PICK k \in Int : a * d = a * e + k * Order
    BY <1>1 DEF Congruent
  <2>2. d - e \in Scalars /\ a \in Int /\ d \in Int /\ e \in Int
    BY <1>1, OrderNat DEF Scalars
  <2>3. a * (d - e) = 0 + k * Order
    BY <2>1, <2>2, OrderNat
  <2>4. a * (d - e) \in Int /\ Congruent(a * (d - e), 0)
    BY <2>2, <2>3 DEF Congruent
  <2>5. Congruent((a * (d - e)) % Order, 0)
    BY <2>4, Remainder, CongruentTrans
  <2>6. (a * (d - e)) % Order = 0
    BY <2>4, <2>5, Remainder, CongruentEqual, OrderNat
  <2> QED
    BY <2>2, <2>6, OrderAssumption
<1>2. a * b \in Int /\ a * c \in Int /\ b \in Int /\ c \in Int
  BY OrderNat DEF Scalars
<1>3. Congruent(a * c, a * b)
  BY <1>2, CongruentSymm
<1>4. ~(b > c) /\ ~(c > b)
  BY <1>1, <1>3
<1> QED
  BY <1>2, <1>4

\* Every scalar has an inverse: its multiples are as many as the scalars.
LEMMA InverseExists ==
    ASSUME NEW a \in Scalars
    PROVE  InverseOf(a) \in Scalars /\ Congruent(a * InverseOf(a), 1)
<1> DEFINE f == [b \in Scalars |-> (a * b) % Order]
<1>0. a \in Int /\ \A b \in Scalars : b \in Int /\ a * b \in Int /\ b \in 0 .. Order - 1
  BY OrderNat DEF Scalars
<1>1. \A b \in Scalars : (a * b) % Order \in Scalars
  <2> TAKE b \in Scalars
  <2>1. (a * b) % Order \in 0 .. Order - 1
    BY <1>0, Remainder
  <2>2. (a * b) % Order # 0
    BY OrderAssumption
  <2> QED
    BY <2>1, <2>2, OrderNat DEF Scalars
<1>2. f \in [Scalars -> Scalars]
  BY <1>1
<1>3. ASSUME NEW b \in Scalars, NEW c \in Scalars, f[b] = f[c] PROVE b = c
  <2>1. (a * b) % Order = (a * c) % Order /\ (a * b) % Order \in Int
    BY <1>1, <1>3, OrderNat DEF Scalars
  <2>2. Congruent(a * b, (a * b) % Order) /\ Congruent((a * c) % Order, a * c)
    BY <1>0, Remainder
  <2>3. Congruent(a * b, a * c)
    BY <1>0, <2>1, <2>2, CongruentTrans
  <2> QED
    BY <1>0, <2>3, Cancel
<1>4. \A b \in Scalars : f[b] = (a * b) % Order
  OBVIOUS
<1> HIDE DEF f
<1>41. f \in Injection(Scalars, Scalars)
  BY <1>2, <1>3 DEF Injection, IsInjective
<1>5. IsFiniteSet(Scalars)
  BY OrderNat, FS_Interval DEF Scalars
<1>6. f \in Surjection(Scalars, Scalars)
  BY <1>41, <1>5, FS_Injection
<1>7. 1 \in Scalars
  BY OrderNat DEF Scalars
<1>8. PICK b \in Scalars : f[b] = 1
  BY <1>6, <1>7 DEF Surjection
<1>9. \E b1 \in Scalars : (a * b1) % Order = 1
  BY <1>4, <1>8
<1>10. InverseOf(a) \in Scalars /\ (a * InverseOf(a)) % Order = 1
  BY <1>9 DEF InverseOf
<1> QED
  BY <1>0, <1>10, Remainder

\* A coordinate belongs to a point and its opposite, which differ in parity.
LEMMA Points ==
    ASSUME NEW k \in Scalars
    PROVE  /\ XCoord(k) \in Scalars /\ XCoord(Order - k) = XCoord(k)
           /\ Parity(k) \in {0, 1}
           /\ \A p \in Scalars : XCoord(p) = XCoord(k) => p = k \/ p = Order - k
           /\ \A p \in Scalars : XCoord(p) = XCoord(k) /\ Parity(p) = Parity(k) => p = k
<1>1. XCoord(k) \in Scalars /\ XCoord(Order - k) = XCoord(k) /\ Parity(k) \in {0, 1}
  BY Halves, OrderNat DEF XCoord, Parity, Scalars
<1>2. ASSUME NEW p \in Scalars, XCoord(p) = XCoord(k)
      PROVE  (p = k \/ p = Order - k) /\ (Parity(p) = Parity(k) => p = k)
  BY <1>2, Halves, OrderNat DEF XCoord, Parity, Scalars
<1> QED
  BY <1>1, <1>2

\* The equation of a signature.
Signs(sig, digest, nonce) ==
    /\ sig.s \in Scalars /\ sig.r = XCoord(nonce)
    /\ Congruent(nonce * sig.s, digest + XCoord(nonce) * PrivateKey)

\* The service's answer satisfies the equation.
LEMMA AnswerSigns ==
    ASSUME NEW digest \in Scalars \cup {0}, NEW nonce \in Scalars,
           AsymmetricSign(digest, nonce).s # 0
    PROVE  Signs(AsymmetricSign(digest, nonce), digest, nonce)
<1> DEFINE s == AsymmetricSign(digest, nonce).s
           m == digest + XCoord(nonce) * PrivateKey
           i == InverseOf(nonce)
<1>1. nonce \in Int /\ m \in Int /\ i \in Int
  BY InverseExists, Points, KeyAssumption, OrderNat DEF Scalars
<1>2. s = (i * m) % Order
  BY DEF AsymmetricSign
<1> HIDE DEF m, i, s
<1>3. i * m \in Int /\ nonce * i \in Int /\ nonce * (i * m) = (nonce * i) * m /\ 1 * m = m
  BY <1>1
<1>4. s \in 0 .. Order - 1 /\ Congruent(s, i * m)
  BY <1>2, <1>3, Remainder
<1>5. s \in Scalars /\ s \in Int
  BY <1>4, OrderNat DEF Scalars, s
<1>6. nonce * s \in Int /\ nonce * (i * m) \in Int
  BY <1>1, <1>3, <1>5
<1>7. Congruent(nonce * s, nonce * (i * m))
  BY <1>1, <1>3, <1>4, <1>5, CongruentTimes
<1>8. Congruent(nonce * i, 1)
  BY InverseExists DEF i
<1>9. Congruent(nonce * (i * m), m)
  BY <1>1, <1>8, CongruentUnit
<1>10. Congruent(nonce * s, m)
  BY <1>1, <1>3, <1>6, <1>7, <1>9, CongruentTrans
<1> QED
  BY <1>5, <1>10 DEF Signs, s, m, AsymmetricSign

\* What satisfies the equation is valid for the public key.
LEMMA SignatureVerifies ==
    ASSUME NEW digest \in Scalars \cup {0}, NEW nonce \in Scalars, NEW sig,
           Signs(sig, digest, nonce)
    PROVE  Verifies(sig, digest, PrivateKey)
<1> DEFINE s == sig.s
           r == XCoord(nonce)
           x == PrivateKey
           w == InverseOf(s)
<1>1. /\ digest \in Int /\ nonce \in Int /\ s \in Int /\ r \in Int /\ x \in Int /\ w \in Int
      /\ Congruent(s * w, 1) /\ sig.r = r
      /\ Congruent(nonce * s, digest + r * x)
  BY InverseExists, Points, KeyAssumption, OrderNat DEF Scalars, Signs
<1>2. Verifies(sig, digest, PrivateKey) <=>
          LET point == (digest * w + r * w * x) % Order
          IN  point # 0 /\ XCoord(point) = r
  BY <1>1 DEF Verifies
<1> HIDE DEF s, r, x, w
<1>3. digest * w + r * w * x = (digest + r * x) * w
  BY <1>1
<1>4. /\ nonce * s \in Int /\ s * w \in Int /\ digest + r * x \in Int
      /\ (nonce * s) * w = nonce * (s * w) /\ (nonce * s) * w \in Int
      /\ (digest + r * x) * w \in Int /\ nonce * 1 = nonce
  BY <1>1
<1>5. Congruent((digest + r * x) * w, (nonce * s) * w)
  BY <1>1, <1>4, CongruentTimes, CongruentSymm
<1>6. Congruent(nonce * (s * w), nonce)
  BY <1>1, CongruentUnit
<1>7. Congruent((digest + r * x) * w, nonce)
  BY <1>1, <1>4, <1>5, <1>6, CongruentTrans
<1> DEFINE point == ((digest + r * x) * w) % Order
<1>8. point \in 0 .. Order - 1 /\ point \in Int /\ Congruent(point, (digest + r * x) * w)
  BY <1>4, Remainder
<1> HIDE DEF point
<1>9. Congruent(point, nonce)
  BY <1>1, <1>4, <1>7, <1>8, CongruentTrans
<1>10. point = nonce
  BY <1>8, <1>9, CongruentEqual, OrderNat DEF Scalars
<1> QED
  BY <1>2, <1>3, <1>10, OrderNat DEF Scalars, point, r

\* And recovers the public key with the parity of its point.
LEMMA SignatureRecovers ==
    ASSUME NEW digest \in Scalars \cup {0}, NEW nonce \in Scalars, NEW sig,
           Signs(sig, digest, nonce)
    PROVE  RecoverCompact(sig, Parity(nonce), digest) = PrivateKey
<1> DEFINE s == sig.s
           r == XCoord(nonce)
           x == PrivateKey
           i == InverseOf(r)
<1>1. /\ digest \in Int /\ nonce \in Int /\ s \in Int /\ r \in Int /\ x \in Int /\ i \in Int
      /\ Congruent(r * i, 1) /\ sig.r = r
      /\ Congruent(nonce * s, digest + r * x)
  BY InverseExists, Points, KeyAssumption, OrderNat DEF Scalars, Signs
<1>2. (CHOOSE p \in Scalars : XCoord(p) = r /\ Parity(p) = Parity(nonce)) = nonce
  BY Points
<1>3. RecoverCompact(sig, Parity(nonce), digest) =
          (i * (s * nonce + (Order - 1) * digest)) % Order
  BY <1>1, <1>2 DEF RecoverCompact
<1> HIDE DEF s, r, x, i
<1> DEFINE e == s * nonce + (Order - 1) * digest
<1>4. e = nonce * s + (Order - 1) * digest /\ nonce * s \in Int
      /\ (Order - 1) * digest \in Int /\ digest + r * x \in Int
      /\ (digest + r * x) + (Order - 1) * digest = r * x + digest * Order
      /\ r * x \in Int /\ r * x + digest * Order \in Int /\ e \in Int
  BY <1>1, OrderNat
<1>5. (Order - 1) * digest = (Order - 1) * digest + 0 * Order
  BY <1>4, OrderNat
<1>6. Congruent((Order - 1) * digest, (Order - 1) * digest)
  BY <1>5 DEF Congruent
<1>7. Congruent(nonce * s + (Order - 1) * digest, (digest + r * x) + (Order - 1) * digest)
  BY <1>1, <1>4, <1>6, CongruentPlus
<1>8. Congruent(r * x + digest * Order, r * x)
  BY <1>1, <1>4 DEF Congruent
<1>9. Congruent(e, r * x)
  BY <1>4, <1>7, <1>8, CongruentTrans
<1> HIDE DEF e
<1> DEFINE q == r * x
<1>20. q \in Int /\ Congruent(e, q)
  BY <1>4, <1>9
<1> HIDE DEF q
<1>10. Congruent(i * e, i * q) /\ i * e \in Int /\ i * q \in Int
  BY <1>1, <1>4, <1>20, CongruentTimes
<1>21. i * q = r * (i * x)
  BY <1>1 DEF q
<1>11. Congruent(i * q, x)
  BY <1>1, <1>21, CongruentUnit
<1>12. Congruent(i * e, x)
  BY <1>1, <1>10, <1>11, CongruentTrans
<1>13. (i * e) % Order \in 0 .. Order - 1 /\ Congruent((i * e) % Order, i * e)
  BY <1>10, Remainder
<1>14. Congruent((i * e) % Order, x)
  BY <1>1, <1>10, <1>12, <1>13, CongruentTrans, OrderNat
<1>15. (i * e) % Order = x
  BY <1>13, <1>14, CongruentEqual, KeyAssumption, OrderNat DEF Scalars, x
<1> QED
  BY <1>3, <1>15 DEF e, x

\* The opposite nonce gives the opposite S.
LEMMA OppositeSigns ==
    ASSUME NEW digest \in Scalars \cup {0}, NEW nonce \in Scalars, NEW sig,
           Signs(sig, digest, nonce)
    PROVE  /\ AsymmetricSign(digest, Order - nonce).s = Order - sig.s
           /\ Signs(AsymmetricSign(digest, Order - nonce), digest, Order - nonce)
<1> DEFINE s == sig.s
           m == digest + XCoord(nonce) * PrivateKey
           k == Order - nonce
           t == AsymmetricSign(digest, k).s
           i == InverseOf(k)
<1>1. /\ nonce \in Int /\ s \in Scalars /\ s \in Int /\ m \in Int /\ k \in Scalars /\ k \in Int
      /\ i \in Int /\ Congruent(k * i, 1) /\ Congruent(nonce * s, m)
      /\ XCoord(k) = XCoord(nonce)
  BY InverseExists, Points, Halves, KeyAssumption, OrderNat DEF Scalars, Signs
<1>2. t = (i * m) % Order
  BY <1>1 DEF AsymmetricSign
<1>0. k + nonce = Order
  BY <1>1, OrderNat
<1> HIDE DEF s, m, k, t, i
<1>3. i * m \in Int
  BY <1>1
<1>4. t \in 0 .. Order - 1 /\ t \in Int /\ Congruent(t, i * m)
  BY <1>2, <1>3, Remainder, OrderNat
<1> DEFINE q == i * m
<1>20. q \in Int /\ Congruent(t, q)
  BY <1>3, <1>4
<1> HIDE DEF q
<1>5. Congruent(k * t, k * q) /\ k * t \in Int /\ k * q \in Int
  BY <1>1, <1>4, <1>20, CongruentTimes
<1>21. Congruent(k * q, m)
  BY <1>1, CongruentUnit DEF q
<1>6. Congruent(k * t, m)
  BY <1>1, <1>5, <1>21, CongruentTrans
<1>7. k * (Order - s) = nonce * s + (k - s) * Order
  BY <1>0, <1>1, OrderNat
<1>22. k - s \in Int /\ Order - s \in Int /\ k * (Order - s) \in Int /\ nonce * s \in Int
  BY <1>1, OrderNat
<1>8. Congruent(k * (Order - s), nonce * s)
  BY <1>7, <1>22 DEF Congruent
<1>9. Congruent(k * (Order - s), m) /\ Congruent(m, k * t)
  BY <1>1, <1>5, <1>6, <1>8, <1>22, CongruentTrans, CongruentSymm
<1>10. Congruent(k * (Order - s), k * t)
  BY <1>1, <1>5, <1>22, <1>9, CongruentTrans
<1>11. Order - s \in 0 .. Order - 1 /\ Order - s \in Scalars
  BY <1>1, Halves, OrderNat DEF Scalars
<1>12. Order - s = t
  BY <1>1, <1>4, <1>10, <1>11, Cancel
<1>13. AsymmetricSign(digest, Order - nonce).r = XCoord(Order - nonce)
  BY DEF AsymmetricSign
<1> QED
  BY <1>1, <1>6, <1>11, <1>12, <1>13 DEF Signs, s, t, k, m

\* One of the two recovery IDs gives the own key.
LEMMA EthSignHashRecovers ==
    ASSUME NEW digest \in Scalars \cup {0}, NEW nonce \in Scalars,
           AsymmetricSign(digest, nonce).s # 0
    PROVE  LET result == EthSignHash(AsymmetricSign(digest, nonce), digest)
           IN  /\ result.v \in {27, 28}
               /\ RecoverCompact(result, result.v - 27, digest) = PrivateKey
<1> DEFINE answer == AsymmetricSign(digest, nonce)
           ids == {id \in {0, 1} : RecoverCompact(answer, id, digest) = PrivateKey}
           first == CHOOSE id \in ids : \A other \in ids : id <= other
           result == EthSignHash(answer, digest)
<1>1. Parity(nonce) \in ids
  BY AnswerSigns, SignatureRecovers, Points
<1>2. first \in ids
  <2>1. \E id \in ids : \A other \in ids : id <= other
    BY <1>1
  <2> QED
    BY <2>1
<1>3. result.r = answer.r /\ result.s = answer.s /\ result.v = 27 + first
  BY <1>1 DEF EthSignHash
<1> HIDE DEF first, result
<1>4. first \in {0, 1} /\ RecoverCompact(answer, first, digest) = PrivateKey
  BY <1>2
<1>5. result.v \in {27, 28} /\ result.v - 27 = first
  BY <1>3, <1>4
<1>6. RecoverCompact(result, first, digest) = PrivateKey
  BY <1>3, <1>4 DEF RecoverCompact
<1> QED
  BY <1>5, <1>6 DEF result

\* Of the answers for a nonce and its opposite, exactly one is handed out.
LEMMA CosmosSignHashCanonical ==
    ASSUME NEW digest \in Scalars \cup {0}, NEW nonce \in Scalars,
           AsymmetricSign(digest, nonce).s # 0
    PROVE  LET result == CosmosSignHash(AsymmetricSign(digest, nonce), digest)
               opposite == AsymmetricSign(digest, Order - nonce)
           IN  /\ result # NoSignature => Verifies(result, digest, PrivateKey)
               /\ (result = NoSignature) <=> (CosmosSignHash(opposite, digest) # NoSignature)
<1> DEFINE answer == AsymmetricSign(digest, nonce)
           opposite == AsymmetricSign(digest, Order - nonce)
           result == CosmosSignHash(answer, digest)
<1>1. Signs(answer, digest, nonce) /\ Verifies(answer, digest, PrivateKey)
  BY AnswerSigns, SignatureVerifies
<1>2. opposite.s = Order - answer.s /\ Signs(opposite, digest, Order - nonce)
  BY <1>1, OppositeSigns
<1>3. Order - nonce \in Scalars
  BY Halves
<1>4. Verifies(opposite, digest, PrivateKey)
  BY <1>2, <1>3, SignatureVerifies
<1>5. /\ IsOverHalfOrder(answer.s) <=> ~IsOverHalfOrder(opposite.s)
      /\ answer.r # 0 /\ opposite.r # 0
  <2>1. answer.s \in Scalars /\ answer.r = XCoord(nonce) /\ opposite.r = XCoord(Order - nonce)
    BY <1>1, <1>2 DEF Signs
  <2>2. XCoord(nonce) \in Scalars /\ XCoord(Order - nonce) \in Scalars
    BY <1>3, Points
  <2>3. answer.s <= Order \div 2 <=> Order - answer.s > Order \div 2
    BY <2>1, Halves
  <2>4. answer.s \in Int /\ Order - answer.s \in Int /\ Order \div 2 \in Int
    BY <2>1, Halves, OrderNat DEF Scalars
  <2> HIDE DEF answer, opposite
  <2>5. IsOverHalfOrder(answer.s) <=> ~IsOverHalfOrder(opposite.s)
    BY <1>2, <2>3, <2>4 DEF IsOverHalfOrder
  <2> QED
    BY <2>1, <2>2, <2>5 DEF Scalars
<1>6. ASSUME NEW sig, Verifies(sig, digest, PrivateKey), sig.r # 0
      PROVE  /\ (CosmosSignHash(sig, digest) # NoSignature) <=> ~IsOverHalfOrder(sig.s)
             /\ CosmosSignHash(sig, digest) # NoSignature =>
                    Verifies(CosmosSignHash(sig, digest), digest, PrivateKey)
  <2>1. ~IsOverHalfOrder(sig.s) =>
            CosmosSignHash(sig, digest) = [r |-> sig.r, s |-> sig.s, v |-> 0]
    BY <1>6 DEF CosmosSignHash
  <2>2. IsOverHalfOrder(sig.s) => CosmosSignHash(sig, digest) = NoSignature
    BY <1>6 DEF CosmosSignHash
  <2>3. [r |-> sig.r, s |-> sig.s, v |-> 0] # NoSignature
    BY <1>6 DEF NoSignature
  <2>4. Verifies([r |-> sig.r, s |-> sig.s, v |-> 0], digest, PrivateKey)
    BY <1>6 DEF Verifies
  <2> QED
    BY <2>1, <2>2, <2>3, <2>4
<1> HIDE DEF answer, opposite
<1> QED
  BY <1>1, <1>4, <1>5, <1>6 DEF answer, opposite

\* What the signature of a run is an answer to.
SignatureInv ==
    \/ signature = NotAsked
    \/ \E kind \in {"eth", "cosmos"}, digest \in Digests, nonce \in Scalars :
           LET answer == AsymmetricSign(digest, nonce)
           IN  /\ answer.s # 0
               /\ signature = [ kind |-> kind, digest |-> digest, nonce |-> nonce,
                                result |-> IF kind = "eth" THEN EthSignHash(answer, digest)
                                           ELSE CosmosSignHash(answer, digest) ]

\* Only Sign makes a signature, out of an answer of the service.
LEMMA SignatureInvNext == SignatureInv /\ [ProcessNext]_processVars => SignatureInv'
<1> SUFFICES ASSUME SignatureInv, [ProcessNext]_processVars PROVE SignatureInv'
  OBVIOUS
<1>1. ASSUME signature' = signature PROVE SignatureInv'
  BY <1>1 DEF SignatureInv
<1>2. CASE Starting
  BY <1>1, <1>2 DEF Starting, ReadFile, ReadENV, ReadSecrets, ValidateConfig, Connect,
     SetupIndexesAndLocker, ValidateCosmosNetwork, ValidateEthereumNetwork,
     NewHealthCheck, NewServices, Stage
<1>3. CASE Started(Next)
  BY <1>1, <1>3 DEF Started, SignatureInv
<1>4. ASSUME NEW kind \in {"eth", "cosmos"}, NEW digest \in Digests, NEW nonce \in Scalars,
             Sign(kind, digest, nonce)
      PROVE  SignatureInv'
  BY <1>4 DEF Sign, SignatureInv
<1>5. CASE UNCHANGED processVars
  BY <1>1, <1>5 DEF processVars, startupVars
<1> QED
  BY <1>2, <1>3, <1>4, <1>5 DEF ProcessNext

\* What is made of an answer is right.
LEMMA SignaturesRight ==
    SignatureInv => EthSignaturesRecover /\ CosmosSignaturesAreCanonical
<1> SUFFICES ASSUME SignatureInv PROVE EthSignaturesRecover /\ CosmosSignaturesAreCanonical
  OBVIOUS
<1>1. CASE signature = NotAsked
  BY <1>1 DEF NotAsked, EthSignaturesRecover, CosmosSignaturesAreCanonical
<1>2. ASSUME NEW kind \in {"eth", "cosmos"}, NEW digest \in Digests, NEW nonce \in Scalars,
             AsymmetricSign(digest, nonce).s # 0,
             signature = [ kind |-> kind, digest |-> digest, nonce |-> nonce,
                 result |-> IF kind = "eth"
                            THEN EthSignHash(AsymmetricSign(digest, nonce), digest)
                            ELSE CosmosSignHash(AsymmetricSign(digest, nonce), digest) ]
      PROVE  EthSignaturesRecover /\ CosmosSignaturesAreCanonical
  <2>1. digest \in Scalars \cup {0}
    BY DigestsAssumption
  <2>2. signature.kind = kind /\ signature.digest = digest /\ signature.nonce = nonce
    BY <1>2
  <2>3. CASE kind = "eth"
    <3>1. signature.result = EthSignHash(AsymmetricSign(digest, nonce), digest)
      BY <1>2, <2>3
    <3> QED
      BY <1>2, <2>1, <2>2, <2>3, <3>1, EthSignHashRecovers
         DEF EthSignaturesRecover, CosmosSignaturesAreCanonical
  <2>4. CASE kind = "cosmos"
    <3>1. signature.result = CosmosSignHash(AsymmetricSign(digest, nonce), digest)
      BY <1>2, <2>4
    <3> QED
      BY <1>2, <2>1, <2>2, <2>4, <3>1, CosmosSignHashCanonical
         DEF EthSignaturesRecover, CosmosSignaturesAreCanonical
  <2> QED
    BY <2>3, <2>4
<1> QED
  BY <1>1, <1>2 DEF SignatureInv

\* EthSign always answers, and with a recovery ID that gives the own key
\* (common/gcp_kms_signer.go ethSignHash): for every key, digest and nonce.
THEOREM EthSignaturesRecovered == ProcessSpec => []EthSignaturesRecover
<1>1. ProcessInit => SignatureInv
  BY DEF ProcessInit, SignatureInv
<1> QED
  BY <1>1, SignatureInvNext, SignaturesRight, PTL DEF ProcessSpec

\* CosmosSign hands out valid signatures only, and of the two that belong to a
\* nonce and its opposite exactly one (cosmosSignHash), for every key.
THEOREM CosmosSignaturesCanonical == ProcessSpec => []CosmosSignaturesAreCanonical
<1>1. ProcessInit => SignatureInv
  BY DEF ProcessInit, SignatureInv
<1> QED
  BY <1>1, SignatureInvNext, SignaturesRight, PTL DEF ProcessSpec

=============================================================================
