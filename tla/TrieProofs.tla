----------------------------- MODULE TrieProofs -----------------------------
(***************************************************************************)
(* Proofs about the shape of the trie, for any letters and any files.      *)
(***************************************************************************)
EXTENDS TrieIndex, SequenceTheorems, NaturalsInduction, WellFoundedInduction, TLAPS

------------------------------------------------------------------------------
(* Induction over the nodes, from the last one and from the first one.     *)

(* A set of numbers that is not empty has a least one.                     *)
LEMMA LeastOf ==
  ASSUME NEW T \in SUBSET Nat, T # {}
  PROVE  \E k \in T : \A l \in T : k <= l
<1> DEFINE R == OpToRel(<, Nat)
<1>1. IsWellFoundedOn(R, Nat)
  BY NatLessThanWellFounded
<1>2. PICK k \in T : \A l \in Nat : <<l, k>> \in R => l \notin T
  BY <1>1, WFMin, Zenon
<1>3. \A l \in T : ~(l < k)
  BY <1>2 DEF OpToRel
<1>4. QED
  BY <1>3

(* What holds of a node if it holds of all before it holds of all.         *)
LEMMA Upward ==
  ASSUME NEW N \in Nat, NEW S, \A k \in 1 .. N : (\A l \in 1 .. k - 1 : l \in S) => k \in S
  PROVE  \A k \in 1 .. N : k \in S
<1> DEFINE Bad == {k \in 1 .. N : k \notin S}
<1> SUFFICES ASSUME Bad # {} PROVE FALSE
  OBVIOUS
<1>0. Bad \in SUBSET Nat
  OBVIOUS
<1> HIDE DEF Bad
<1>1. PICK k \in Bad : \A l \in Bad : k <= l
  BY <1>0, LeastOf
<1> USE DEF Bad
<1>2. \A l \in 1 .. k - 1 : l \in S
  BY <1>1
<1>3. QED
  BY <1>1, <1>2

(* What holds of a node if it holds of all behind it holds of all.         *)
LEMMA Downward ==
  ASSUME NEW N \in Nat, NEW S, \A k \in 1 .. N : (\A l \in k + 1 .. N : l \in S) => k \in S
  PROVE  \A k \in 1 .. N : k \in S
<1> DEFINE Bad == {d \in 1 .. N : N + 1 - d \notin S}
<1> SUFFICES ASSUME NEW k \in 1 .. N, k \notin S PROVE FALSE
  OBVIOUS
<1>1. N + 1 - k \in Bad
  BY SMT
<1>0. Bad \in SUBSET Nat
  OBVIOUS
<1> HIDE DEF Bad
<1>2. PICK d \in Bad : \A e \in Bad : d <= e
  BY <1>0, <1>1, LeastOf
<1> USE DEF Bad
<1>3. \A l \in N + 1 - d + 1 .. N : l \in S
  <2> SUFFICES ASSUME NEW l \in N + 1 - d + 1 .. N, l \notin S PROVE FALSE
    OBVIOUS
  <2>1. N + 1 - l \in Bad /\ N + 1 - l < d
    BY <1>2
  <2>2. QED
    BY <1>2, <2>1
<1>4. QED
  BY <1>2, <1>3

------------------------------------------------------------------------------
(* Chains.                                                                 *)

(* Pointers lead to later nodes.                                           *)
Forward(n) ==
  /\ n \in Seq(Node)
  /\ \A k \in 1 .. Len(n) : /\ n[k].next # 0 => n[k].next \in k + 1 .. Len(n)
                            /\ n[k].cont # 0 => n[k].cont \in k + 1 .. Len(n)

(* What the recursive function in Chain is equal to, on some nodes.        *)
ChainsOn(n, S, f) ==
  f = [k \in S |-> IF k = 0 THEN <<>> ELSE <<k>> \o f[n[k].next]]

(* If pointers lead to later nodes, the recursion in Chain ends: its       *)
(* function is built from the last node on.                                *)
LEMMA ChainsExist ==
  ASSUME NEW n, Forward(n)
  PROVE  \E f : ChainsOn(n, 0 .. Len(n), f)
<1> DEFINE N == Len(n)
           Behind(k) == {0} \cup (k .. N)
           S == {k \in 1 .. N + 1 : \E f : ChainsOn(n, Behind(k), f)}
<1>1. N \in Nat
  BY DEF Forward
<1>2. N + 1 \in S
  <2>1. Behind(N + 1) = {0}
    BY <1>1
  <2> DEFINE f == [k \in {0} |-> <<>>]
  <2>2. f = [k \in {0} |-> IF k = 0 THEN <<>> ELSE <<k>> \o f[n[k].next]]
    OBVIOUS
  <2>3. ChainsOn(n, {0}, f)
    BY <2>2 DEF ChainsOn
  <2>4. \E h : ChainsOn(n, Behind(N + 1), h)
    <3> HIDE DEF f
    <3>1. ChainsOn(n, Behind(N + 1), f)
      BY <2>1, <2>3
    <3>2. QED
      BY <3>1
  <2>5. N + 1 \in 1 .. N + 1
    BY <1>1
  <2>6. QED
    BY <2>4, <2>5
<1>3. ASSUME NEW k \in 1 .. N, k + 1 \in S PROVE k \in S
  <2>1. PICK f : ChainsOn(n, Behind(k + 1), f)
    BY <1>3
  <2> DEFINE g == [l \in Behind(k) |-> IF l = 0 THEN <<>> ELSE <<l>> \o f[n[l].next]]
  <2>2. \A l \in Behind(k) : l # 0 => n[l].next \in Behind(k + 1)
    <3> SUFFICES ASSUME NEW l \in Behind(k), l # 0 PROVE n[l].next \in Behind(k + 1)
      OBVIOUS
    <3>1. l \in k .. N /\ l \in 1 .. N
      BY <1>1
    <3>2. n[l].next # 0 => n[l].next \in l + 1 .. N
      BY <3>1 DEF Forward
    <3>3. QED
      BY <1>1, <3>1, <3>2
  <2>3. \A l \in Behind(k + 1) : l \in Behind(k) /\ f[l] = g[l]
    <3>1. \A l \in Behind(k + 1) : l \in Behind(k)
      BY <1>1
    <3>2. \A l \in Behind(k + 1) : f[l] = IF l = 0 THEN <<>> ELSE <<l>> \o f[n[l].next]
      BY <2>1 DEF ChainsOn
    <3>3. QED
      BY <3>1, <3>2
  <2>4. g = [l \in Behind(k) |-> IF l = 0 THEN <<>> ELSE <<l>> \o g[n[l].next]]
    <3>1. \A l \in Behind(k) : l # 0 => f[n[l].next] = g[n[l].next]
      BY <2>2, <2>3
    <3> HIDE DEF Behind
    <3>2. \A l \in Behind(k) : g[l] = IF l = 0 THEN <<>> ELSE <<l>> \o g[n[l].next]
      BY <3>1
    <3> DEFINE h == [l \in Behind(k) |-> IF l = 0 THEN <<>> ELSE <<l>> \o g[n[l].next]]
    <3>3. \A l \in Behind(k) : h[l] = g[l]
      BY <3>2
    <3>4. g = [l \in Behind(k) |-> g[l]] /\ h = [l \in Behind(k) |-> h[l]]
      OBVIOUS
    <3> HIDE DEF g, h
    <3>5. g = h
      BY <3>3, <3>4
    <3>6. QED
      BY <3>5 DEF h
  <2>5. ChainsOn(n, Behind(k), g)
    BY <2>4 DEF ChainsOn
  <2>6. QED
    BY <1>1, <2>5
<1> HIDE DEF S
<1>4. \A k \in 1 .. N : k \in S
  <2>1. \A k \in 1 .. N : (\A l \in k + 1 .. N : l \in S) => k \in S
    BY <1>1, <1>2, <1>3
  <2>2. QED
    BY <1>1, <2>1, Downward
<1>5. 1 \in S
  BY <1>1, <1>2, <1>4
<1>6. Behind(1) = 0 .. N
  BY <1>1
<1>7. QED
  BY <1>5, <1>6 DEF S

(* So Chain has the equation that defines it.                              *)
LEMMA ChainIs ==
  ASSUME NEW n, Forward(n)
  PROVE  /\ Chain(n, 0) = <<>>
         /\ \A k \in 1 .. Len(n) : Chain(n, k) = <<k>> \o Chain(n, n[k].next)
<1> DEFINE from[k \in 0 .. Len(n)] == IF k = 0 THEN <<>> ELSE <<k>> \o from[n[k].next]
<1>1. ChainsOn(n, 0 .. Len(n), from)
  BY ChainsExist DEF ChainsOn
<1>2. \A k : Chain(n, k) = from[k]
  BY DEF Chain
<1> HIDE DEF from
<1>3. Len(n) \in Nat
  BY DEF Forward
<1>4. \A k \in 0 .. Len(n) : from[k] = IF k = 0 THEN <<>> ELSE <<k>> \o from[n[k].next]
  BY <1>1 DEF ChainsOn
<1> DEFINE Links(k) == IF k = 0 THEN <<>> ELSE <<k>> \o from[n[k].next]
<1>5. \A k \in 0 .. Len(n) : Chain(n, k) = Links(k)
  BY <1>2, <1>4
<1>6. 0 \in 0 .. Len(n) /\ \A k \in 1 .. Len(n) : k \in 0 .. Len(n) /\ k # 0
  BY <1>3
<1>7. Links(0) = <<>> /\ \A k \in 1 .. Len(n) : Links(k) = <<k>> \o Chain(n, n[k].next)
  BY <1>2, <1>6
<1> HIDE DEF Links
<1>8. QED
  BY <1>5, <1>6, <1>7

(* m is k or is behind k on its chain.                                     *)
OnChain(n, k, m) == \E l \in 1 .. Len(Chain(n, k)) : Chain(n, k)[l] = m

(* A number put in front of a sequence.                                    *)
LEMMA Consed ==
  ASSUME NEW S, NEW k \in S, NEW s \in Seq(S)
  PROVE  /\ <<k>> \o s \in Seq(S)
         /\ Len(<<k>> \o s) = Len(s) + 1
         /\ (<<k>> \o s)[1] = k
         /\ \A l \in 1 .. Len(s) : (<<k>> \o s)[l + 1] = s[l]
OBVIOUS

(* A chain is a sequence of nodes.                                         *)
LEMMA ChainSeq ==
  ASSUME NEW n, Forward(n)
  PROVE  \A k \in 0 .. Len(n) : Chain(n, k) \in Seq(1 .. Len(n))
<1> DEFINE N == Len(n)
           S == {k \in 1 .. N : Chain(n, k) \in Seq(1 .. N)}
<1>1. N \in Nat
  BY DEF Forward
<1>2. Chain(n, 0) \in Seq(1 .. N)
  <2>1. \A T : <<>> \in Seq(T)
    OBVIOUS
  <2>2. QED
    BY <2>1, ChainIs
<1>3. ASSUME NEW k \in 1 .. N, \A l \in k + 1 .. N : l \in S PROVE k \in S
  <2>1. n[k].next = 0 \/ n[k].next \in k + 1 .. N
    BY DEF Forward
  <2>2. Chain(n, n[k].next) \in Seq(1 .. N)
    BY <1>2, <1>3, <2>1
  <2>3. Chain(n, k) = <<k>> \o Chain(n, n[k].next)
    BY ChainIs
  <2>4. <<k>> \o Chain(n, n[k].next) \in Seq(1 .. N)
    BY <2>2, Consed, Zenon
  <2>5. QED
    BY <2>3, <2>4
<1> HIDE DEF S
<1>4. \A k \in 1 .. N : k \in S
  BY <1>1, <1>3, Downward
<1>5. QED
  BY <1>1, <1>2, <1>4 DEF S

(* The next of a node is none or a later one.                              *)
LEMMA NextIs ==
  ASSUME NEW n, Forward(n), NEW k \in 1 .. Len(n)
  PROVE  /\ n[k].next \in 0 .. Len(n)
         /\ n[k].next # 0 => n[k].next \in 1 .. Len(n) /\ n[k].next > k
<1>1. Len(n) \in Nat
  BY DEF Forward
<1>2. n[k].next # 0 => n[k].next \in k + 1 .. Len(n)
  BY DEF Forward
<1>3. QED
  BY <1>1, <1>2

(* The nodes of a chain are the first and those of the chain behind it.    *)
LEMMA OnChainIs ==
  ASSUME NEW n, Forward(n)
  PROVE  /\ \A m : ~ OnChain(n, 0, m)
         /\ \A k \in 1 .. Len(n) : \A m : OnChain(n, k, m) <=> m = k \/ OnChain(n, n[k].next, m)
         /\ \A k \in 0 .. Len(n) : \A m : OnChain(n, k, m) => m \in 1 .. Len(n)
<1>1. \A m : ~ OnChain(n, 0, m)
  BY ChainIs DEF OnChain
<1>2. ASSUME NEW k \in 1 .. Len(n), NEW m
      PROVE  OnChain(n, k, m) <=> m = k \/ OnChain(n, n[k].next, m)
  <2> DEFINE s == Chain(n, n[k].next)
             u == Chain(n, k)
  <2>1. s \in Seq(1 .. Len(n)) /\ u = <<k>> \o s
    BY ChainIs, ChainSeq, NextIs
  <2>2. /\ Len(u) = Len(s) + 1 /\ Len(s) \in Nat
        /\ u[1] = k
        /\ \A l \in 1 .. Len(s) : u[l + 1] = s[l]
    BY <2>1, Consed
  <2>5. OnChain(n, k, m) <=> \E l \in 1 .. Len(u) : u[l] = m
    BY DEF OnChain
  <2>6. OnChain(n, n[k].next, m) <=> \E l \in 1 .. Len(s) : s[l] = m
    BY DEF OnChain
  <2> HIDE DEF s, u
  <2>3. ASSUME NEW l \in 1 .. Len(u), u[l] = m PROVE m = k \/ OnChain(n, n[k].next, m)
    <3>1. CASE l = 1
      BY <2>2, <2>3, <3>1
    <3>2. CASE l # 1
      <4>1. l - 1 \in 1 .. Len(s) /\ (l - 1) + 1 = l
        BY <2>2, <3>2
      <4>2. s[l - 1] = m
        BY <2>2, <2>3, <4>1
      <4>3. QED
        BY <2>6, <4>1, <4>2
    <3>3. QED
      BY <3>1, <3>2
  <2>4. ASSUME m = k \/ OnChain(n, n[k].next, m) PROVE OnChain(n, k, m)
    <3>1. CASE m = k
      BY <2>2, <2>5, <3>1
    <3>2. CASE OnChain(n, n[k].next, m)
      <4>1. PICK l \in 1 .. Len(s) : s[l] = m
        BY <2>6, <3>2
      <4>2. l + 1 \in 1 .. Len(u) /\ u[l + 1] = m
        BY <2>2, <4>1
      <4>3. QED
        BY <2>5, <4>2
    <3>3. QED
      BY <2>4, <3>1, <3>2
  <2>7. QED
    BY <2>3, <2>4, <2>5
<1>3. \A k \in 0 .. Len(n) : \A m : OnChain(n, k, m) => m \in 1 .. Len(n)
  BY ChainSeq DEF OnChain
<1>4. QED
  BY <1>1, <1>2, <1>3

(* A walk along a chain ends at a node without a next.                     *)
LEMMA LastOnChain ==
  ASSUME NEW n, Forward(n)
  PROVE  \A k \in 1 .. Len(n) :
           LET m == Chain(n, k)[Len(Chain(n, k))]
           IN  m \in 1 .. Len(n) /\ OnChain(n, k, m) /\ n[m].next = 0
<1> DEFINE N == Len(n)
           last(k) == Chain(n, k)[Len(Chain(n, k))]
           S == {k \in 1 .. N : OnChain(n, k, last(k)) /\ n[last(k)].next = 0}
<1>1. N \in Nat
  BY DEF Forward
<1>2. ASSUME NEW k \in 1 .. N, \A l \in k + 1 .. N : l \in S PROVE k \in S
  <2> DEFINE s == Chain(n, n[k].next)
  <2>1. s \in Seq(1 .. N) /\ Chain(n, k) = <<k>> \o s
    BY ChainIs, ChainSeq, NextIs
  <2>2. /\ Len(Chain(n, k)) = Len(s) + 1 /\ Len(s) \in Nat
        /\ Chain(n, k)[1] = k
        /\ \A l \in 1 .. Len(s) : Chain(n, k)[l + 1] = s[l]
    BY <2>1, Consed
  <2>3. CASE n[k].next = 0
    <3>1. s = <<>>
      BY <2>3, ChainIs
    <3>2. last(k) = k
      BY <2>2, <3>1
    <3>3. QED
      BY <2>3, <3>2, OnChainIs
  <2>4. CASE n[k].next # 0
    <3>1. n[k].next \in S
      BY <1>2, <2>4 DEF Forward
    <3>2. Len(s) # 0
      BY <3>1, <2>2, SMT DEF OnChain
    <3>3. last(k) = last(n[k].next)
      BY <2>2, <3>2
    <3> HIDE DEF last
    <3>4. OnChain(n, k, last(n[k].next))
      BY <3>1, OnChainIs
    <3>5. QED
      BY <3>1, <3>3, <3>4
  <2>5. QED
    BY <2>3, <2>4
<1> HIDE DEF S
<1>3. \A k \in 1 .. N : k \in S
  BY <1>1, <1>2, Downward
<1>4. \A k \in 1 .. N : k \in 0 .. N
  BY <1>1
<1>5. QED
  BY <1>3, <1>4, OnChainIs DEF S
(* Lookup finds a node of the chain with this letter if there is one.      *)
LEMMA LookupIs ==
  ASSUME NEW n, Forward(n), NEW k \in 0 .. Len(n), NEW c
  PROVE  /\ Lookup(n, k, c) = 0 <=> \A m : OnChain(n, k, m) => n[m].letter # c
         /\ Lookup(n, k, c) # 0 => OnChain(n, k, Lookup(n, k, c))
         /\ Lookup(n, k, c) # 0 => n[Lookup(n, k, c)].letter = c
<1> DEFINE chain == Chain(n, k)
           found == {l \in 1 .. Len(chain) : n[chain[l]].letter = c}
<1>1. chain \in Seq(1 .. Len(n))
  BY ChainSeq
<1>2. Lookup(n, k, c) = IF found = {} THEN 0 ELSE chain[Min(found)]
  BY DEF Lookup
<1>3. found = {} <=> \A m : OnChain(n, k, m) => n[m].letter # c
  BY DEF OnChain
<1>4. CASE found = {}
  BY <1>2, <1>3, <1>4
<1>5. CASE found # {}
  <2>1. found \in SUBSET Nat
    BY <1>1
  <2> HIDE DEF found
  <2>2. \E l \in found : \A m \in found : l <= m
    BY <1>5, <2>1, LeastOf
  <2>3. Min(found) \in found
    BY <2>2 DEF Min
  <2> USE DEF found
  <2>4. chain[Min(found)] \in 1 .. Len(n) /\ n[chain[Min(found)]].letter = c
    BY <1>1, <2>3
  <2>5. OnChain(n, k, chain[Min(found)])
    BY <2>3 DEF OnChain
  <2>6. Lookup(n, k, c) = chain[Min(found)] /\ chain[Min(found)] # 0
    BY <1>2, <1>5, <2>4
  <2>7. QED
    BY <1>3, <1>5, <2>4, <2>5, <2>6
<1>6. QED
  BY <1>4, <1>5

(* What is behind the first node of a chain is the next of another.        *)
LEMMA Before ==
  ASSUME NEW n, Forward(n), NEW z
  PROVE  \A k \in 1 .. Len(n) : OnChain(n, k, z) /\ z # k =>
           \E p \in 1 .. Len(n) : OnChain(n, k, p) /\ n[p].next = z
<1> DEFINE N == Len(n)
           Has(k) == \E p \in 1 .. N : OnChain(n, k, p) /\ n[p].next = z
           S == {k \in 1 .. N : OnChain(n, k, z) /\ z # k => Has(k)}
<1>1. N \in Nat
  BY DEF Forward
<1>2. ASSUME NEW k \in 1 .. N, \A l \in k + 1 .. N : l \in S PROVE k \in S
  <2> SUFFICES ASSUME OnChain(n, k, z), z # k PROVE Has(k)
    OBVIOUS
  <2>1. OnChain(n, n[k].next, z)
    BY OnChainIs
  <2>2. n[k].next # 0
    BY <2>1, OnChainIs
  <2>3. n[k].next \in S
    BY <1>2, <2>2 DEF Forward
  <2>4. CASE z = n[k].next
    BY <2>4, OnChainIs
  <2>5. CASE z # n[k].next
    <3>1. PICK p \in 1 .. N : OnChain(n, n[k].next, p) /\ n[p].next = z
      BY <2>1, <2>3, <2>5
    <3>2. QED
      BY <3>1, OnChainIs
  <2>6. QED
    BY <2>4, <2>5
<1> HIDE DEF S
<1>3. \A k \in 1 .. N : k \in S
  BY <1>1, <1>2, Downward
<1>4. QED
  BY <1>3 DEF S

(* No two pointers lead to the same node.                                  *)
Tree(n) ==
  \A k \in 1 .. Len(n) :
    /\ n[k].cont = n[k].next => n[k].cont = 0
    /\ \A l \in 1 .. Len(n) : k # l =>
         /\ n[k].cont = n[l].cont => n[k].cont = 0
         /\ n[k].next = n[l].next => n[k].next = 0
         /\ n[k].cont = n[l].next => n[k].cont = 0

(* Behind a node of a chain no other has its letter.                       *)
Apart(n) ==
  \A k \in 1 .. Len(n) : \A m : OnChain(n, n[k].next, m) => n[m].letter # n[k].letter

(* A node from which the chain of `at' is reached is on it, if no next     *)
(* leads to `at'.                                                          *)
LEMMA OneWay ==
  ASSUME NEW n, Forward(n), Tree(n), NEW at \in 1 .. Len(n),
         \A p \in 1 .. Len(n) : n[p].next # at
  PROVE  \A z \in 1 .. Len(n) : \A k \in 1 .. Len(n) :
           OnChain(n, at, z) /\ OnChain(n, k, z) => OnChain(n, at, k)
<1> DEFINE N == Len(n)
           S == {z \in 1 .. N : \A k \in 1 .. N :
                   OnChain(n, at, z) /\ OnChain(n, k, z) => OnChain(n, at, k)}
<1>1. N \in Nat
  BY DEF Forward
<1>2. ASSUME NEW z \in 1 .. N, \A l \in 1 .. z - 1 : l \in S PROVE z \in S
  <2> SUFFICES ASSUME NEW k \in 1 .. N, OnChain(n, at, z), OnChain(n, k, z)
               PROVE  OnChain(n, at, k)
    OBVIOUS
  <2>1. CASE z = k
    BY <2>1
  <2>2. CASE z = at
    BY <2>2, Before, OnChainIs
  <2>3. CASE z # k /\ z # at
    <3>1. PICK p \in 1 .. N : OnChain(n, k, p) /\ n[p].next = z
      BY <2>3, Before
    <3>2. PICK q \in 1 .. N : OnChain(n, at, q) /\ n[q].next = z
      BY <2>3, Before
    <3>3. p = q
      BY <3>1, <3>2, <1>1 DEF Tree
    <3>4. p \in 1 .. z - 1
      BY <1>1, <3>1 DEF Forward
    <3>5. p \in S
      BY <1>2, <3>4
    <3>6. QED
      BY <3>1, <3>2, <3>3, <3>5
  <2>4. QED
    BY <2>1, <2>2, <2>3
<1> HIDE DEF S
<1>3. \A z \in 1 .. N : z \in S
  BY <1>1, <1>2, Upward
<1>4. QED
  BY <1>3 DEF S

(* Chains are as they were where no next is changed.                       *)
LEMMA SameChains ==
  ASSUME NEW n, NEW n2, Forward(n), Forward(n2), Len(n) <= Len(n2),
         \A k \in 1 .. Len(n) : n2[k].next = n[k].next
  PROVE  \A k \in 0 .. Len(n) : \A m : OnChain(n2, k, m) <=> OnChain(n, k, m)
<1> DEFINE N == Len(n)
           S == {k \in 1 .. N : \A m : OnChain(n2, k, m) <=> OnChain(n, k, m)}
<1>1. N \in Nat /\ Len(n2) \in Nat
  BY DEF Forward
<1>2. ASSUME NEW k \in 1 .. N, \A l \in k + 1 .. N : l \in S PROVE k \in S
  <2>1. k \in 1 .. Len(n2)
    BY <1>1
  <2>2. n[k].next # 0 => n[k].next \in S
    BY <1>2 DEF Forward
  <2>3. \A m : OnChain(n2, n[k].next, m) <=> OnChain(n, n[k].next, m)
    BY <2>2, OnChainIs
  <2>4. QED
    BY <2>1, <2>3, OnChainIs
<1> HIDE DEF S
<1>3. \A k \in 1 .. N : k \in S
  BY <1>1, <1>2, Downward
<1>4. \A k \in 0 .. N : k = 0 \/ k \in 1 .. N
  BY <1>1
<1>5. QED
  BY <1>3, <1>4, OnChainIs DEF S

(* A node put behind the last one of a chain is on every chain that leads  *)
(* there, and on no other.                                                 *)
LEMMA LongerChains ==
  ASSUME NEW n, NEW n2, Forward(n), Forward(n2), Len(n2) = Len(n) + 1,
         NEW last \in 1 .. Len(n), n[last].next = 0, n2[last].next = Len(n) + 1,
         n2[Len(n) + 1].next = 0,
         \A k \in 1 .. Len(n) : k # last => n2[k].next = n[k].next
  PROVE  \A k \in 0 .. Len(n) : \A m :
           OnChain(n2, k, m) <=> OnChain(n, k, m) \/ (m = Len(n) + 1 /\ OnChain(n, k, last))
<1> DEFINE N == Len(n)
           Longer(k) == \A m : OnChain(n2, k, m) <=>
                                OnChain(n, k, m) \/ (m = N + 1 /\ OnChain(n, k, last))
           S == {k \in 1 .. N : Longer(k)}
<1>1. N \in Nat /\ Len(n2) \in Nat
  BY DEF Forward
<1>2. ASSUME NEW k \in 1 .. N, \A l \in k + 1 .. N : l \in S PROVE k \in S
  <2>1. k \in 1 .. Len(n2) /\ N + 1 \in 1 .. Len(n2) /\ N + 1 \notin 1 .. N
    BY <1>1
  <2>2. CASE k = last
    <3>1. \A m : OnChain(n2, N + 1, m) <=> m = N + 1
      BY <2>1, OnChainIs
    <3>2. \A m : OnChain(n2, k, m) <=> m = k \/ m = N + 1
      BY <2>1, <2>2, <3>1, OnChainIs
    <3>3. \A m : OnChain(n, k, m) <=> m = k
      BY <2>2, OnChainIs
    <3>4. QED
      BY <2>2, <3>2, <3>3
  <2>3. CASE k # last
    <3>1. n[k].next # 0 => n[k].next \in S
      BY <1>2 DEF Forward
    <3>2. Longer(n[k].next)
      BY <3>1, OnChainIs
    <3>3. \A m : OnChain(n2, k, m) <=> m = k \/ OnChain(n2, n[k].next, m)
      BY <2>1, <2>3, OnChainIs
    <3>4. \A m : OnChain(n, k, m) <=> m = k \/ OnChain(n, n[k].next, m)
      BY OnChainIs
    <3>5. QED
      BY <2>3, <3>2, <3>3, <3>4
  <2>4. QED
    BY <2>2, <2>3
<1> HIDE DEF S
<1>3. \A k \in 1 .. N : k \in S
  BY <1>1, <1>2, Downward
<1>4. \A k \in 0 .. N : k = 0 \/ k \in 1 .. N
  BY <1>1
<1>5. QED
  BY <1>3, <1>4, OnChainIs DEF S
------------------------------------------------------------------------------
(* The shape of the nodes, and what keeps it.                              *)

ShapeOf(n) == Forward(n) /\ Tree(n) /\ Apart(n)

LEMMA ShapeIs ==
  ASSUME trie.nodes \in Seq(Node)
  PROVE  TrieShape <=> /\ trie.curTrieNode \in (IF trie.nodes = <<>> THEN {0} ELSE 1 .. Len(trie.nodes))
                       /\ ShapeOf(trie.nodes)
<1> DEFINE n == trie.nodes
           N == Len(n)
           links == [k \in 1 .. N |-> {n[k].cont, n[k].next} \ {0}]
           L(k) == /\ links[k] \subseteq k + 1 .. N
                   /\ n[k].cont = n[k].next => n[k].cont = 0
                   /\ \A l \in 1 .. k - 1 : links[k] \cap links[l] = {}
                   /\ Lookup(n, n[k].next, n[k].letter) = 0
<1>1. N \in Nat
  OBVIOUS
<1>2. Forward(n) <=> \A k \in 1 .. N : links[k] \subseteq k + 1 .. N
  BY <1>1 DEF Forward
<1>3. Tree(n) <=> \A k \in 1 .. N : /\ n[k].cont = n[k].next => n[k].cont = 0
                                    /\ \A l \in 1 .. k - 1 : links[k] \cap links[l] = {}
  <2>1. ASSUME Tree(n), NEW k \in 1 .. N, NEW l \in 1 .. k - 1
        PROVE  links[k] \cap links[l] = {}
    <3>1. l \in 1 .. N /\ l # k
      BY <1>1
    <3>2. QED
      BY <2>1, <3>1 DEF Tree
  <2>2. ASSUME NEW k \in 1 .. N, NEW l \in 1 .. N, k # l,
               \A p \in 1 .. N : \A q \in 1 .. p - 1 : links[p] \cap links[q] = {}
        PROVE  /\ n[k].cont = n[l].cont => n[k].cont = 0
               /\ n[k].next = n[l].next => n[k].next = 0
               /\ n[k].cont = n[l].next => n[k].cont = 0
    <3>1. l \in 1 .. k - 1 \/ k \in 1 .. l - 1
      BY <1>1, <2>2
    <3>2. links[k] \cap links[l] = {}
      BY <2>2, <3>1
    <3>3. QED
      BY <3>2
  <2> HIDE DEF links
  <2>3. QED
    BY <2>1, <2>2 DEF Tree
<1>4. ASSUME Forward(n)
      PROVE  Apart(n) <=> \A k \in 1 .. N : Lookup(n, n[k].next, n[k].letter) = 0
  <2>1. \A k \in 1 .. N : n[k].next \in 0 .. N
    BY <1>4, NextIs
  <2>2. QED
    BY <1>4, <2>1, LookupIs DEF Apart
<1>5. TrieShape <=> /\ trie.curTrieNode \in (IF n = <<>> THEN {0} ELSE 1 .. N)
                    /\ \A k \in 1 .. N : L(k)
  BY Zenon DEF TrieShape
<1>6. QED
  <2>1. (\A k \in 1 .. N : L(k)) <=> ShapeOf(n)
    <3> HIDE DEF links
    <3>1. QED
      BY <1>2, <1>3, <1>4, Zenon DEF ShapeOf
  <2>2. QED
    BY <1>5, <2>1, Zenon

(* The same links and letters, in no more nodes.                           *)
LEMMA SameLinks ==
  ASSUME NEW n, NEW n2, ShapeOf(n), n2 \in Seq(Node), Len(n2) = Len(n),
         \A k \in 1 .. Len(n) : /\ n2[k].cont = n[k].cont /\ n2[k].next = n[k].next
                                /\ n2[k].letter = n[k].letter
  PROVE  ShapeOf(n2)
<1>1. Forward(n) /\ Tree(n) /\ Apart(n)
  BY DEF ShapeOf
<1>2. Forward(n2)
  BY <1>1 DEF Forward
<1>3. Tree(n2)
  BY <1>1 DEF Tree
<1>4. Apart(n2)
  <2>0. Len(n) \in Nat
    BY <1>1 DEF Forward
  <2>1. \A k \in 0 .. Len(n) : \A m : OnChain(n2, k, m) <=> OnChain(n, k, m)
    BY <1>1, <1>2, <2>0, SameChains
  <2> SUFFICES ASSUME NEW k \in 1 .. Len(n), NEW m, OnChain(n2, n2[k].next, m)
               PROVE  n2[m].letter # n2[k].letter
    BY DEF Apart
  <2>2. n[k].next \in 0 .. Len(n)
    BY <1>1, NextIs
  <2>3. OnChain(n, n[k].next, m) /\ m \in 1 .. Len(n)
    BY <1>1, <2>1, <2>2, OnChainIs
  <2>4. QED
    BY <1>1, <2>3 DEF Apart
<1>5. QED
  BY <1>2, <1>3, <1>4 DEF ShapeOf

(* What Extend makes of the nodes.                                         *)
LEMMA Extended ==
  ASSUME NEW n \in Seq(Node), NEW at \in 1 .. Len(n), NEW link \in {"cont", "next"}, NEW c \in Letters
  PROVE  LET n2 == Append([n EXCEPT ![at][link] = Len(n) + 1], newTrieNode(c))
         IN  /\ n2 \in Seq(Node) /\ Len(n2) = Len(n) + 1
             /\ \A k \in 1 .. Len(n) : k # at => n2[k] = n[k]
             /\ n2[at].letter = n[at].letter /\ n2[at].index = n[at].index
             /\ n2[at].cont = IF link = "cont" THEN Len(n) + 1 ELSE n[at].cont
             /\ n2[at].next = IF link = "next" THEN Len(n) + 1 ELSE n[at].next
             /\ n2[Len(n) + 1] = [letter |-> c, cont |-> 0, next |-> 0, index |-> <<>>]
<1> DEFINE a == [n[at] EXCEPT ![link] = Len(n) + 1]
           n1 == [n EXCEPT ![at] = a]
           new == newTrieNode(c)
<1>1. a \in Node /\ a.letter = n[at].letter /\ a.index = n[at].index
      /\ a.cont = (IF link = "cont" THEN Len(n) + 1 ELSE n[at].cont)
      /\ a.next = (IF link = "next" THEN Len(n) + 1 ELSE n[at].next)
  <2>1. CASE link = "cont"
    <3>1. a = [n[at] EXCEPT !.cont = Len(n) + 1]
      BY <2>1
    <3>2. n[at] \in Node /\ Len(n) + 1 \in Nat
      OBVIOUS
    <3> HIDE DEF a
    <3>3. QED
      BY <2>1, <3>1, <3>2 DEF Node
  <2>2. CASE link = "next"
    <3>1. a = [n[at] EXCEPT !.next = Len(n) + 1]
      BY <2>2
    <3>2. n[at] \in Node /\ Len(n) + 1 \in Nat
      OBVIOUS
    <3> HIDE DEF a
    <3>3. QED
      BY <2>2, <3>1, <3>2 DEF Node
  <2>3. QED
    BY <2>1, <2>2
<1>2. new \in Node /\ new = [letter |-> c, cont |-> 0, next |-> 0, index |-> <<>>]
  BY DEF Node, newTrieNode
<1> HIDE DEF a, new
<1>3. n1 \in Seq(Node) /\ Len(n1) = Len(n) /\ n1[at] = a
      /\ \A k \in 1 .. Len(n) : k # at => n1[k] = n[k]
  BY <1>1
<1>4. Append(n1, new) \in Seq(Node) /\ Len(Append(n1, new)) = Len(n) + 1
      /\ Append(n1, new)[Len(n) + 1] = new
      /\ \A k \in 1 .. Len(n) : Append(n1, new)[k] = n1[k]
  <2> HIDE DEF n1
  <2>1. QED
    BY <1>2, <1>3
<1>5. n1 = [n EXCEPT ![at][link] = Len(n) + 1]
  BY DEF a
<1> HIDE DEF n1
<1>6. QED
  BY <1>1, <1>2, <1>3, <1>4, <1>5 DEF new
(* A node below `at', also where it takes the place of one that is there.  *)
LEMMA ExtendBelow ==
  ASSUME NEW n, ShapeOf(n), NEW n2 \in Seq(Node), NEW at \in 1 .. Len(n),
         Len(n2) = Len(n) + 1,
         \A k \in 1 .. Len(n) : k # at => n2[k] = n[k],
         n2[at].letter = n[at].letter, n2[at].cont = Len(n) + 1, n2[at].next = n[at].next,
         n2[Len(n) + 1].cont = 0, n2[Len(n) + 1].next = 0
  PROVE  ShapeOf(n2)
<1> DEFINE N == Len(n)
<1>1. Forward(n) /\ Tree(n) /\ Apart(n) /\ N \in Nat
  BY DEF ShapeOf, Forward
<1>2. \A k \in 1 .. N : /\ n2[k].next = n[k].next /\ n2[k].letter = n[k].letter
                        /\ n2[k].cont = IF k = at THEN N + 1 ELSE n[k].cont
  OBVIOUS
<1>3. \A k \in 1 .. Len(n2) : k \in 1 .. N \/ k = N + 1
  BY <1>1
<1>0. \A k \in 1 .. N : /\ n[k].next # 0 => n[k].next \in k + 1 .. N
                        /\ n[k].cont # 0 => n[k].cont \in k + 1 .. N
  BY <1>1 DEF Forward
<1>4. Forward(n2)
  BY <1>1, <1>2, <1>3, <1>0 DEF Forward
<1>5. Tree(n2)
  <2>1. ASSUME NEW k \in 1 .. N PROVE n[k].cont # N + 1 /\ n[k].next # N + 1
    <3>1. \A v : (v # 0 => v \in k + 1 .. N) => v # N + 1
      BY <1>1
    <3>2. /\ n[k].next # 0 => n[k].next \in k + 1 .. N
          /\ n[k].cont # 0 => n[k].cont \in k + 1 .. N
      BY <1>0
    <3>3. QED
      BY <3>1, <3>2
  <2>2. QED
    BY <1>1, <1>2, <1>3, <2>1 DEF Tree
<1>6. Apart(n2)
  <2>1. \A k \in 0 .. N : \A m : OnChain(n2, k, m) <=> OnChain(n, k, m)
    BY <1>1, <1>2, <1>4, SameChains
  <2> SUFFICES ASSUME NEW k \in 1 .. Len(n2), NEW m, OnChain(n2, n2[k].next, m)
               PROVE  n2[m].letter # n2[k].letter
    BY DEF Apart
  <2>2. k \in 1 .. N
    BY <1>3, <1>4, OnChainIs
  <2>3. n[k].next \in 0 .. N
    BY <1>1, <2>2, NextIs
  <2>4. OnChain(n, n[k].next, m) /\ m \in 1 .. N
    BY <1>1, <1>2, <2>1, <2>2, <2>3, OnChainIs
  <2>5. QED
    BY <1>1, <1>2, <2>2, <2>4 DEF Apart
<1>7. QED
  BY <1>4, <1>5, <1>6 DEF ShapeOf

(* No next leads to this node: it is the root or a cont leads to it.       *)
Begins(n, at) == \A p \in 1 .. Len(n) : n[p].next # at

(* A node with a new letter behind the last one of a chain that begins at  *)
(* the root or below a node.                                               *)
LEMMA ExtendChain ==
  ASSUME NEW n, ShapeOf(n), NEW n2 \in Seq(Node), NEW at \in 1 .. Len(n),
         Begins(n, at), NEW c, Lookup(n, at, c) = 0,
         NEW last \in 1 .. Len(n), OnChain(n, at, last), n[last].next = 0,
         Len(n2) = Len(n) + 1,
         \A k \in 1 .. Len(n) : k # last => n2[k] = n[k],
         n2[last].letter = n[last].letter, n2[last].cont = n[last].cont,
         n2[last].next = Len(n) + 1,
         n2[Len(n) + 1].cont = 0, n2[Len(n) + 1].next = 0, n2[Len(n) + 1].letter = c
  PROVE  ShapeOf(n2)
<1> DEFINE N == Len(n)
<1>1. Forward(n) /\ Tree(n) /\ Apart(n) /\ N \in Nat
  BY DEF ShapeOf, Forward
<1>2. \A k \in 1 .. N : /\ n2[k].cont = n[k].cont /\ n2[k].letter = n[k].letter
                        /\ n2[k].next = IF k = last THEN N + 1 ELSE n[k].next
  OBVIOUS
<1>3. \A k \in 1 .. Len(n2) : k \in 1 .. N \/ k = N + 1
  BY <1>1
<1>0. \A k \in 1 .. N : /\ n[k].next # 0 => n[k].next \in k + 1 .. N
                        /\ n[k].cont # 0 => n[k].cont \in k + 1 .. N
  BY <1>1 DEF Forward
<1>4. Forward(n2)
  BY <1>1, <1>2, <1>3, <1>0, SMTT(30) DEF Forward
<1>5. Tree(n2)
  <2>1. ASSUME NEW k \in 1 .. N PROVE n[k].cont # N + 1 /\ n[k].next # N + 1
    <3>1. \A v : (v # 0 => v \in k + 1 .. N) => v # N + 1
      BY <1>1
    <3>2. /\ n[k].next # 0 => n[k].next \in k + 1 .. N
          /\ n[k].cont # 0 => n[k].cont \in k + 1 .. N
      BY <1>0
    <3>3. QED
      BY <3>1, <3>2
  <2>2. QED
    BY <1>1, <1>2, <1>3, <2>1 DEF Tree
<1>6. \A k \in 0 .. N : \A m :
        OnChain(n2, k, m) <=> OnChain(n, k, m) \/ (m = N + 1 /\ OnChain(n, k, last))
  BY <1>1, <1>2, <1>4, LongerChains
<1>7. \A m : OnChain(n, at, m) => n[m].letter # c
  <2>1. at \in 0 .. N
    BY <1>1
  <2>2. QED
    BY <1>1, <2>1, LookupIs
<1>8. Apart(n2)
  <2> SUFFICES ASSUME NEW k \in 1 .. Len(n2), NEW m, OnChain(n2, n2[k].next, m)
               PROVE  n2[m].letter # n2[k].letter
    BY DEF Apart
  <2>1. k \in 1 .. N
    BY <1>3, <1>4, OnChainIs
  <2>2. n[k].next \in 0 .. N
    BY <1>1, <2>1, NextIs
  <2>3. CASE k = last
    <3>1. m = N + 1
      BY <1>2, <1>4, <2>3, OnChainIs
    <3>2. QED
      BY <1>2, <1>7, <2>3, <3>1
  <2>4. CASE k # last /\ OnChain(n, n[k].next, m)
    <3>1. m \in 1 .. N
      BY <1>1, <2>2, <2>4, OnChainIs
    <3>2. QED
      BY <1>1, <1>2, <2>1, <2>4, <3>1 DEF Apart
  <2>5. CASE k # last /\ m = N + 1 /\ OnChain(n, n[k].next, last)
    <3>1. OnChain(n, k, last)
      BY <1>1, <2>1, <2>5, OnChainIs
    <3>2. OnChain(n, at, k)
      BY <1>1, <2>1, <3>1, OneWay DEF Begins
    <3>3. QED
      BY <1>2, <1>7, <2>1, <2>5, <3>2
  <2>6. QED
    BY <1>2, <1>6, <2>1, <2>2, <2>3, <2>4, <2>5
<1>9. QED
  BY <1>4, <1>5, <1>8 DEF ShapeOf
------------------------------------------------------------------------------
(* The part of TrieInv that is about the trie, of any trie.                *)

TrieType ==
  [nodes : Seq(Node), curTrieNode : Nat, newContFlag : {0, 1, 3},
   resultFlag : BOOLEAN, counter : BOOLEAN, words : Nat]

TrieOk(t) ==
  /\ t \in TrieType
  /\ t.counter \/ t.resultFlag => t.nodes # <<>>
  /\ t.newContFlag = 0 /\ t.nodes # <<>> => t.curTrieNode = 1
  /\ t.newContFlag = 3 => t.nodes # <<>> /\ t.nodes[t.curTrieNode].cont # 0
  /\ t.curTrieNode \in (IF t.nodes = <<>> THEN {0} ELSE 1 .. Len(t.nodes))
  /\ ShapeOf(t.nodes)

(* A posting list stays one.                                               *)
LEMMA PostType ==
  ASSUME NEW index \in Seq(Posting), NEW textId \in Nat, NEW file \in Nat
  PROVE  Post(index, textId, file) \in Seq(Posting)
<1> DEFINE same == {k \in 1 .. Len(index) : index[k].textId = textId /\ index[k].file = file}
<1>1. CASE same = {}
  <2>1. newPlistNode(textId, file) \in Posting
    BY DEF newPlistNode, Posting
  <2>2. QED
    BY <1>1, <2>1 DEF Post
<1>2. CASE same # {}
  <2>1. same \in SUBSET Nat /\ same \subseteq 1 .. Len(index)
    OBVIOUS
  <2> HIDE DEF same
  <2>2. \E l \in same : \A m \in same : l <= m
    BY <1>2, <2>1, LeastOf
  <2>3. Min(same) \in 1 .. Len(index)
    BY <2>1, <2>2 DEF Min
  <2> DEFINE l == Min(same)
             p == [index[l] EXCEPT !.wordFrq = @ + 1]
  <2>4. Post(index, textId, file) = [index EXCEPT ![l] = p]
    BY <1>2 DEF Post, same
  <2>5. l \in 1 .. Len(index)
    BY <2>3
  <2> HIDE DEF l
  <2>6. index[l] \in Posting
    BY <2>5
  <2>7. p \in Posting
    <3>1. \A r \in Posting : [r EXCEPT !.wordFrq = @ + 1] \in Posting
      BY DEF Posting
    <3>2. QED
      BY <2>6, <3>1, Zenon
  <2> HIDE DEF p
  <2>8. QED
    BY <2>4, <2>5, <2>7
<1>3. QED
  BY <1>1, <1>2

(* The end of a word changes a posting list only, and goes back to the     *)
(* root.                                                                   *)
LEMMA WordEndsKeeps ==
  ASSUME NEW t, TrieOk(t), NEW textId \in Nat, NEW file \in Nat
  PROVE  TrieOk(WordEnds(t, textId, file))
<1>1. CASE ~t.resultFlag
  BY <1>1 DEF WordEnds
<1>2. CASE t.resultFlag
  <2> DEFINE n == t.nodes
             q == t.curTrieNode
             node == [n[q] EXCEPT !.index = Post(@, textId, file)]
             n2 == [n EXCEPT ![q] = node]
             t2 == WordEnds(t, textId, file)
  <2>1. n \in Seq(Node) /\ n # <<>> /\ q \in 1 .. Len(n) /\ ShapeOf(n)
    BY <1>2 DEF TrieOk, TrieType
  <2>2. n[q] \in Node /\ n[q].index \in Seq(Posting)
    <3> HIDE DEF n, q
    <3>1. n[q] \in Node
      BY <2>1
    <3>2. QED
      BY <3>1 DEF Node
  <2>3. Post(n[q].index, textId, file) \in Seq(Posting)
    BY <2>2, PostType
  <2>4. /\ node \in Node /\ node.cont = n[q].cont /\ node.next = n[q].next
        /\ node.letter = n[q].letter
    BY <2>2, <2>3 DEF Node
  <2>5. t2 = [t EXCEPT !.nodes = n2, !.resultFlag = FALSE, !.newContFlag = 0,
                       !.curTrieNode = 1, !.words = t.words + 1]
    BY <1>2 DEF WordEnds
  <2> HIDE DEF node, t2
  <2>6. /\ n2 \in Seq(Node) /\ Len(n2) = Len(n)
        /\ \A k \in 1 .. Len(n) : /\ n2[k].cont = n[k].cont /\ n2[k].next = n[k].next
                                  /\ n2[k].letter = n[k].letter
    BY <2>1, <2>4
  <2> HIDE DEF n2
  <2>7. ShapeOf(n2)
    BY <2>1, <2>6, SameLinks
  <2>8. n2 # <<>> /\ 1 \in 1 .. Len(n2)
    BY <2>1, <2>6
  <2>9. t \in TrieType /\ t.words + 1 \in Nat
    BY DEF TrieOk, TrieType
  <2>10. t2 \in TrieType /\ t2.nodes = n2 /\ t2.newContFlag = 0 /\ t2.curTrieNode = 1
    BY <2>5, <2>6, <2>9 DEF TrieType
  <2>11. QED
    BY <2>7, <2>8, <2>10 DEF TrieOk, t2
<1>3. QED
  BY <1>1, <1>2

(* The first letter of a file makes the root or goes to it.                *)
LEMMA FirstLetterKeeps ==
  ASSUME NEW t, TrieOk(t), NEW c \in Letters
  PROVE  TrieOk([FirstLetter(t, c) EXCEPT !.counter = TRUE, !.resultFlag = TRUE])
<1> DEFINE n == t.nodes
           n2 == IF n = <<>> THEN <<newTrieNode(c)>> ELSE n
           t2 == [FirstLetter(t, c) EXCEPT !.counter = TRUE, !.resultFlag = TRUE]
<1>1. t \in TrieType /\ n \in Seq(Node) /\ ShapeOf(n)
  BY DEF TrieOk, TrieType
<1>2. t2 = [t EXCEPT !.nodes = n2, !.curTrieNode = 1, !.newContFlag = 1,
                     !.counter = TRUE, !.resultFlag = TRUE]
  BY <1>1 DEF FirstLetter, TrieType
<1> HIDE DEF t2
<1>3. n2 \in Seq(Node) /\ n2 # <<>> /\ 1 \in 1 .. Len(n2) /\ ShapeOf(n2)
  <2>1. CASE n # <<>>
    BY <1>1, <2>1
  <2>2. CASE n = <<>>
    <3>1. newTrieNode(c) \in Node /\ newTrieNode(c).cont = 0 /\ newTrieNode(c).next = 0
      BY DEF newTrieNode, Node
    <3>2. n2 = <<newTrieNode(c)>>
      BY <2>2
    <3> HIDE DEF n2
    <3>3. n2 \in Seq(Node) /\ Len(n2) = 1 /\ n2[1].cont = 0 /\ n2[1].next = 0
      BY <3>1, <3>2
    <3>4. Forward(n2)
      BY <3>3 DEF Forward
    <3>5. Tree(n2)
      BY <3>3 DEF Tree
    <3>6. Apart(n2)
      BY <3>3, <3>4, OnChainIs DEF Apart
    <3>7. QED
      BY <3>3, <3>4, <3>5, <3>6, SMTT(30) DEF ShapeOf
  <2>3. QED
    BY <2>1, <2>2
<1> HIDE DEF n2
<1>4. t2 \in TrieType /\ t2.nodes = n2 /\ t2.newContFlag = 1 /\ t2.curTrieNode = 1
  BY <1>1, <1>2, <1>3 DEF TrieType
<1>5. QED
  BY <1>3, <1>4 DEF TrieOk, t2
(* A new node below or behind another, once the nodes have their shape.    *)
LEMMA ExtendKeeps ==
  ASSUME NEW t, TrieOk(t), NEW c, NEW at, NEW link,
         LET n2 == Append([t.nodes EXCEPT ![at][link] = Len(t.nodes) + 1], newTrieNode(c))
         IN  n2 \in Seq(Node) /\ Len(n2) = Len(t.nodes) + 1 /\ ShapeOf(n2)
  PROVE  TrieOk([Extend(t, c, at, link) EXCEPT !.resultFlag = TRUE])
<1> DEFINE N == Len(t.nodes)
           n2 == Append([t.nodes EXCEPT ![at][link] = Len(t.nodes) + 1], newTrieNode(c))
           t2 == [Extend(t, c, at, link) EXCEPT !.resultFlag = TRUE]
<1>1. Extend(t, c, at, link) = [t EXCEPT !.nodes = n2, !.curTrieNode = N + 1, !.newContFlag = 1]
  BY DEF Extend
<1> HIDE DEF n2
<1>2. n2 \in Seq(Node) /\ Len(n2) = N + 1 /\ ShapeOf(n2)
  BY DEF n2
<1>3. t \in TrieType /\ N + 1 \in Nat /\ N + 1 \in 1 .. Len(n2) /\ n2 # <<>>
  BY <1>2 DEF TrieOk, TrieType
<1> HIDE DEF N
<1>4. t2 = [t EXCEPT !.nodes = n2, !.curTrieNode = N + 1, !.newContFlag = 1, !.resultFlag = TRUE]
  BY <1>1, <1>3 DEF TrieType
<1> HIDE DEF t2
<1>5. t2 \in TrieType /\ t2.nodes = n2 /\ t2.newContFlag = 1 /\ t2.curTrieNode = N + 1
  BY <1>2, <1>3, <1>4 DEF TrieType
<1>6. TrieOk(t2)
  BY <1>2, <1>3, <1>5 DEF TrieOk
<1>7. QED
  BY <1>6 DEF t2

(* A later letter gets a node below, is found on the chain, or gets a node *)
(* behind the last of it.                                                  *)
LEMMA LaterLetterKeeps ==
  ASSUME NEW t, TrieOk(t), NEW c \in Letters, t.nodes # <<>>
  PROVE  TrieOk([LaterLetter(t, c) EXCEPT !.resultFlag = TRUE])
<1> DEFINE n     == t.nodes
           at    == IF t.newContFlag = 3 THEN n[t.curTrieNode].cont ELSE t.curTrieNode
           chain == Chain(n, at)
           last  == chain[Len(chain)]
           hit   == Lookup(n, at, c)
<1>1. /\ t \in TrieType /\ n \in Seq(Node) /\ t.curTrieNode \in 1 .. Len(n)
      /\ ShapeOf(n) /\ Forward(n) /\ Tree(n)
  BY DEF TrieOk, TrieType, ShapeOf
<1>2. at \in 1 .. Len(n)
  <2>1. t.newContFlag = 3 => n[t.curTrieNode].cont \in t.curTrieNode + 1 .. Len(n)
    BY <1>1 DEF TrieOk, Forward
  <2>2. QED
    BY <1>1, <2>1
<1>3. LaterLetter(t, c) =
        IF t.newContFlag = 1 THEN Extend(t, c, at, "cont")
        ELSE IF hit = 0 THEN Extend(t, c, last, "next")
        ELSE [t EXCEPT !.curTrieNode = hit, !.newContFlag = IF n[hit].cont = 0 THEN 1 ELSE 3]
  BY DEF LaterLetter
<1>4. ASSUME t.newContFlag # 1 PROVE Begins(n, at)
  <2>1. CASE t.newContFlag = 3
    <3>1. n[t.curTrieNode].cont # 0 /\ at = n[t.curTrieNode].cont
      BY <2>1 DEF TrieOk
    <3>2. QED
      BY <1>1, <3>1 DEF Tree, Begins
  <2>2. CASE t.newContFlag = 0
    <3>1. at = 1
      BY <2>2 DEF TrieOk
    <3>2. QED
      BY <1>1, <3>1, NextIs DEF Begins
  <2>3. QED
    BY <1>1, <1>4, <2>1, <2>2 DEF TrieType
<1> HIDE DEF n, at, chain, last, hit
<1>5. CASE t.newContFlag = 1
  <2> DEFINE n2 == Append([n EXCEPT ![at]["cont"] = Len(n) + 1], newTrieNode(c))
  <2>1. /\ n2 \in Seq(Node) /\ Len(n2) = Len(n) + 1
        /\ \A k \in 1 .. Len(n) : k # at => n2[k] = n[k]
        /\ n2[at].letter = n[at].letter
        /\ n2[at].cont = Len(n) + 1
        /\ n2[at].next = n[at].next
        /\ n2[Len(n) + 1] = [letter |-> c, cont |-> 0, next |-> 0, index |-> <<>>]
    <3>1. "cont" \in {"cont", "next"} /\ "cont" # "next"
      OBVIOUS
    <3>2. QED
      BY <1>1, <1>2, <3>1, Extended, ZenonT(40)
  <2> HIDE DEF n2
  <2>2. ShapeOf(n2)
    BY <1>1, <1>2, <2>1, ExtendBelow, SMTT(30)
  <2>3. TrieOk([Extend(t, c, at, "cont") EXCEPT !.resultFlag = TRUE])
    BY <1>2, <2>1, <2>2, ExtendKeeps DEF n, n2
  <2>4. QED
    BY <1>3, <1>5, <2>3
<1>6. CASE t.newContFlag # 1 /\ hit = 0
  <2> DEFINE n2 == Append([n EXCEPT ![last]["next"] = Len(n) + 1], newTrieNode(c))
  <2>1. last \in 1 .. Len(n) /\ OnChain(n, at, last) /\ n[last].next = 0
    BY <1>1, <1>2, LastOnChain DEF last, chain
  <2>2. Begins(n, at) /\ Lookup(n, at, c) = 0
    BY <1>4, <1>6 DEF hit
  <2>3. last \in 1 .. Len(n) /\ "next" \in {"cont", "next"} /\ "next" # "cont"
    BY <2>1
  <2>4. /\ n2 \in Seq(Node) /\ Len(n2) = Len(n) + 1
        /\ \A k \in 1 .. Len(n) : k # last => n2[k] = n[k]
        /\ n2[last].letter = n[last].letter
        /\ n2[last].cont = n[last].cont
        /\ n2[last].next = Len(n) + 1
        /\ n2[Len(n) + 1] = [letter |-> c, cont |-> 0, next |-> 0, index |-> <<>>]
    BY <1>1, <2>3, Extended, ZenonT(40)
  <2> HIDE DEF n2
  <2>5. n2[Len(n) + 1].cont = 0 /\ n2[Len(n) + 1].next = 0 /\ n2[Len(n) + 1].letter = c
    BY <2>4
  <2>6. ShapeOf(n2)
    BY <1>1, <1>2, <2>1, <2>2, <2>4, <2>5, ExtendChain
  <2>7. TrieOk([Extend(t, c, last, "next") EXCEPT !.resultFlag = TRUE])
    BY <2>3, <2>4, <2>6, ExtendKeeps DEF n, n2
  <2>8. QED
    BY <1>3, <1>6, <2>7
<1>7. CASE t.newContFlag # 1 /\ hit # 0
  <2> DEFINE flag == IF n[hit].cont = 0 THEN 1 ELSE 3
             t2 == [LaterLetter(t, c) EXCEPT !.resultFlag = TRUE]
  <2>1. hit \in 1 .. Len(n)
    <3>1. at \in 0 .. Len(n)
      BY <1>2
    <3>2. OnChain(n, at, hit)
      BY <1>1, <1>7, <3>1, LookupIs DEF hit
    <3>3. QED
      BY <1>1, <3>1, <3>2, OnChainIs
  <2>2. LaterLetter(t, c) = [t EXCEPT !.curTrieNode = hit, !.newContFlag = flag]
    BY <1>3, <1>7
  <2>3. t2 = [t EXCEPT !.curTrieNode = hit, !.newContFlag = flag, !.resultFlag = TRUE]
    BY <1>1, <2>2 DEF TrieType
  <2>4. hit \in Nat /\ flag \in {0, 1, 3} /\ flag # 0 /\ (flag = 3 => n[hit].cont # 0) /\ n # <<>>
    BY <2>1 DEF n
  <2> HIDE DEF t2, flag
  <2>5. t2 \in TrieType /\ t2.nodes = n /\ t2.newContFlag = flag /\ t2.curTrieNode = hit
    BY <1>1, <2>3, <2>4 DEF TrieType, n
  <2>6. TrieOk(t2)
    BY <1>1, <2>1, <2>4, <2>5 DEF TrieOk
  <2>7. QED
    BY <2>6 DEF t2
<1>8. QED
  BY <1>5, <1>6, <1>7
(* Any character.                                                          *)
LEMMA ParseKeeps ==
  ASSUME NEW t, TrieOk(t), NEW c \in Chars, NEW textId \in Nat, NEW file \in Nat
  PROVE  TrieOk(Parse(t, c, textId, file))
<1>1. CASE c = " "
  BY <1>1, WordEndsKeeps DEF Parse
<1>2. CASE c # " " /\ ~t.counter
  <2>1. c \in Letters
    BY <1>2 DEF Chars
  <2>2. Parse(t, c, textId, file) = [FirstLetter(t, c) EXCEPT !.counter = TRUE, !.resultFlag = TRUE]
    BY <1>2 DEF Parse
  <2>3. TrieOk([FirstLetter(t, c) EXCEPT !.counter = TRUE, !.resultFlag = TRUE])
    BY <2>1, FirstLetterKeeps
  <2>4. QED
    BY <2>2, <2>3, Zenon
<1>3. CASE c # " " /\ t.counter
  <2>1. c \in Letters /\ t.nodes # <<>>
    BY <1>3 DEF Chars, TrieOk
  <2>2. Parse(t, c, textId, file) = [LaterLetter(t, c) EXCEPT !.resultFlag = TRUE]
    BY <1>3 DEF Parse
  <2>3. TrieOk([LaterLetter(t, c) EXCEPT !.resultFlag = TRUE])
    BY <2>1, LaterLetterKeeps
  <2>4. QED
    BY <2>2, <2>3, Zenon
<1>4. t.counter \in BOOLEAN
  BY DEF TrieOk, TrieType
<1>5. QED
  BY <1>1, <1>2, <1>3, <1>4

(* The part of TrieInv that is about the places in the files.              *)
Places ==
  /\ phase \in {"read", "insert", "exit", "crash"}
  /\ text \in Seq(Seq(Chars)) \ {<<>>} /\ files \in Seq(Seq(Seq(Chars)))
  /\ i \in Nat /\ j \in Nat /\ (phase = "insert" => i > 0 /\ j > 0)

(* TrieInv is about the places in the files, and about the trie.           *)
LEMMA InvIs == TrieInv <=> Places /\ TrieOk(trie)
<1>1. trie \in TrieType => trie.nodes \in Seq(Node)
  BY DEF TrieType
<1>2. QED
  BY <1>1, ShapeIs DEF TrieInv, Places, TrieOk, TrieType

(* It holds at first.                                                      *)
LEMMA TrieInitially == Init => TrieInv
<1> SUFFICES ASSUME Init PROVE TrieInv
  OBVIOUS
<1>1. << <<>> >> \in Seq(Seq(Chars)) \ {<<>>}
  OBVIOUS
<1>2. Places
  BY <1>1 DEF Init, Places
<1>3. /\ trie \in TrieType /\ trie.nodes = <<>> /\ trie.curTrieNode = 0
      /\ trie.newContFlag = 0 /\ ~trie.resultFlag /\ ~trie.counter
  BY DEF Init, TrieType
<1>4. ShapeOf(<<>>)
  BY DEF ShapeOf, Forward, Tree, Apart
<1>5. TrieOk(trie)
  BY <1>3, <1>4 DEF TrieOk
<1>6. QED
  BY <1>2, <1>5, InvIs

(* Every step keeps it.                                                    *)
LEMMA TrieKept == TrieInv /\ [Next]_vars => TrieInv'
<1> SUFFICES ASSUME TrieInv, [Next]_vars PROVE TrieInv'
  OBVIOUS
<1>1. Places /\ TrieOk(trie)
  BY InvIs
<1>2. ASSUME Places', TrieOk(trie)' PROVE TrieInv'
  BY <1>2, InvIs, PTL
<1>3. ASSUME UNCHANGED trie PROVE TrieOk(trie)'
  BY <1>1, <1>3 DEF TrieOk
<1>4. <<>> \in Seq(Chars) /\ << <<>> >> \in Seq(Seq(Chars)) \ {<<>>}
  OBVIOUS
<1>5. ASSUME NEW c \in Chars, ReadChar(c) PROVE TrieInv'
  <2> DEFINE k == Len(text)
             line == Append(text[k], c)
  <2>1. /\ text \in Seq(Seq(Chars)) \ {<<>>} /\ k \in 1 .. Len(text)
        /\ text' = [text EXCEPT ![k] = line]
    BY <1>1, <1>5 DEF Places, ReadChar
  <2>2. line \in Seq(Chars)
    <3>1. text[k] \in Seq(Chars)
      BY <2>1
    <3>2. QED
      BY <3>1
  <2> HIDE DEF k, line
  <2>3. text' \in Seq(Seq(Chars)) \ {<<>>}
    BY <2>1, <2>2
  <2>4. Places'
    BY <1>1, <1>5, <2>3 DEF Places, ReadChar, Reads
  <2>5. QED
    BY <1>2, <1>3, <1>5, <2>4 DEF ReadChar
<1>6. CASE ReadNewline
  <2>1. Places'
    BY <1>1, <1>4, <1>6, SMTT(30) DEF Places, ReadNewline, Reads
  <2>2. QED
    BY <1>2, <1>3, <1>6, <2>1 DEF ReadNewline
<1>7. CASE RejectFile \/ OpenFails
  <2>1. Places'
    BY <1>1, <1>7 DEF Places, RejectFile, OpenFails, FileFails
  <2>2. QED
    BY <1>2, <1>3, <1>7, <2>1 DEF RejectFile, OpenFails, FileFails
<1>8. CASE ReadEOF
  <2>1. Places'
    BY <1>1, <1>8 DEF Places, ReadEOF
  <2>2. trie' = [trie EXCEPT !.counter = FALSE, !.resultFlag = FALSE, !.words = 0]
    BY <1>8 DEF ReadEOF
  <2>3. /\ trie' \in TrieType /\ trie'.nodes = trie.nodes /\ trie'.curTrieNode = trie.curTrieNode
        /\ trie'.newContFlag = trie.newContFlag /\ ~trie'.resultFlag /\ ~trie'.counter
    BY <1>1, <2>2 DEF TrieOk, TrieType
  <2>4. TrieOk(trie)'
    BY <1>1, <2>3 DEF TrieOk
  <2>5. QED
    BY <1>2, <2>1, <2>4
<1>9. CASE InsertChar
  <2>1. Places'
    BY <1>1, <1>9 DEF Places, InsertChar
  <2>2. i \in 1 .. Len(text) /\ j \in Nat \ {0} /\ text[i] \in Seq(Chars) /\ Len(files) + 1 \in Nat
    BY <1>1, <1>9 DEF Places, InsertChar
  <2>3. CASE j <= Len(text[i])
    <3> DEFINE t == Parse(trie, text[i][j], i, Len(files) + 1)
    <3>1. text[i][j] \in Chars /\ i \in Nat
      BY <2>2, <2>3
    <3>2. TrieOk(t)
      BY <1>1, <2>2, <3>1, ParseKeeps
    <3>3. trie' = IF j = Len(text[i]) THEN WordEnds(t, i, Len(files) + 1) ELSE t
      BY <1>9, <2>3 DEF InsertChar
    <3> HIDE DEF t
    <3>4. TrieOk(trie')
      BY <2>2, <3>1, <3>2, <3>3, WordEndsKeeps
    <3>5. TrieOk(trie)'
      BY <3>4
    <3>6. QED
      BY <1>2, <2>1, <3>5
  <2>4. CASE ~(j <= Len(text[i]))
    BY <1>2, <1>3, <1>9, <2>1, <2>4 DEF InsertChar
  <2>5. QED
    BY <2>3, <2>4
<1>10. CASE FinishFile
  <2>1. Places'
    BY <1>1, <1>4, <1>10 DEF Places, FinishFile, EmptyMap
  <2>2. QED
    BY <1>2, <1>3, <1>10, <2>1 DEF FinishFile
<1>11. CASE UNCHANGED vars
  <2>1. Places'
    BY <1>1, <1>11 DEF Places, vars
  <2>2. QED
    BY <1>2, <1>3, <1>11, <2>1 DEF vars
<1>12. QED
  BY <1>5, <1>6, <1>7, <1>8, <1>9, <1>10, <1>11 DEF Next

(* The trie keeps its shape, for any letters and any files, so that every  *)
(* walk over it ends (trie.c:58-205, 252-340).                             *)
THEOREM TrieKeepsShape == Spec => []TrieShape
<1>1. TrieInv => TrieShape
  BY DEF TrieInv
<1>2. QED
  BY <1>1, TrieInitially, TrieKept, PTL DEF Spec
==============================================================================
