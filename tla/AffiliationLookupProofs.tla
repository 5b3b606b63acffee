----------------------- MODULE AffiliationLookupProofs -----------------------
(***************************************************************************)
(* What grants and releases make of the pool of channels and the table of  *)
(* grants, for every number of channels and destinations: the facts that   *)
(* the proofs about the control channels of P25 and DMR share.             *)
(***************************************************************************)
EXTENDS AffiliationLookup, FiniteSetTheorems, SequenceTheorems, TLAPS

-----------------------------------------------------------------------------
(* The pool and the grant table as values, so that the same facts serve     *)
(* before and after a step.                                                 *)

Pools  == Seq(Channels)
Tables == [Dsts -> Channels \cup {NoCh}]

GrantedIn(tbl) == {d \in Dsts : tbl[d] # NoCh}

Conserved(pool, tbl) ==
    /\ \A i, j \in DOMAIN pool : pool[i] = pool[j] => i = j
    /\ \A d, e \in GrantedIn(tbl) : tbl[d] = tbl[e] => d = e
    /\ \A i \in DOMAIN pool, d \in GrantedIn(tbl) : pool[i] # tbl[d]
    /\ \A ch \in Channels : (\E i \in DOMAIN pool : pool[i] = ch)
                            \/ (\E d \in GrantedIn(tbl) : tbl[d] = ch)

Erased(tbl, ds, no) == [d \in Dsts |-> IF d \in ds THEN no ELSE tbl[d]]

HeldIn(tbl) == {tbl[d] : d \in GrantedIn(tbl)}

-----------------------------------------------------------------------------
(* Orders of a finite set.                                                  *)

\* An order visits each destination once.
LEMMA OrderIsOneToOne ==
    ASSUME NEW ds \in SUBSET Dsts, NEW o \in Orders(ds)
    PROVE  /\ Cardinality(ds) \in Nat
           /\ o \in [1..Cardinality(ds) -> ds]
           /\ \A d \in ds : \E i \in 1..Cardinality(ds) : o[i] = d
           /\ \A i, j \in 1..Cardinality(ds) : o[i] = o[j] => i = j
<1> DEFINE n == Cardinality(ds)
<1>1. IsFiniteSet(ds) /\ n \in Nat
  BY LookupAssumption, FS_Subset, FS_CardinalityType
<1> HIDE DEF n
<1>2. o \in [1..n -> ds] /\ \A d \in ds : \E i \in 1..n : o[i] = d
  BY DEF Orders, n
<1>3. IsFiniteSet(1..n) /\ Cardinality(1..n) = n
  BY <1>1, FS_Interval
<1>4. o \in Surjection(1..n, ds)
  BY <1>2 DEF Surjection
<1>5. o \in Injection(1..n, ds)
  BY <1>3, <1>4, FS_SurjSameCardinalityImpliesInj DEF n
<1>6. QED
  BY <1>1, <1>2, <1>5 DEF Injection, IsInjective, n

-----------------------------------------------------------------------------
(* Grants and releases.                                                     *)

\* Handing out the head of the pool to a destination without a grant.
LEMMA GrantConserves ==
    ASSUME NEW pool \in Pools, NEW tbl \in Tables, Conserved(pool, tbl),
           pool # << >>, NEW d \in Dsts, tbl[d] = NoCh
    PROVE  /\ Tail(pool) \in Pools
           /\ [tbl EXCEPT ![d] = Head(pool)] \in Tables
           /\ Conserved(Tail(pool), [tbl EXCEPT ![d] = Head(pool)])
<1> DEFINE p == Tail(pool)
           t == [tbl EXCEPT ![d] = Head(pool)]
<1>1. /\ Head(pool) \in Channels
      /\ Head(pool) = pool[1]
      /\ p \in Pools
      /\ Len(pool) \in Nat \ {0}
      /\ DOMAIN pool = 1..Len(pool)
      /\ DOMAIN p = 1..(Len(pool) - 1)
      /\ \A i \in DOMAIN p : p[i] = pool[i + 1]
  BY DEF Pools
<1>2. /\ t \in Tables
      /\ GrantedIn(t) = GrantedIn(tbl) \cup {d}
      /\ t[d] = pool[1]
      /\ \A e \in GrantedIn(tbl) : e # d /\ t[e] = tbl[e]
  BY <1>1, LookupAssumption DEF Tables, GrantedIn
<1> HIDE DEF p, t
<1>3. \A i, j \in DOMAIN p : p[i] = p[j] => i = j
  BY <1>1 DEF Conserved
<1>4. \A i \in DOMAIN p : p[i] # pool[1]
  BY <1>1 DEF Conserved
<1>5. \A e, f \in GrantedIn(t) : t[e] = t[f] => e = f
  BY <1>1, <1>2 DEF Conserved
<1>6. \A i \in DOMAIN p, e \in GrantedIn(t) : p[i] # t[e]
  BY <1>1, <1>2, <1>4 DEF Conserved
<1>7. ASSUME NEW ch \in Channels
      PROVE  (\E i \in DOMAIN p : p[i] = ch) \/ (\E e \in GrantedIn(t) : t[e] = ch)
  <2>1. CASE \E e \in GrantedIn(tbl) : tbl[e] = ch
    BY <2>1, <1>2
  <2>2. ASSUME NEW i \in DOMAIN pool, pool[i] = ch
        PROVE  (\E j \in DOMAIN p : p[j] = ch) \/ (\E e \in GrantedIn(t) : t[e] = ch)
    <3>1. CASE i = 1
      BY <3>1, <2>2, <1>2
    <3>2. CASE i # 1
      <4>1. i - 1 \in DOMAIN p /\ p[i - 1] = pool[i]
        BY <3>2, <1>1
      <4>2. QED BY <4>1, <2>2
    <3>3. QED BY <3>1, <3>2
  <2>3. QED BY <2>1, <2>2 DEF Conserved
<1>8. QED
  BY <1>1, <1>2, <1>3, <1>5, <1>6, <1>7 DEF Conserved, p, t

\* Moving the head of the pool to its back.
LEMMA RotateConserves ==
    ASSUME NEW pool \in Pools, NEW tbl \in Tables, Conserved(pool, tbl), pool # << >>
    PROVE  /\ Append(Tail(pool), Head(pool)) \in Pools
           /\ Conserved(Append(Tail(pool), Head(pool)), tbl)
<1> DEFINE p == Append(Tail(pool), Head(pool))
           n == Len(pool)
<1>1. /\ p \in Pools
      /\ n \in Nat \ {0}
      /\ DOMAIN pool = 1..n
      /\ DOMAIN p = 1..n
      /\ \A i \in 1..(n - 1) : p[i] = pool[i + 1]
      /\ p[n] = pool[1]
  BY DEF Pools
<1> HIDE DEF p, n
<1>2. ASSUME NEW i \in DOMAIN p, NEW j \in DOMAIN p, p[i] = p[j]
      PROVE  i = j
  <2> DEFINE from(k) == IF k = n THEN 1 ELSE k + 1
  <2>1. /\ from(i) \in DOMAIN pool /\ p[i] = pool[from(i)]
        /\ from(j) \in DOMAIN pool /\ p[j] = pool[from(j)]
    BY <1>1
  <2> HIDE DEF from
  <2>2. pool[from(i)] = pool[from(j)]
    BY <2>1, <1>2
  <2>3. from(i) = from(j)
    BY <2>1, <2>2 DEF Conserved
  <2>4. QED BY <2>3, <1>1 DEF from
<1>3. \A i \in DOMAIN p : \E j \in DOMAIN pool : p[i] = pool[j]
  BY <1>1
<1>4. \A j \in DOMAIN pool : \E i \in DOMAIN p : p[i] = pool[j]
  <2> SUFFICES ASSUME NEW j \in 1..n PROVE \E i \in 1..n : p[i] = pool[j]
    BY <1>1
  <2>1. CASE j = 1
    BY <2>1, <1>1
  <2>2. CASE j # 1
    <3>1. j - 1 \in 1..(n - 1) /\ p[j - 1] = pool[j]
      BY <2>2, <1>1
    <3>2. QED BY <3>1, <1>1
  <2>3. QED BY <2>1, <2>2
<1>5. \A i \in DOMAIN p, d \in GrantedIn(tbl) : p[i] # tbl[d]
  BY <1>3 DEF Conserved
<1>6. \A ch \in Channels : (\E i \in DOMAIN p : p[i] = ch)
                            \/ (\E d \in GrantedIn(tbl) : tbl[d] = ch)
  BY <1>4 DEF Conserved
<1>7. Conserved(p, tbl)
  BY <1>2, <1>5, <1>6 DEF Conserved
<1>8. QED
  BY <1>1, <1>7 DEF p

\* Releasing the destinations of a set, in some order.
LEMMA ReleaseConserves ==
    ASSUME NEW pool \in Pools, NEW tbl \in Tables, Conserved(pool, tbl),
           NEW ds \in SUBSET GrantedIn(tbl), NEW o \in Orders(ds)
    PROVE  LET p == pool \o [i \in 1..Cardinality(ds) |-> tbl[o[i]]]
               t == Erased(tbl, ds, NoCh)
           IN  p \in Pools /\ t \in Tables /\ Conserved(p, t)
<1> DEFINE n == Cardinality(ds)
           q == [i \in 1..n |-> tbl[o[i]]]
           p == pool \o q
           t == Erased(tbl, ds, NoCh)
           m == Len(pool)
<1>0. ds \in SUBSET Dsts
  BY DEF GrantedIn
<1>1. /\ n \in Nat
      /\ o \in [1..n -> ds]
      /\ \A d \in ds : \E i \in 1..n : o[i] = d
      /\ \A i, j \in 1..n : o[i] = o[j] => i = j
  BY <1>0, OrderIsOneToOne
<1> HIDE DEF n
<1>2. \A i \in 1..n : q[i] = tbl[o[i]] /\ q[i] \in Channels
  BY <1>1 DEF GrantedIn, Tables
<1>3. q \in Seq(Channels) /\ Len(q) = n
  BY <1>1, <1>2
<1> HIDE DEF q
<1>4. /\ p \in Pools
      /\ m \in Nat
      /\ DOMAIN pool = 1..m
      /\ DOMAIN p = 1..(m + n)
      /\ \A i \in 1..m : p[i] = pool[i]
      /\ \A i \in 1..n : p[m + i] = q[i]
  BY <1>1, <1>3 DEF Pools
<1> HIDE DEF p, m
<1>5. /\ t \in Tables
      /\ GrantedIn(t) = GrantedIn(tbl) \ ds
      /\ \A d \in GrantedIn(t) : t[d] = tbl[d]
  BY <1>0 DEF Tables, GrantedIn, Erased
<1> HIDE DEF t
<1>6. \A i \in DOMAIN p : \/ i \in 1..m
                          \/ i - m \in 1..n /\ p[i] = q[i - m]
  BY <1>1, <1>4
<1>7. ASSUME NEW i \in DOMAIN p, NEW j \in DOMAIN p, p[i] = p[j]
      PROVE  i = j
  <2>1. CASE i \in 1..m /\ j \in 1..m
    BY <2>1, <1>4, <1>7 DEF Conserved
  <2>2. ASSUME NEW k \in 1..m, NEW l \in 1..n, p[k] = q[l]
        PROVE  FALSE
    <3>1. o[l] \in GrantedIn(tbl) /\ k \in DOMAIN pool /\ pool[k] = tbl[o[l]]
      BY <2>2, <1>1, <1>2, <1>4
    <3>2. QED BY <3>1 DEF Conserved
  <2>3. CASE i \notin 1..m /\ j \notin 1..m
    <3>1. /\ i - m \in 1..n /\ j - m \in 1..n
          /\ tbl[o[i - m]] = tbl[o[j - m]]
      BY <2>3, <1>2, <1>6, <1>7
    <3>2. o[i - m] = o[j - m]
      BY <3>1, <1>1 DEF Conserved
    <3>3. i - m = j - m
      BY <3>1, <3>2, <1>1
    <3>4. QED BY <3>3, <1>1, <1>4
  <2>4. QED BY <2>1, <2>2, <2>3, <1>6, <1>7
<1>8. \A d, e \in GrantedIn(t) : t[d] = t[e] => d = e
  BY <1>5 DEF Conserved
<1>9. ASSUME NEW i \in DOMAIN p, NEW d \in GrantedIn(t)
      PROVE  p[i] # t[d]
  <2>1. CASE i \in 1..m
    BY <2>1, <1>4, <1>5 DEF Conserved
  <2>2. CASE i \notin 1..m
    <3>1. i - m \in 1..n /\ p[i] = tbl[o[i - m]] /\ o[i - m] \in ds
      BY <2>2, <1>1, <1>2, <1>6
    <3>2. d \in GrantedIn(tbl) /\ d \notin ds /\ t[d] = tbl[d]
      BY <1>5
    <3>3. QED BY <3>1, <3>2 DEF Conserved
  <2>3. QED BY <2>1, <2>2
<1>10. ASSUME NEW ch \in Channels
       PROVE  (\E i \in DOMAIN p : p[i] = ch) \/ (\E d \in GrantedIn(t) : t[d] = ch)
  <2>1. CASE \E i \in DOMAIN pool : pool[i] = ch
    BY <2>1, <1>1, <1>4
  <2>2. ASSUME NEW d \in GrantedIn(tbl), tbl[d] = ch, d \in ds
        PROVE  \E i \in DOMAIN p : p[i] = ch
    <3>1. PICK i \in 1..n : o[i] = d
      BY <2>2, <1>1
    <3>2. p[m + i] = ch /\ m + i \in DOMAIN p
      BY <3>1, <2>2, <1>1, <1>2, <1>4
    <3>3. QED BY <3>2
  <2>3. ASSUME NEW d \in GrantedIn(tbl), tbl[d] = ch, d \notin ds
        PROVE  \E e \in GrantedIn(t) : t[e] = ch
    BY <2>3, <1>5
  <2>4. QED BY <2>1, <2>2, <2>3 DEF Conserved
<1>11. Conserved(p, t)
  BY <1>7, <1>8, <1>9, <1>10 DEF Conserved
<1>12. QED
  BY <1>4, <1>5, <1>11 DEF p, q, n, t

\* Conserved channels are counted by the pool and the grant table together.
LEMMA ConservedCount ==
    ASSUME NEW pool \in Pools, NEW tbl \in Tables, Conserved(pool, tbl)
    PROVE  /\ IsFiniteSet(GrantedIn(tbl))
           /\ Cardinality(GrantedIn(tbl)) \in Nat
           /\ Len(pool) \in Nat
           /\ Len(pool) + Cardinality(GrantedIn(tbl)) = Cardinality(Channels)
<1> DEFINE G == GrantedIn(tbl)
           n == Len(pool)
           F == {pool[i] : i \in 1..n}
           C == {tbl[d] : d \in G}
<1>1. n \in Nat /\ DOMAIN pool = 1..n /\ \A i \in 1..n : pool[i] \in Channels
  BY DEF Pools
<1>2. G \in SUBSET Dsts /\ \A d \in G : tbl[d] \in Channels
  BY DEF GrantedIn, Tables
<1>3. IsFiniteSet(G) /\ Cardinality(G) \in Nat
  BY <1>2, LookupAssumption, FS_Subset, FS_CardinalityType
<1> HIDE DEF G, n
<1>4. IsFiniteSet(F) /\ Cardinality(F) = n
  <2>1. [i \in 1..n |-> pool[i]] \in Bijection(1..n, F)
    BY <1>1 DEF Conserved, Bijection, Injection, Surjection, IsInjective
  <2>2. IsFiniteSet(1..n) /\ Cardinality(1..n) = n
    BY <1>1, FS_Interval
  <2> HIDE DEF F
  <2>3. QED BY <2>1, <2>2, FS_Bijection DEF ExistsBijection
<1>5. IsFiniteSet(C) /\ Cardinality(C) = Cardinality(G)
  <2>1. [d \in G |-> tbl[d]] \in Bijection(G, C)
    BY DEF Conserved, G, Bijection, Injection, Surjection, IsInjective
  <2> HIDE DEF C
  <2>2. QED BY <2>1, <1>3, FS_Bijection DEF ExistsBijection
<1>6. F \cap C = {} /\ F \cup C = Channels
  BY <1>1, <1>2 DEF Conserved, G
<1> HIDE DEF F, C
<1>7. Cardinality(Channels) = Cardinality(F) + Cardinality(C)
  <2>1. Cardinality(F \cup C) = Cardinality(F) + Cardinality(C) - Cardinality(F \cap C)
    BY <1>4, <1>5, FS_Union
  <2>2. Cardinality(F \cap C) = 0
    BY <1>6, FS_EmptySet
  <2>3. Cardinality(F \cup C) = Cardinality(Channels)
    BY <1>6
  <2>4. Cardinality(F) \in Nat /\ Cardinality(C) \in Nat
    BY <1>4, <1>5, FS_CardinalityType
  <2>5. QED BY <2>1, <2>2, <2>3, <2>4
<1>8. QED
  BY <1>1, <1>3, <1>4, <1>5, <1>7 DEF G, n

\* The free channels are the ones nobody holds.
LEMMA FreeAreTheRest ==
    ASSUME NEW pool \in Pools, NEW tbl \in Tables, Conserved(pool, tbl)
    PROVE  {pool[i] : i \in DOMAIN pool} = Channels \ HeldIn(tbl)
<1>1. \A i \in DOMAIN pool : pool[i] \in Channels
  BY DEF Pools
<1>2. \A i \in DOMAIN pool : pool[i] \notin HeldIn(tbl)
  BY DEF Conserved, HeldIn
<1>3. \A ch \in Channels \ HeldIn(tbl) : \E i \in DOMAIN pool : pool[i] = ch
  BY DEF Conserved, HeldIn
<1>4. QED BY <1>1, <1>2, <1>3

\* A grant adds the channel to the held ones, a release takes those of its
\* destinations away.
LEMMA HeldAfterGrant ==
    ASSUME NEW tbl \in Tables, NEW d \in Dsts, tbl[d] = NoCh, NEW ch \in Channels
    PROVE  HeldIn([tbl EXCEPT ![d] = ch]) = HeldIn(tbl) \cup {ch}
<1> DEFINE t == [tbl EXCEPT ![d] = ch]
<1>1. /\ GrantedIn(t) = GrantedIn(tbl) \cup {d}
      /\ t[d] = ch
      /\ \A e \in GrantedIn(tbl) : t[e] = tbl[e]
  BY LookupAssumption DEF Tables, GrantedIn
<1> HIDE DEF t
<1>2. HeldIn(t) = HeldIn(tbl) \cup {ch}
  BY <1>1 DEF HeldIn
<1>3. QED BY <1>2 DEF t

LEMMA HeldAfterRelease ==
    ASSUME NEW pool \in Pools, NEW tbl \in Tables, Conserved(pool, tbl),
           NEW ds \in SUBSET GrantedIn(tbl)
    PROVE  HeldIn(Erased(tbl, ds, NoCh)) = HeldIn(tbl) \ {tbl[d] : d \in ds}
<1> DEFINE t == Erased(tbl, ds, NoCh)
<1>1. /\ GrantedIn(t) = GrantedIn(tbl) \ ds
      /\ \A d \in GrantedIn(t) : t[d] = tbl[d]
  BY DEF Erased, GrantedIn
<1> HIDE DEF t
<1>2. HeldIn(t) = {tbl[d] : d \in GrantedIn(tbl) \ ds}
  BY <1>1 DEF HeldIn
<1>3. \A d, e \in GrantedIn(tbl) : tbl[d] = tbl[e] => d = e
  BY DEF Conserved
<1>4. HeldIn(t) = HeldIn(tbl) \ {tbl[d] : d \in ds}
  BY <1>2, <1>3 DEF HeldIn
<1>5. QED BY <1>4 DEF t

=============================================================================
