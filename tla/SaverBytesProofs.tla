-------------------------- MODULE SaverBytesProofs --------------------------
(***************************************************************************)
(* Proofs about BoundedInMemorySaver: its counter of serialized bytes, and *)
(* the budget that depends on it.                                          *)
(*                                                                         *)
(* The counter is only ever changed by differences; that it is the sum of  *)
(* the accounted sizes is what the budget, the evictions and the           *)
(* rejections rest on.                                                     *)
(***************************************************************************)
EXTENDS BoundedInMemorySaverProofs, FiniteSumsProofs

\* The counter is the sum of finitely many sizes, within the budget.
ByteInv ==
  /\ IsFiniteSet(DOMAIN stored)
  /\ CounterIsSum
  /\ ByteBudgetWithOvershoot

-----------------------------------------------------------------------------
(***************************************************************************)
(* What deletions and records do to the counter                            *)
(***************************************************************************)

\* The counter without what the deleted threads hold is the sum of the rest.
LEMMA BytesLeft ==
  ASSUME SaverInv, ByteInv, NEW gone
  PROVE  /\ IsFiniteSet(DOMAIN Without(sizes, gone))
         /\ \A k \in DOMAIN Without(sizes, gone) : Without(sizes, gone)[k] \in Nat
         /\ bytes - BytesOf(gone) = Total(Without(sizes, gone))
         /\ Total(Without(sizes, gone)) \in Nat
         /\ bytes \in Nat /\ Total(Without(sizes, gone)) <= bytes
<1> DEFINE D == DOMAIN sizes
           Left == {k \in D : k.thread \notin gone}
           Rest == {k \in D : k.thread \in gone}
           left == Without(sizes, gone)
<1>1. IsFiniteSet(D) /\ \A k \in D : sizes[k] \in Nat
  BY DEF SaverInv, DataInv, SizesAreExact, ByteInv
<1>2. /\ DOMAIN left = Left
      /\ \A k \in Left : left[k] = sizes[k]
      /\ D = Rest \cup Left /\ Rest \cap Left = {} /\ Rest \in SUBSET D /\ Left \in SUBSET D
  BY DEF Without
<1>3. BytesOf(gone) = SumOver(sizes, Rest) /\ Total(left) = SumOver(left, DOMAIN left)
      /\ bytes = SumOver(sizes, D)
  BY DEF BytesOf, Total, ByteInv, CounterIsSum
<1> HIDE DEF D, Left, Rest, left
<1>4. IsFiniteSet(Left) /\ IsFiniteSet(Rest)
  BY <1>1, <1>2, FS_Subset
<1>5. /\ \A k \in D : sizes[k] \in Int
      /\ \A k \in Left : sizes[k] \in Nat /\ left[k] \in Nat /\ left[k] \in Int
      /\ \A k \in Rest : sizes[k] \in Nat
  BY <1>1, <1>2
<1>6. SumOver(sizes, Rest \cup Left) = SumOver(sizes, Rest) + SumOver(sizes, Left)
  BY <1>2, <1>4, <1>5, SumSplit
<1>7. SumOver(left, Left) = SumOver(sizes, Left)
  BY <1>2, <1>4, <1>5, SumSame
<1>8. SumOver(sizes, Rest) \in Nat /\ SumOver(sizes, Left) \in Nat
  BY <1>4, <1>5, SumNat
<1>9. bytes = BytesOf(gone) + Total(left) /\ BytesOf(gone) \in Nat /\ Total(left) \in Nat
  BY <1>2, <1>3, <1>6, <1>7, <1>8
<1>10. bytes \in Nat /\ bytes - BytesOf(gone) = Total(left) /\ Total(left) <= bytes
  BY <1>9
<1>11. IsFiniteSet(DOMAIN left) /\ \A k \in DOMAIN left : left[k] \in Nat
  BY <1>2, <1>4, <1>5
<1> QED BY <1>9, <1>10, <1>11 DEF left

\* The overshoots are integers.
LEMMA OvershootsAreIntegers == \A o \in Overshoots \cup {0} : o \in Int
<1>1. ASSUME NEW p \in Puts PROVE Cardinality(p.empties) * EmptyBlobBytes \in Int
  <2>1. Cardinality(p.empties) \in Nat /\ EmptyBlobBytes \in Nat
    BY InputsAssumption, FS_CardinalityType DEF IsPut
  <2> QED BY <2>1
<1>2. ASSUME NEW b \in Batches
      PROVE  Cardinality(DOMAIN b.writes) * b.path - b.path - b.taskId \in Int
  <2>1. Cardinality(DOMAIN b.writes) \in Nat /\ b.path \in Nat /\ b.taskId \in Nat
    BY InputsAssumption, FS_CardinalityType DEF IsBatch
  <2> QED BY <2>1
<1> QED BY <1>1, <1>2 DEF Overshoots

\* Deletions keep the counter right.
LEMMA BytesDrop ==
  ASSUME SaverInv, ByteInv, NEW gone, stored' = Without(stored, gone),
         sizes' = Without(sizes, gone), bytes' = bytes - BytesOf(gone)
  PROVE  ByteInv'
<1>1. sizes = stored
  BY DEF SaverInv, DataInv, SizesAreExact
<1>2. /\ IsFiniteSet(DOMAIN Without(sizes, gone))
      /\ bytes - BytesOf(gone) = Total(Without(sizes, gone))
      /\ bytes \in Nat /\ bytes' \in Nat /\ bytes' <= bytes
  BY BytesLeft
<1>3. IsFiniteSet(DOMAIN stored') /\ CounterIsSum'
  BY <1>1, <1>2 DEF CounterIsSum
<1>4. ByteBudgetWithOvershoot'
  <2>1. PICK o \in Overshoots \cup {0} : bytes <= MaxTotalBytes + o
    BY DEF ByteInv, ByteBudgetWithOvershoot
  <2>2. o \in Int /\ MaxTotalBytes \in Int
    BY OvershootsAreIntegers, LimitsAssumption
  <2>3. bytes' <= MaxTotalBytes + o
    BY <1>2, <2>1, <2>2
  <2> QED BY <2>3 DEF ByteBudgetWithOvershoot, Overshoots
<1> QED BY <1>3, <1>4 DEF ByteInv

\* What is recorded for a set of keys moves the counter by the differences
\* with what was accounted for them before.
LEMMA BytesRecord ==
  ASSUME SaverInv, ByteInv, NEW gone, NEW keys, IsFiniteSet(keys),
         \A k \in keys : stored'[k] \in Nat, Record(keys, gone),
         NEW d, d \in [keys -> Int],
         \A k \in keys : d[k] = stored'[k] - IF k \in DOMAIN Without(sizes, gone)
                                             THEN Without(sizes, gone)[k] ELSE 0
  PROVE  /\ IsFiniteSet(DOMAIN sizes')
         /\ CounterIsSum'
         /\ bytes' = Total(Without(sizes, gone)) + SumOver(d, keys)
<1> DEFINE left == Without(sizes, gone)
           D == DOMAIN left
           new == [k \in D \cup keys |-> IF k \in keys THEN stored'[k] ELSE left[k]]
           diff == [k \in keys |-> stored'[k] - IF k \in D THEN left[k] ELSE 0]
<1>1. sizes' = new /\ bytes' = bytes - BytesOf(gone) + SumOver(diff, keys)
  BY DEF Record
<1>2. /\ IsFiniteSet(D)
      /\ \A k \in D : left[k] \in Nat
      /\ bytes - BytesOf(gone) = Total(left)
  BY BytesLeft
<1>3. \A k \in keys : diff[k] = d[k] /\ d[k] = stored'[k] - IF k \in D THEN left[k] ELSE 0
  OBVIOUS
<1>4. /\ DOMAIN new = D \cup keys
      /\ \A k \in keys : new[k] = stored'[k]
      /\ \A k \in D \ keys : new[k] = left[k]
  OBVIOUS
<1> HIDE DEF new, diff
<1>5. diff = d
  <2>1. diff \in [keys -> Int]
    BY <1>3 DEF diff
  <2> QED BY <1>3, <2>1
<1>6. Total(left) = SumOver(left, D)
  BY DEF Total
<1> HIDE DEF left, D
<1>7. SumOver(new, D \cup keys) = SumOver(left, D) + SumOver(d, keys)
  <2>1. (\A k \in D : left[k] \in Int) /\ \A k \in keys : stored'[k] \in Int
    BY <1>2
  <2> QED BY <1>2, <1>3, <1>4, <2>1, SumUpdate
<1>8. bytes' = Total(left) + SumOver(d, keys)
  BY <1>1, <1>2, <1>5
<1>9. IsFiniteSet(DOMAIN sizes')
  <2>1. IsFiniteSet(D) /\ IsFiniteSet(keys)
    BY <1>1, <1>2
  <2>2. IsFiniteSet(D \cup keys)
    BY <2>1, FS_Union, Zenon
  <2> QED BY <1>1, <1>4, <2>2
<1>10. CounterIsSum'
  BY <1>1, <1>4, <1>6, <1>7, <1>8 DEF CounterIsSum, Total
<1> QED BY <1>8, <1>9, <1>10 DEF left


-----------------------------------------------------------------------------
(***************************************************************************)
(* _make_room_for_bytes_locked                                             *)
(***************************************************************************)

\* Among some known threads there is one that was used before all others.
LEMMA OneIsOldest ==
  ASSUME AccessInv, NEW S, S \subseteq Known, S # {}
  PROVE  \E u \in S : \A v \in S \ {u} : <<u, v>> \in lru
<1> DEFINE First(s, u) == \A v \in s \ {u} : <<u, v>> \in lru
           T == {s \in SUBSET S : s = {} \/ \E u \in s : First(s, u)}
<1>1. {} \in T
  OBVIOUS
<1>2. ASSUME NEW s \in SUBSET S, NEW x \in S \ s, s \in T PROVE s \cup {x} \in T
  <2>1. CASE s = {}
    <3>1. First(s \cup {x}, x)
      BY <2>1
    <3> QED BY <3>1
  <2>2. ASSUME NEW u \in s, First(s, u) PROVE s \cup {x} \in T
    <3>1. <<u, x>> \in lru \/ <<x, u>> \in lru
      BY LruFacts
    <3>2. CASE <<u, x>> \in lru
      <4>1. First(s \cup {x}, u)
        BY <2>2, <3>2
      <4> QED BY <4>1
    <3>3. CASE <<x, u>> \in lru
      <4>1. First(s \cup {x}, x)
        BY <2>2, <3>3, LruFacts
      <4> QED BY <4>1
    <3> QED BY <3>1, <3>2, <3>3
  <2> QED BY <1>2, <2>1, <2>2
<1>3. S \in T
  <2>1. IsFiniteSet(S)
    BY FS_Subset DEF AccessInv
  <2> HIDE DEF T
  <2> QED BY <1>1, <1>2, <2>1, SubsetInduction
<1> QED BY <1>3

\* The loop stops once there is room, and there is unless all other threads
\* are gone: what it leaves fits.
LEMMA RoomForBytes ==
  ASSUME AccessInv, NEW t, NEW need, NEW gone, Fits(need, gone \cup (Known \ {t}))
  PROVE  Fits(need, gone \cup ByteVictims(t, need, gone))
<1> DEFINE others == Known \ (gone \cup {t})
           older(u) == {v \in others : <<v, u>> \in lru}
           full(u) == ~ Fits(need, gone \cup older(u))
           victims == ByteVictims(t, need, gone)
<1>1. victims = {u \in others : \A v \in older(u) \cup {u} : full(v)}
  BY DEF ByteVictims
<1>2. CASE others \subseteq victims
  <2>1. gone \cup victims = gone \cup (Known \ {t})
    BY <1>1, <1>2
  <2> QED BY <2>1
<1>3. CASE ~ (others \subseteq victims)
  <2>1. others \ victims \subseteq Known /\ others \ victims # {}
    BY <1>3
  <2>2. PICK u \in others \ victims : \A v \in (others \ victims) \ {u} : <<u, v>> \in lru
    <3> HIDE DEF others, victims
    <3> QED BY <2>1, OneIsOldest
  <2>3. \A v \in older(u) : v \in victims
    <3> SUFFICES ASSUME NEW v \in older(u), v \notin victims PROVE FALSE
      OBVIOUS
    <3>1. v \in Known /\ u \in Known /\ <<v, u>> \in lru /\ v \in others
      OBVIOUS
    <3>2. v # u
      BY <3>1, LruFacts
    <3>3. <<u, v>> \in lru
      BY <2>2, <3>1, <3>2
    <3> QED BY <3>1, <3>3, LruFacts
  <2>4. \A v \in victims : v \in older(u)
    <3> SUFFICES ASSUME NEW v \in victims PROVE v \in others /\ <<v, u>> \in lru
      OBVIOUS
    <3>1. v \in others
      BY <1>1
    <3> HIDE DEF victims
    <3> QED BY <2>2, <3>1, ByteVictimsAreOldest DEF victims
  <2>5. older(u) = victims
    <3>1. older(u) \subseteq victims
      <4> HIDE DEF older, victims
      <4> QED BY <2>3
    <3>2. victims \subseteq older(u)
      <4> HIDE DEF older, victims
      <4> QED BY <2>4
    <3> QED BY <3>1, <3>2
  <2>6. PICK v \in older(u) \cup {u} : ~ full(v)
    <3> HIDE DEF full, older
    <3> QED BY <1>1, <2>2
  <2>7. v \notin older(u)
    <3> SUFFICES ASSUME v \in older(u) PROVE FALSE
      OBVIOUS
    <3> HIDE DEF full, older, others
    <3> QED BY <1>1, <2>3, <2>6
  <2>8. ~ full(u)
    BY <2>6, <2>7
  <2> QED BY <2>5, <2>8
<1> QED BY <1>2, <1>3


-----------------------------------------------------------------------------
(***************************************************************************)
(* What put and put_writes add                                             *)
(***************************************************************************)

\* The blobs of a checkpoint: the values as estimated, and the empty ones.
LEMMA BlobBytes ==
  ASSUME NEW t, NEW ns, NEW p \in Puts, NEW f,
         \A k \in BlobKeys(t, ns, p) :
            f[k] = IF k.id \in p.empties THEN EmptyBlobBytes ELSE p.values[k.id]
  PROVE  /\ IsFiniteSet(BlobKeys(t, ns, p))
         /\ \A k \in BlobKeys(t, ns, p) : f[k] \in Nat
         /\ SumOver(f, BlobKeys(t, ns, p))
              = Total(p.values) + Cardinality(p.empties) * EmptyBlobBytes
<1> DEFINE V == DOMAIN p.values
           E == p.empties
           g == [v \in V \cup E |-> Item("blob", t, ns, v, NoSlot)]
           e == [v \in V \cup E |-> IF v \in E THEN EmptyBlobBytes ELSE p.values[v]]
           blobs == BlobKeys(t, ns, p)
<1>1. /\ IsFiniteSet(V) /\ IsFiniteSet(E) /\ V \cap E = {} /\ EmptyBlobBytes \in Nat
      /\ \A v \in V : p.values[v] \in Nat
  BY InputsAssumption DEF IsPut
<1>2. IsFiniteSet(V \cup E)
  <2> HIDE DEF V, E
  <2> QED BY <1>1, FS_Union
<1>3. /\ blobs = {g[v] : v \in V \cup E}
      /\ \A v \in V \cup E : g[v] \in blobs /\ g[v].id = v
  BY DEF BlobKeys, Item
<1>4. \A v, w \in V \cup E : g[v] = g[w] => v = w
  <2> HIDE DEF g, V, E
  <2> QED BY <1>3
<1>5. /\ \A v \in V : e[v] = p.values[v] /\ e[v] \in Int
      /\ \A v \in E : e[v] = EmptyBlobBytes
      /\ \A v \in V \cup E : e[v] \in Int /\ e[v] \in Nat
  BY <1>1
<1>6. \A v \in V \cup E : f[g[v]] = e[v]
  <2> SUFFICES ASSUME NEW v \in V \cup E PROVE f[g[v]] = e[v]
    OBVIOUS
  <2>1. f[g[v]] = IF g[v].id \in p.empties THEN EmptyBlobBytes ELSE p.values[g[v].id]
    <3> HIDE DEF g
    <3> QED BY <1>3
  <2>2. g[v].id = v
    BY <1>3
  <2>3. e[v] = IF v \in E THEN EmptyBlobBytes ELSE p.values[v]
    OBVIOUS
  <2> HIDE DEF g, e
  <2> QED BY <2>1, <2>2, <2>3
<1>7. Total(p.values) = SumOver(p.values, V)
  BY DEF Total
<1> HIDE DEF V, E, g, e, blobs
<1>8. SumOver(f, {g[v] : v \in V \cup E}) = SumOver(e, V \cup E)
  BY <1>2, <1>4, <1>5, <1>6, SumImage
<1>9. SumOver(e, V \cup E) = SumOver(e, V) + SumOver(e, E)
  BY <1>1, <1>5, SumSplit
<1>10. SumOver(e, V) = SumOver(p.values, V)
  BY <1>1, <1>5, SumSame
<1>11. SumOver(e, E) = Cardinality(E) * EmptyBlobBytes
  BY <1>1, <1>5, SumConstant
<1>12. IsFiniteSet(blobs) /\ \A k \in blobs : f[k] \in Nat
  <2>1. IsFiniteSet({g[v] : v \in V \cup E})
    BY <1>2, ImageIsFinite
  <2> QED BY <1>3, <1>5, <1>6, <2>1
<1>13. SumOver(f, blobs) = Total(p.values) + Cardinality(p.empties) * EmptyBlobBytes
  BY <1>3, <1>7, <1>8, <1>9, <1>10, <1>11 DEF E
<1> QED BY <1>12, <1>13 DEF blobs

\* put adds no more than what it estimated and the empty blobs.
LEMMA PutBytes ==
  ASSUME SaverInv, ByteInv, NEW t \in Threads, NEW ns \in Namespaces, NEW id \in Ids,
         NEW p \in Puts, NEW gone,
         UpstreamPut(t, ns, id, p, gone), Record(CheckpointKeys(t, ns, id, p), gone)
  PROVE  /\ IsFiniteSet(DOMAIN stored') /\ CounterIsSum'
         /\ bytes' <= Total(Without(sizes, gone)) + EstimatedSize(p)
                      + Cardinality(p.empties) * EmptyBlobBytes
         /\ EstimatedSize(p) \in Int
<1> DEFINE key == Item("checkpoint", t, ns, id, NoSlot)
           blobs == BlobKeys(t, ns, p)
           keys == CheckpointKeys(t, ns, id, p)
           left == Without(sizes, gone)
           prev(k) == IF k \in DOMAIN left THEN left[k] ELSE 0
           d == [k \in keys |-> stored'[k] - prev(k)]
<1>1. keys = blobs \cup {key} /\ key \notin blobs
  BY DEF CheckpointKeys, BlobKeys, Item
<1>2. /\ stored'[key] = p.body
      /\ \A k \in blobs :
            stored'[k] = IF k.id \in p.empties THEN EmptyBlobBytes ELSE p.values[k.id]
  BY <1>1 DEF UpstreamPut
<1>3. /\ IsFiniteSet(blobs) /\ \A k \in blobs : stored'[k] \in Nat
      /\ SumOver(stored', blobs) = Total(p.values) + Cardinality(p.empties) * EmptyBlobBytes
  <2> HIDE DEF blobs
  <2> QED BY <1>2, BlobBytes DEF blobs
<1>4. p.body \in Nat
  BY InputsAssumption DEF IsPut
<1> HIDE DEF key, blobs, keys
<1>5. IsFiniteSet(keys) /\ \A k \in keys : stored'[k] \in Nat
  BY <1>1, <1>2, <1>3, <1>4, FS_AddElement
<1>6. SumOver(stored', keys) = p.body + SumOver(stored', blobs)
  <2>1. \A k \in blobs \cup {key} : stored'[k] \in Int
    BY <1>1, <1>5
  <2> QED BY <1>1, <1>2, <1>3, <2>1, SumAdd
<1>7. /\ \A k \in DOMAIN left : left[k] \in Nat
      /\ Total(left) \in Nat
  BY BytesLeft
<1>8. \A k \in keys : prev(k) \in Nat
  BY <1>7
<1>9. d \in [keys -> Int] /\ \A k \in keys : d[k] = stored'[k] - prev(k) /\ d[k] <= stored'[k]
  <2> HIDE DEF prev
  <2> QED BY <1>5, <1>8
<1> HIDE DEF d
<1>10. /\ IsFiniteSet(DOMAIN sizes') /\ CounterIsSum'
       /\ bytes' = Total(left) + SumOver(d, keys)
  BY <1>5, <1>9, BytesRecord DEF keys
<1>11. SumOver(d, keys) <= SumOver(stored', keys)
  <2>1. \A k \in keys : d[k] \in Int /\ stored'[k] \in Int
    BY <1>5, <1>9
  <2> QED BY <1>5, <1>9, <2>1, SumLeq
<1>12. SumOver(d, keys) \in Int /\ SumOver(stored', blobs) \in Int
  <2>1. (\A k \in keys : d[k] \in Int) /\ \A k \in blobs : stored'[k] \in Int
    BY <1>3, <1>9
  <2> QED BY <1>3, <1>5, <2>1, SumInt
<1>13. Total(p.values) \in Nat /\ Cardinality(p.empties) * EmptyBlobBytes \in Nat
  <2>1. IsFiniteSet(DOMAIN p.values) /\ \A v \in DOMAIN p.values : p.values[v] \in Nat
    BY InputsAssumption DEF IsPut
  <2>2. Cardinality(p.empties) \in Nat /\ EmptyBlobBytes \in Nat
    BY InputsAssumption, FS_CardinalityType DEF IsPut
  <2> QED BY <2>1, <2>2, SumNat DEF Total
<1>14. DataInv'
  BY DataPut DEF SaverInv, keys
<1>15. IsFiniteSet(DOMAIN stored')
  BY <1>10, <1>14 DEF DataInv, SizesAreExact
<1>16. EstimatedSize(p) = p.body + Total(p.values)
  BY DEF EstimatedSize
<1> HIDE DEF left
<1>17. \A a, s, o, b, v, e \in Int : s <= o /\ o = b + (v + e) => a + s <= a + (b + v) + e
  OBVIOUS
<1>18. bytes' <= Total(left) + EstimatedSize(p) + Cardinality(p.empties) * EmptyBlobBytes
  <2>1. SumOver(stored', keys) = p.body + (Total(p.values) + Cardinality(p.empties) * EmptyBlobBytes)
    BY <1>3, <1>6
  <2>2. SumOver(stored', keys) \in Int
    BY <1>4, <1>6, <1>12
  <2> QED BY <1>4, <1>7, <1>10, <1>11, <1>12, <1>13, <1>16, <1>17, <2>1, <2>2
<1> QED BY <1>4, <1>10, <1>13, <1>15, <1>16, <1>18 DEF left


\* The keys of the writes of a batch.
BatchKeys(t, ns, id, b) == {Item("write", t, ns, id, s) : s \in DOMAIN b.writes}

\* The writes of a batch, each with its task path.
LEMMA BatchBytes ==
  ASSUME NEW t, NEW ns, NEW id, NEW b \in Batches, NEW f,
         \A k \in BatchKeys(t, ns, id, b) : f[k] = b.writes[k.slot] + b.path
  PROVE  /\ IsFiniteSet(BatchKeys(t, ns, id, b))
         /\ \A k \in BatchKeys(t, ns, id, b) : f[k] \in Nat
         /\ SumOver(f, BatchKeys(t, ns, id, b))
              = Total(b.writes) + Cardinality(DOMAIN b.writes) * b.path
<1> DEFINE keys == BatchKeys(t, ns, id, b)
           D == DOMAIN b.writes
           w == b.writes
           g == [s \in D |-> Item("write", t, ns, id, s)]
           e == [s \in D |-> w[s] + b.path]
           q == [s \in D |-> b.path]
<1>1. IsFiniteSet(D) /\ b.path \in Nat /\ \A s \in D : w[s] \in Nat
  BY InputsAssumption DEF IsBatch
<1>2. /\ keys = {g[s] : s \in D}
      /\ \A s \in D : g[s] \in keys /\ g[s].slot = s
  BY DEF Item, BatchKeys
<1>3. /\ \A s \in D : e[s] = w[s] + b.path
      /\ \A s \in D : q[s] = b.path
  OBVIOUS
<1>4. Total(w) = SumOver(w, D)
  BY DEF Total
<1> HIDE DEF D, w, g, e, q, keys
<1>5. \A s, r \in D : g[s] = g[r] => s = r
  BY <1>2
<1>6. \A s \in D : f[g[s]] = e[s]
  <2> SUFFICES ASSUME NEW s \in D PROVE f[g[s]] = e[s]
    OBVIOUS
  <2>1. f[g[s]] = w[g[s].slot] + b.path
    BY <1>2 DEF w, keys
  <2> QED BY <1>2, <1>3, <2>1
<1>7. /\ \A s \in D : e[s] \in Int
      /\ \A s \in D : e[s] \in Nat
      /\ \A s \in D : e[s] \in Int /\ q[s] \in Int
      /\ \A s \in D : w[s] = e[s] - q[s]
  BY <1>1, <1>3
<1>8. SumOver(f, {g[s] : s \in D}) = SumOver(e, D)
  BY <1>1, <1>5, <1>6, <1>7, SumImage
<1>9. SumOver(w, D) = SumOver(e, D) - SumOver(q, D)
  BY <1>1, <1>7, SumDifference
<1>10. SumOver(q, D) = Cardinality(D) * b.path
  BY <1>1, <1>3, SumConstant
<1>11. SumOver(e, D) \in Int /\ SumOver(q, D) \in Int
  <2>1. \A s \in D : q[s] \in Int
    BY <1>7
  <2> QED BY <1>1, <1>7, <2>1, SumInt
<1>12. SumOver(e, D) = SumOver(w, D) + SumOver(q, D)
  BY <1>9, <1>11
<1>13. IsFiniteSet(keys) /\ \A k \in keys : f[k] \in Nat
  <2>1. IsFiniteSet({g[s] : s \in D})
    BY <1>1, ImageIsFinite
  <2>2. IsFiniteSet(keys)
    BY <1>2, <2>1
  <2>3. ASSUME NEW k \in keys PROVE f[k] \in Nat
    <3>1. PICK s \in D : k = g[s]
      BY <1>2
    <3> QED BY <1>6, <1>7, <3>1
  <2> QED BY <2>2, <2>3
<1>14. SumOver(f, keys) = Total(w) + Cardinality(D) * b.path
  BY <1>2, <1>4, <1>8, <1>10, <1>12
<1> QED BY <1>13, <1>14 DEF w, D, keys

\* put_writes adds no more than the values and, for each, the task path.
LEMMA PutWritesBytes ==
  ASSUME SaverInv, ByteInv, NEW t \in Threads, NEW ns \in Namespaces, NEW id \in Ids,
         NEW b \in Batches, NEW gone,
         UpstreamPutWrites(t, ns, id, b, gone), Record(WriteKeys(t, ns, id), gone)
  PROVE  /\ IsFiniteSet(DOMAIN stored') /\ CounterIsSum'
         /\ bytes' <= Total(Without(sizes, gone)) + WriteSize(b)
                      + (Cardinality(DOMAIN b.writes) * b.path - b.path - b.taskId)
         /\ WriteSize(b) \in Int
<1> DEFINE batch == BatchKeys(t, ns, id, b)
           left == Without(sizes, gone)
           taken == {k \in batch : k \in DOMAIN left /\ k.slot \notin SpecialSlots}
           keys == WriteKeys(t, ns, id)
           prev(k) == IF k \in DOMAIN left THEN left[k] ELSE 0
           d == [k \in keys |-> stored'[k] - prev(k)]
           c == [k \in keys |-> IF k \in batch THEN b.writes[k.slot] + b.path ELSE 0]
<1>1. left = Without(stored, gone)
  BY DEF SaverInv, DataInv, SizesAreExact
<1>2. /\ DOMAIN stored' = DOMAIN left \cup batch
      /\ \A k \in DOMAIN stored' :
            stored'[k] = IF k \in batch \ taken THEN b.writes[k.slot] + b.path ELSE left[k]
  <2> HIDE DEF batch, left
  <2> QED BY <1>1 DEF UpstreamPutWrites, BatchKeys, batch
<1>3. batch \subseteq keys /\ keys \subseteq DOMAIN stored'
  <2>1. \A k \in batch : k.kind = "write" /\ k.thread = t /\ k.ns = ns /\ k.id = id
    BY DEF Item, BatchKeys
  <2> HIDE DEF batch
  <2> QED BY <1>2, <2>1 DEF WriteKeys
<1>4. /\ b.path \in Nat /\ b.taskId \in Nat
      /\ \A k \in batch : b.writes[k.slot] \in Nat
  <2>1. IsBatch(b)
    BY InputsAssumption
  <2>2. \A k \in batch : k.slot \in DOMAIN b.writes
    BY DEF Item, BatchKeys
  <2> QED BY <2>1, <2>2 DEF IsBatch
<1>5. \A k \in batch : c[k] = b.writes[k.slot] + b.path
  <2> HIDE DEF batch, keys
  <2> QED BY <1>3
<1>6. \A k \in keys \ batch : c[k] = 0
  <2> HIDE DEF batch, keys
  <2> QED OBVIOUS
<1>7. /\ IsFiniteSet(batch) /\ \A k \in batch : c[k] \in Nat
      /\ SumOver(c, batch) = Total(b.writes) + Cardinality(DOMAIN b.writes) * b.path
  <2> HIDE DEF c
  <2> QED BY <1>5, BatchBytes
<1>8. /\ IsFiniteSet(DOMAIN left) /\ \A k \in DOMAIN left : left[k] \in Nat
      /\ Total(left) \in Nat
  BY BytesLeft
<1>9. DataInv'
  BY DataPutWrites DEF SaverInv
<1>10. (\A k \in keys : d[k] = stored'[k] - prev(k)) /\ d \in [keys -> {d[k] : k \in keys}]
  <2> HIDE DEF keys, prev
  <2> QED OBVIOUS
<1> HIDE DEF batch, left, keys, c, d
<1>11. IsFiniteSet(DOMAIN stored') /\ IsFiniteSet(keys) /\ IsFiniteSet(keys \ batch)
  <2>0. IsFiniteSet(DOMAIN left \cup batch)
    BY <1>7, <1>8, FS_Union
  <2>1. IsFiniteSet(DOMAIN stored')
    BY <1>2, <2>0
  <2>2. IsFiniteSet(keys)
    BY <1>3, <2>1, FS_Subset
  <2> QED BY <2>1, <2>2, FS_Subset
<1>12. \A k \in keys : stored'[k] \in Nat
  BY <1>3, <1>9 DEF DataInv
<1>13. \A k \in keys : prev(k) \in Nat
  BY <1>8
<1>14. \A k \in keys : d[k] \in Int /\ d[k] <= c[k] /\ c[k] \in Int
  <2> SUFFICES ASSUME NEW k \in keys PROVE d[k] \in Int /\ d[k] <= c[k] /\ c[k] \in Int
    OBVIOUS
  <2>1. d[k] = stored'[k] - prev(k) /\ stored'[k] \in Nat /\ prev(k) \in Nat
    BY <1>10, <1>12, <1>13
  <2>2. c[k] \in Nat
    BY <1>6, <1>7
  <2>3. CASE k \in batch \ taken
    <3>1. stored'[k] = c[k]
      BY <1>2, <1>3, <1>5, <2>3
    <3> HIDE DEF prev
    <3> QED BY <2>1, <2>2, <3>1
  <2>4. CASE k \notin batch \ taken
    <3>1. k \in DOMAIN left
      BY <1>2, <1>3, <2>4
    <3>2. stored'[k] = left[k] /\ prev(k) = left[k]
      BY <1>2, <1>3, <2>4, <3>1
    <3> HIDE DEF prev
    <3> QED BY <2>1, <2>2, <3>2
  <2> QED BY <2>3, <2>4
<1>15. d \in [keys -> Int]
  BY <1>10, <1>14
<1>16. CounterIsSum' /\ bytes' = Total(left) + SumOver(d, keys)
  BY <1>10, <1>11, <1>12, <1>15, BytesRecord DEF keys, left
<1>17. SumOver(d, keys) <= SumOver(c, keys)
  BY <1>11, <1>14, SumLeq
<1>18. SumOver(c, keys) = SumOver(c, batch)
  <2>1. batch \cap (keys \ batch) = {} /\ batch \cup (keys \ batch) = keys
    BY <1>3
  <2>2. SumOver(c, batch \cup (keys \ batch)) = SumOver(c, batch) + SumOver(c, keys \ batch)
    <3>1. \A k \in batch \cup (keys \ batch) : c[k] \in Int
      BY <1>3, <1>14
    <3> QED BY <1>7, <1>11, <2>1, <3>1, SumSplit
  <2>3. SumOver(c, keys \ batch) = Cardinality(keys \ batch) * 0
    BY <1>6, <1>11, SumConstant
  <2>4. Cardinality(keys \ batch) \in Nat
    BY <1>11, FS_CardinalityType
  <2>5. SumOver(c, batch) \in Int
    BY <1>7, SumNat
  <2>6. SumOver(c, keys \ batch) = 0
    BY <2>3, <2>4
  <2>7. SumOver(c, keys) = SumOver(c, batch) + SumOver(c, keys \ batch)
    BY <2>1, <2>2
  <2> QED BY <2>5, <2>6, <2>7
<1>19. SumOver(d, keys) \in Int /\ SumOver(c, batch) \in Int
  <2>1. (\A k \in keys : d[k] \in Int) /\ \A k \in batch : c[k] \in Int
    BY <1>7, <1>14
  <2> QED BY <1>7, <1>11, <2>1, SumInt
<1>20. Total(b.writes) \in Nat /\ Cardinality(DOMAIN b.writes) * b.path \in Nat
  <2>1. IsFiniteSet(DOMAIN b.writes) /\ \A s \in DOMAIN b.writes : b.writes[s] \in Nat
    BY InputsAssumption DEF IsBatch
  <2>2. Cardinality(DOMAIN b.writes) \in Nat
    BY <2>1, FS_CardinalityType
  <2> QED BY <1>4, <2>1, <2>2, SumNat DEF Total
<1>21. WriteSize(b) = Total(b.writes) + b.taskId + b.path
  BY DEF WriteSize
<1>22. \A a, s, w, n, i, p \in Int : s <= w + n => a + s <= a + (w + i + p) + (n - p - i)
  OBVIOUS
<1>23. bytes' <= Total(left) + WriteSize(b)
                 + (Cardinality(DOMAIN b.writes) * b.path - b.path - b.taskId)
  <2>1. SumOver(d, keys) <= Total(b.writes) + Cardinality(DOMAIN b.writes) * b.path
    BY <1>7, <1>17, <1>18
  <2> QED BY <1>4, <1>8, <1>16, <1>19, <1>20, <1>21, <1>22, <2>1
<1> QED BY <1>4, <1>11, <1>16, <1>20, <1>21, <1>23 DEF left


-----------------------------------------------------------------------------
(***************************************************************************)
(* Every step                                                              *)
(***************************************************************************)

\* What fits stays within the budget but for what was not estimated.
LEMMA BudgetStored ==
  ASSUME SaverInv, ByteInv, NEW t, NEW need \in Int, NEW o \in Overshoots,
         Fits(need, GoneFor(t) \cup (Known \ {t})),
         bytes' <= Total(Without(sizes, GoneForBytes(t, need))) + need + o, bytes' \in Int
  PROVE  ByteBudgetWithOvershoot'
<1>1. Fits(need, GoneForBytes(t, need))
  BY RoomForBytes DEF SaverInv, GoneForBytes
<1> DEFINE left == Total(Without(sizes, GoneForBytes(t, need)))
<1>2. left \in Nat /\ left + need <= MaxTotalBytes
  BY <1>1, BytesLeft DEF Fits
<1>3. o \in Int /\ MaxTotalBytes \in Int
  BY OvershootsAreIntegers, LimitsAssumption
<1>4. bytes' <= left + need + o
  OBVIOUS
<1> HIDE DEF left
<1>5. bytes' <= MaxTotalBytes + o
  BY <1>2, <1>3, <1>4
<1> QED BY <1>5 DEF ByteBudgetWithOvershoot, Overshoots

\* The counter stays the sum of the sizes, and within the budget.
LEMMA ByteInvStep == SaverInv /\ ByteInv /\ [SaverNext]_saverVars => ByteInv'
<1> SUFFICES ASSUME SaverInv, ByteInv, [SaverNext]_saverVars PROVE ByteInv'
  OBVIOUS
<1>0. SaverInv' /\ ((IsFiniteSet(DOMAIN stored') /\ CounterIsSum') => bytes' \in Int)
  <2>1. SaverInv'
    BY SaverInvStep
  <2>2. sizes' = stored' /\ \A k \in DOMAIN sizes' : sizes'[k] \in Int
    BY <2>1 DEF SaverInv, DataInv, SizesAreExact
  <2>3. CounterIsSum' => bytes' = SumOver(sizes', DOMAIN sizes')
    BY DEF CounterIsSum, Total
  <2> QED BY <2>1, <2>2, <2>3, SumInt
<1>1. ASSUME NEW gone, stored' = Without(stored, gone), Forgotten(gone) PROVE ByteInv'
  BY <1>1, BytesDrop DEF Forgotten
<1>2. ASSUME UNCHANGED <<stored, sizes, bytes>> PROVE ByteInv'
  BY <1>2 DEF ByteInv, CounterIsSum, ByteBudgetWithOvershoot, Overshoots
<1>3. CASE PurgeOnly
  BY <1>1, <1>3 DEF PurgeOnly, Drop, UpstreamWithout
<1>4. ASSUME NEW t, PurgeAndTouch(t) PROVE ByteInv'
  <2> DEFINE left == Without(sizes, Expired)
  <2>1. stored' = Without(stored, Expired) /\ Record({}, Expired)
    BY <1>4 DEF PurgeAndTouch, UpstreamWithout
  <2>2. sizes' = left
    <3>1. sizes' = [k \in DOMAIN left |-> left[k]]
      BY <2>1 DEF Record
    <3> QED BY <3>1 DEF Without
  <2>3. bytes' = bytes - BytesOf(Expired)
    <3>1. \E f : bytes' = bytes - BytesOf(Expired) + SumOver(f, {})
      BY <2>1 DEF Record
    <3>2. \A f : SumOver(f, {}) = 0
      BY SumEmpty
    <3>3. bytes - BytesOf(Expired) \in Int
      BY BytesLeft
    <3> QED BY <3>1, <3>2, <3>3
  <2> QED BY <2>1, <2>2, <2>3, BytesDrop
<1>5. ASSUME NEW t, NEW ns, NEW id, NEW need, NEW limit,
             \/ TooLarge(t, need, limit)
             \/ OverLimit(t, ns, id, need)
             \/ OverBudget(t, ns, id, need)
      PROVE  ByteInv'
  <2>1. CASE TooLarge(t, need, limit)
    BY <1>2, <2>1 DEF TooLarge
  <2>2. CASE OverLimit(t, ns, id, need)
    BY <1>1, <2>2 DEF OverLimit, Drop, UpstreamWithout
  <2>3. CASE OverBudget(t, ns, id, need)
    BY <1>1, <2>3 DEF OverBudget, Drop, UpstreamWithout
  <2> QED BY <1>5, <2>1, <2>2, <2>3
<1>6. ASSUME NEW t \in Threads, NEW ns \in Namespaces, NEW id \in Ids,
             NEW p \in Puts, PutStored(t, ns, id, p)
      PROVE  ByteInv'
  <2> DEFINE need == EstimatedSize(p)
             gone == GoneForBytes(t, need)
             o == Cardinality(p.empties) * EmptyBlobBytes
  <2>1. /\ Fits(need, GoneFor(t) \cup (Known \ {t}))
        /\ UpstreamPut(t, ns, id, p, gone) /\ Record(CheckpointKeys(t, ns, id, p), gone)
    BY <1>6 DEF PutStored, HasRoom
  <2>2. /\ IsFiniteSet(DOMAIN stored') /\ CounterIsSum' /\ need \in Int
        /\ bytes' <= Total(Without(sizes, gone)) + need + o
    <3> HIDE DEF gone
    <3> QED BY <2>1, PutBytes
  <2>3. o \in Overshoots
    BY DEF Overshoots
  <2>4. bytes' \in Int
    BY <1>0, <2>2
  <2>5. ByteBudgetWithOvershoot'
    <3> HIDE DEF need, o
    <3> QED BY <2>1, <2>2, <2>3, <2>4, BudgetStored
  <2> QED BY <2>2, <2>5 DEF ByteInv
<1>7. ASSUME NEW t \in Threads, NEW ns \in Namespaces, NEW id \in Ids,
             NEW b \in Batches, PutWritesStored(t, ns, id, b)
      PROVE  ByteInv'
  <2> DEFINE need == WriteSize(b)
             gone == GoneForBytes(t, need)
             o == Cardinality(DOMAIN b.writes) * b.path - b.path - b.taskId
  <2>1. /\ Fits(need, GoneFor(t) \cup (Known \ {t}))
        /\ UpstreamPutWrites(t, ns, id, b, gone) /\ Record(WriteKeys(t, ns, id), gone)
    BY <1>7 DEF PutWritesStored, HasRoom
  <2>2. /\ IsFiniteSet(DOMAIN stored') /\ CounterIsSum' /\ need \in Int
        /\ bytes' <= Total(Without(sizes, gone)) + need + o
    <3> HIDE DEF gone
    <3> QED BY <2>1, PutWritesBytes
  <2>3. o \in Overshoots
    BY DEF Overshoots
  <2>4. bytes' \in Int
    BY <1>0, <2>2
  <2>5. ByteBudgetWithOvershoot'
    <3> HIDE DEF need, o
    <3> QED BY <2>1, <2>2, <2>3, <2>4, BudgetStored
  <2> QED BY <2>2, <2>5 DEF ByteInv
<1>8. ASSUME NEW t \in Threads, NEW ns \in Namespaces, NEW id \in Ids,
             \/ \E p \in Puts : Put(t, ns, id, p)
             \/ \E b \in Batches : PutWrites(t, ns, id, b)
      PROVE  ByteInv'
  BY <1>5, <1>6, <1>7, <1>8 DEF Put, PutWrites
<1>9. ASSUME NEW t, NEW ns, NEW id, GetTuple(t, ns, id) PROVE ByteInv'
  BY <1>1, <1>4, <1>9 DEF GetTuple
<1>10. ASSUME NEW t, List(t) \/ DeltaHistory(t) \/ DeleteThread(t) PROVE ByteInv'
  BY <1>1, <1>3, <1>4, <1>10 DEF List, DeltaHistory, DeleteThread, Drop, UpstreamWithout
<1>11. CASE Clear
  <2>1. /\ stored' = [k \in {} |-> 0] /\ sizes' = [k \in {} |-> 0] /\ bytes' = 0
    BY <1>11 DEF Clear
  <2>2. DOMAIN stored' = {} /\ DOMAIN sizes' = {}
    BY <2>1
  <2>3. IsFiniteSet(DOMAIN stored') /\ CounterIsSum'
    BY <2>1, <2>2, FS_EmptySet, SumEmpty DEF CounterIsSum, Total
  <2>4. ByteBudgetWithOvershoot'
    <3>1. bytes' <= MaxTotalBytes + 0
      BY <2>1, LimitsAssumption
    <3> QED BY <3>1 DEF ByteBudgetWithOvershoot
  <2> QED BY <2>3, <2>4 DEF ByteInv
<1>12. CASE Tick \/ UNCHANGED saverVars
  BY <1>2, <1>12 DEF Tick, saverVars
<1> QED BY <1>3, <1>8, <1>9, <1>10, <1>11, <1>12 DEF SaverNext, PurgeExpired, Stats

\* No bytes are accounted at first.
LEMMA ByteInvInit == SaverInit => ByteInv
<1> SUFFICES ASSUME SaverInit PROVE ByteInv
  OBVIOUS
<1>1. DOMAIN stored = {} /\ DOMAIN sizes = {} /\ bytes = 0
  BY DEF SaverInit
<1>2. IsFiniteSet(DOMAIN stored) /\ CounterIsSum
  BY <1>1, FS_EmptySet, SumEmpty DEF CounterIsSum, Total
<1>3. ByteBudgetWithOvershoot
  <2>1. bytes <= MaxTotalBytes + 0
    BY <1>1, LimitsAssumption
  <2> QED BY <2>1 DEF ByteBudgetWithOvershoot
<1> QED BY <1>2, <1>3 DEF ByteInv

-----------------------------------------------------------------------------
(***************************************************************************)
(* What follows                                                            *)
(***************************************************************************)

\* The invariant holds of every state of the saver.
THEOREM ByteInvariance == SaverSpec => []ByteInv
<1>1. SaverInv /\ ByteInv /\ [SaverNext]_saverVars => ByteInv'
  BY ByteInvStep
<1> QED BY <1>1, ByteInvInit, SaverInvariance, PTL DEF SaverSpec

\* _serialized_bytes is the sum of _sizes after any sequence of puts, replaced
\* items, expiries, evictions and deletions: its differences never drift.
THEOREM CounterStaysSum == SaverSpec => []CounterIsSum
<1>1. ByteInv => CounterIsSum
  BY DEF ByteInv
<1> QED BY <1>1, ByteInvariance, PTL

\* max_total_bytes is exceeded by at most what a single put stores in empty
\* blobs or a single put_writes in repeated task paths: excesses do not add up.
THEOREM BudgetIsKept == SaverSpec => []ByteBudgetWithOvershoot
<1>1. ByteInv => ByteBudgetWithOvershoot
  BY DEF ByteInv
<1> QED BY <1>1, ByteInvariance, PTL


\* What is asked for is a number of bytes.
LEMMA NeedsAreNumbers ==
  /\ \A p \in Puts : EstimatedSize(p) \in Nat
  /\ \A b \in Batches : WriteSize(b) \in Nat
<1>1. ASSUME NEW p \in Puts PROVE EstimatedSize(p) \in Nat
  <2>1. /\ IsFiniteSet(DOMAIN p.values) /\ \A v \in DOMAIN p.values : p.values[v] \in Nat
        /\ p.body \in Nat
    BY InputsAssumption DEF IsPut
  <2>2. Total(p.values) \in Nat
    BY <2>1, SumNat DEF Total
  <2> QED BY <2>1, <2>2 DEF EstimatedSize
<1>2. ASSUME NEW b \in Batches PROVE WriteSize(b) \in Nat
  <2>1. /\ IsFiniteSet(DOMAIN b.writes) /\ \A s \in DOMAIN b.writes : b.writes[s] \in Nat
        /\ b.taskId \in Nat /\ b.path \in Nat
    BY InputsAssumption DEF IsBatch
  <2>2. Total(b.writes) \in Nat
    BY <2>1, SumNat DEF Total
  <2> QED BY <2>1, <2>2 DEF WriteSize
<1> QED BY <1>1, <1>2

\* When a put is refused for the budget, what is left is the thread's own.
LEMMA RefusalIsNecessary ==
  ASSUME SaverInv, ByteInv, NEW t \in Threads, NEW ns, NEW id, NEW need \in Nat,
         OverBudget(t, ns, id, need)
  PROVE  Total(Without(stored, Threads \ {t})') + need > MaxTotalBytes
<1> DEFINE gone == GoneFor(t) \cup (Known \ {t})
<1>1. ~ Fits(need, gone) /\ stored' = Without(stored, gone)
  BY DEF OverBudget, Drop, UpstreamWithout
<1>2. sizes = stored /\ \A k \in DOMAIN stored : k.thread \in Known
  BY DEF SaverInv, DataInv, SizesAreExact, NoOrphans
<1>3. \A k \in DOMAIN stored' : k.thread = t
  BY <1>1, <1>2 DEF Without
<1> HIDE DEF gone
<1>4. Without(stored, Threads \ {t})' = stored'
  <2>1. stored' = [k \in DOMAIN stored' |-> stored'[k]]
    BY <1>1 DEF Without
  <2>2. {k \in DOMAIN stored' : k.thread \notin Threads \ {t}} = DOMAIN stored'
    BY <1>3
  <2>3. Without(stored, Threads \ {t})' = [k \in DOMAIN stored' |-> stored'[k]]
    BY <2>2 DEF Without
  <2> QED BY <2>1, <2>3
<1>5. /\ bytes - BytesOf(gone) = Total(stored') /\ Total(stored') \in Nat
  BY <1>1, <1>2, BytesLeft
<1>6. ~ (Total(stored') + need <= MaxTotalBytes) /\ MaxTotalBytes \in Nat
  BY <1>1, <1>5, LimitsAssumption DEF Fits
<1> QED BY <1>4, <1>5, <1>6

\* A budget error is raised only when the thread's own items leave no room,
\* however many other threads there were to evict.
THEOREM RejectsOnlyWhatItMust == SaverSpec => []RejectsOnlyIfNecessary
<1>1. SaverInit => RejectsOnlyIfNecessary
  BY DEF SaverInit, RejectsOnlyIfNecessary, NoReply
<1>2. ASSUME SaverInv, ByteInv, RejectsOnlyIfNecessary, [SaverNext]_saverVars
      PROVE  RejectsOnlyIfNecessary'
  <2>1. CASE UNCHANGED saverVars
    BY <1>2, <2>1 DEF RejectsOnlyIfNecessary, saverVars, Without
  <2>2. CASE SaverNext
    <3> SUFFICES ASSUME reply'.result = "budget"
                 PROVE  Total(Without(stored, Threads \ {reply.thread})') + reply'.need
                          > MaxTotalBytes
      BY DEF RejectsOnlyIfNecessary
    <3>1. reply' # NoReply
      BY DEF NoReply
    <3>2. PICK t \in Threads, ns \in Namespaces, id \in Ids :
               \/ \E p \in Puts : Put(t, ns, id, p)
               \/ \E b \in Batches : PutWrites(t, ns, id, b)
      BY <2>2, <3>1 DEF SaverNext, GetTuple, List, DeltaHistory, DeleteThread, PurgeExpired,
                  Stats, Clear, Tick, PurgeOnly, PurgeAndTouch
    <3>3. \E need \in Nat : OverBudget(t, ns, id, need)
      <4>1. ASSUME NEW need, NEW limit,
                   TooLarge(t, need, limit) \/ OverLimit(t, ns, id, need)
            PROVE  FALSE
        BY <4>1 DEF TooLarge, OverLimit, Answer
      <4>2. ASSUME NEW p \in Puts, PutStored(t, ns, id, p) PROVE FALSE
        BY <4>2 DEF PutStored, Answer
      <4>3. ASSUME NEW b \in Batches, PutWritesStored(t, ns, id, b) PROVE FALSE
        BY <4>3 DEF PutWritesStored, Answer
      <4> QED BY <3>2, <4>1, <4>2, <4>3, NeedsAreNumbers DEF Put, PutWrites
    <3>4. PICK need \in Nat : OverBudget(t, ns, id, need)
      BY <3>3
    <3>5. reply'.thread = t /\ reply'.need = need
      BY <3>4 DEF OverBudget, Answer
    <3>6. Total(Without(stored, Threads \ {t})') + need > MaxTotalBytes
      BY <1>2, <3>4, RefusalIsNecessary
    <3> QED BY <3>5, <3>6 DEF Without
  <2> QED BY <1>2, <2>1, <2>2
<1> QED BY <1>1, <1>2, ByteInvariance, SaverInvariance, PTL DEF SaverSpec
=============================================================================
