--------------------------- MODULE TranscriptsProofs ---------------------------
(***************************************************************************)
(* Theorems about Transcripts, for every value of its constants.           *)
(***************************************************************************)
EXTENDS Transcripts, FiniteSetTheorems, TLAPS

-------------------------------------------------------------------------------
(* Filtering a sequence of messages *)

LEMMA RankBounds ==
    ASSUME NEW S \in SUBSET Nat, IsFiniteSet(S)
    PROVE  /\ \A k \in Nat : /\ IsFiniteSet(UpTo(S, k))
                             /\ Cardinality(UpTo(S, k)) \in 0..Cardinality(S)
           /\ \A k \in S : Cardinality(UpTo(S, k)) \in 1..Cardinality(S)
           /\ \A k, l \in S : k < l => Cardinality(UpTo(S, k)) < Cardinality(UpTo(S, l))
  <1>1. ASSUME NEW k \in Nat
        PROVE  /\ IsFiniteSet(UpTo(S, k)) /\ Cardinality(UpTo(S, k)) \in Nat
               /\ Cardinality(UpTo(S, k)) <= Cardinality(S)
    <2>1. UpTo(S, k) \in SUBSET S
      BY DEF UpTo
    <2> QED
      BY <2>1, FS_Subset, FS_CardinalityType
  <1>2. Cardinality(S) \in Nat
    BY FS_CardinalityType
  <1>3. ASSUME NEW k \in S
        PROVE  Cardinality(UpTo(S, k)) # 0
    <2>1. k \in UpTo(S, k)
      BY DEF UpTo
    <2> QED
      BY <1>1, <2>1, FS_EmptySet
  <1>4. ASSUME NEW k \in S, NEW l \in S, k < l
        PROVE  Cardinality(UpTo(S, k)) < Cardinality(UpTo(S, l))
    <2>0. k \in Nat /\ l \in Nat /\ k <= l /\ l <= l /\ ~(l <= k)
      BY <1>4
    <2>1. UpTo(S, k) \in SUBSET UpTo(S, l) /\ l \in UpTo(S, l) /\ l \notin UpTo(S, k)
      <3>1. \A j \in S : j <= k => j <= l
        BY <2>0
      <3> QED
        BY <2>0, <3>1 DEF UpTo
    <2>2. Cardinality(UpTo(S, k)) <= Cardinality(UpTo(S, l))
          /\ Cardinality(UpTo(S, k)) # Cardinality(UpTo(S, l))
      BY <1>1, <2>1, FS_Subset
    <2> QED
      BY <1>1, <2>2
  <1> QED
    BY <1>1, <1>2, <1>3, <1>4

(* The places of a finite set are numbered from 1, in order. *)
LEMMA Places ==
    ASSUME NEW S \in SUBSET Nat, IsFiniteSet(S)
    PROVE  /\ Cardinality(S) \in Nat
           /\ \A n \in 1..Cardinality(S) :
                Place(S, n) \in S /\ Cardinality(UpTo(S, Place(S, n))) = n
           /\ \A k \in S : /\ Cardinality(UpTo(S, k)) \in 1..Cardinality(S)
                           /\ Place(S, Cardinality(UpTo(S, k))) = k
  <1> DEFINE rank == [k \in S |-> Cardinality(UpTo(S, k))]
  <1>1. /\ \A k \in S : Cardinality(UpTo(S, k)) \in 1..Cardinality(S)
        /\ \A k, l \in S : k < l => Cardinality(UpTo(S, k)) < Cardinality(UpTo(S, l))
    BY RankBounds
  <1>2. Cardinality(S) \in Nat
    BY FS_CardinalityType
  <1>3. \A k, l \in S : Cardinality(UpTo(S, k)) = Cardinality(UpTo(S, l)) => k = l
    BY <1>1
  <1>4. rank \in Injection(S, 1..Cardinality(S))
    <2>1. rank \in [S -> 1..Cardinality(S)]
      BY <1>1
    <2>2. \A k, l \in S : rank[k] = rank[l] => k = l
      BY <1>3
    <2> QED
      BY <2>1, <2>2 DEF Injection, IsInjective
  <1>5. IsFiniteSet(1..Cardinality(S)) /\ Cardinality(1..Cardinality(S)) = Cardinality(S)
    BY <1>2, FS_Interval
  <1>6. rank \in Surjection(S, 1..Cardinality(S))
    BY <1>4, <1>5, FS_Injection
  <1>7. \A n \in 1..Cardinality(S) : \E k \in S : Cardinality(UpTo(S, k)) = n
    BY <1>6 DEF Surjection
  <1>8. ASSUME NEW n \in 1..Cardinality(S)
        PROVE  Place(S, n) \in S /\ Cardinality(UpTo(S, Place(S, n))) = n
    BY <1>7 DEF Place
  <1>9. ASSUME NEW k \in S
        PROVE  Place(S, Cardinality(UpTo(S, k))) = k
    BY <1>1, <1>3, <1>8
  <1> QED
    BY <1>1, <1>2, <1>8, <1>9

LEMMA FilteredType ==
    ASSUME NEW M, NEW s \in Seq(M), NEW S \in SUBSET (DOMAIN s)
    PROVE  /\ IsFiniteSet(S) /\ S \in SUBSET Nat /\ Cardinality(S) \in Nat
           /\ Filtered(s, S) \in Seq(M) /\ Len(Filtered(s, S)) = Cardinality(S)
           /\ DOMAIN Filtered(s, S) = 1..Cardinality(S)
           /\ \A n \in 1..Cardinality(S) :
                Place(S, n) \in S /\ Filtered(s, S)[n] = s[Place(S, n)]
  <1>1. DOMAIN s = 1..Len(s) /\ Len(s) \in Nat
    OBVIOUS
  <1>2. IsFiniteSet(DOMAIN s)
    BY <1>1, FS_Interval
  <1>3. IsFiniteSet(S) /\ S \in SUBSET Nat
    BY <1>1, <1>2, FS_Subset
  <1>4. Cardinality(S) \in Nat /\ \A n \in 1..Cardinality(S) : Place(S, n) \in S
    BY <1>3, Places
  <1>5. \A n \in 1..Cardinality(S) : s[Place(S, n)] \in M
    BY <1>4
  <1> QED
    BY <1>3, <1>4, <1>5 DEF Filtered

(* A filter after a filter is one filter. *)
LEMMA FilteredTwice ==
    ASSUME NEW M, NEW s \in Seq(M), NEW K \in SUBSET (DOMAIN s), NEW E \in SUBSET K,
           NEW T, T = {n \in 1..Cardinality(K) : Place(K, n) \in E}
    PROVE  /\ Cardinality(T) = Cardinality(E)
           /\ Filtered(Filtered(s, K), T) = Filtered(s, E)
  <1>1. /\ IsFiniteSet(K) /\ K \in SUBSET Nat /\ Cardinality(K) \in Nat
        /\ \A n \in 1..Cardinality(K) :
             Place(K, n) \in K /\ Filtered(s, K)[n] = s[Place(K, n)]
        /\ DOMAIN Filtered(s, K) = 1..Cardinality(K)
    BY FilteredType
  <1>2. /\ \A n \in 1..Cardinality(K) : Cardinality(UpTo(K, Place(K, n))) = n
        /\ \A k \in K : /\ Cardinality(UpTo(K, k)) \in 1..Cardinality(K)
                        /\ Place(K, Cardinality(UpTo(K, k))) = k
    BY <1>1, Places
  <1>3. \A k, l \in K : k < l => Cardinality(UpTo(K, k)) < Cardinality(UpTo(K, l))
    BY <1>1, RankBounds
  <1>4. \A m, n \in 1..Cardinality(K) : m <= n <=> Place(K, m) <= Place(K, n)
    BY <1>1, <1>2, <1>3
  <1>5. /\ IsFiniteSet(T) /\ T \in SUBSET Nat /\ IsFiniteSet(E) /\ E \in SUBSET Nat
    <2>1. IsFiniteSet(1..Cardinality(K))
      <3>1. Cardinality(K) \in Int /\ 1 \in Int
        BY <1>1
      <3> QED
        BY <3>1, FS_Interval
    <2> QED
      BY <1>1, <2>1, FS_Subset
  <1>6. ASSUME NEW A \in SUBSET T, NEW B \in SUBSET E,
               \A t \in A : Place(K, t) \in B,
               \A e \in B : Cardinality(UpTo(K, e)) \in A
        PROVE  Cardinality(A) = Cardinality(B)
    <2> DEFINE f == [t \in A |-> Place(K, t)]
    <2>1. f \in [A -> B]
      BY <1>6
    <2>2. \A t, u \in A : f[t] = f[u] => t = u
      BY <1>2
    <2>3. \A e \in B : \E t \in A : f[t] = e
      BY <1>2, <1>6
    <2>4. f \in Bijection(A, B)
      BY <2>1, <2>2, <2>3 DEF Bijection, Injection, Surjection, IsInjective
    <2>5. ExistsBijection(A, B)
      BY <2>4 DEF ExistsBijection
    <2>6. IsFiniteSet(A)
      BY <1>5, FS_Subset
    <2> QED
      BY <2>5, <2>6, FS_Bijection
  <1>7. \A e \in E : Cardinality(UpTo(K, e)) \in T
    BY <1>2
  <1>8. Cardinality(T) = Cardinality(E)
    <2>1. T \in SUBSET T /\ E \in SUBSET E /\ \A t \in T : Place(K, t) \in E
      OBVIOUS
    <2> QED
      BY <1>6, <1>7, <2>1
  <1>9. ASSUME NEW n \in 1..Cardinality(E)
        PROVE  Filtered(Filtered(s, K), T)[n] = Filtered(s, E)[n]
    <2>0. /\ Place(T, n) \in T /\ Cardinality(UpTo(T, Place(T, n))) = n
          /\ \A k \in E : Place(E, Cardinality(UpTo(E, k))) = k
      BY <1>5, <1>8, Places
    <2>1. PICK t \in T : t = Place(T, n) /\ Cardinality(UpTo(T, t)) = n
      BY <2>0
    <2>a. PICK e \in E : e = Place(K, t)
      BY <2>1
    <2>2. e \in E /\ e \in K /\ t \in 1..Cardinality(K) /\ e = Place(K, t)
      BY <2>a
    <2>3. Cardinality(UpTo(T, t)) = Cardinality(UpTo(E, e))
      <3>1. UpTo(T, t) \in SUBSET T /\ UpTo(E, e) \in SUBSET E
        BY DEF UpTo
      <3>2. \A u \in UpTo(T, t) : Place(K, u) \in UpTo(E, e)
        BY <1>4, <2>1, <2>2 DEF UpTo
      <3>3. ASSUME NEW d \in UpTo(E, e)
            PROVE  Cardinality(UpTo(K, d)) \in UpTo(T, t)
        <4>1. d \in E /\ d \in K /\ d <= e
          BY DEF UpTo
        <4>2. Cardinality(UpTo(K, d)) \in T /\ Cardinality(UpTo(K, d)) \in 1..Cardinality(K)
              /\ Place(K, Cardinality(UpTo(K, d))) = d
          BY <1>2, <1>7, <4>1
        <4>3. Cardinality(UpTo(K, d)) <= t
          BY <1>4, <2>2, <4>1, <4>2
        <4> QED
          BY <4>2, <4>3 DEF UpTo
      <3> QED
        BY <1>6, <3>1, <3>2, <3>3
    <2>4. Place(E, n) = e
      BY <2>0, <2>1, <2>2, <2>3
    <2>5. Filtered(s, E)[n] = s[e]
      BY <2>4 DEF Filtered
    <2>6. Filtered(Filtered(s, K), T)[n] = Filtered(s, K)[t]
      BY <1>8, <2>1 DEF Filtered
    <2> QED
      BY <1>1, <2>2, <2>5, <2>6
  <1> QED
    BY <1>8, <1>9 DEF Filtered

LEMMA FilteredSame ==
    ASSUME NEW s, NEW t, NEW S, \A k \in S : s[k] = t[k],
           \A n \in 1..Cardinality(S) : Place(S, n) \in S
    PROVE  Filtered(s, S) = Filtered(t, S)
  BY DEF Filtered

LEMMA SmallestPlace ==
    ASSUME NEW S \in SUBSET Nat, IsFiniteSet(S), S # {}
    PROVE  Min(S) \in S /\ \A k \in S : Min(S) <= k
  <1>1. Cardinality(S) \in Nat /\ Cardinality(S) # 0
    BY FS_CardinalityType, FS_EmptySet
  <1>2. 1 \in 1..Cardinality(S)
    BY <1>1
  <1>3. PICK m \in S : Cardinality(UpTo(S, m)) = 1
    BY <1>2, Places
  <1>4. ASSUME NEW k \in S
        PROVE  m <= k
    <2>1. CASE k < m
      <3>1. Cardinality(UpTo(S, k)) < 1 /\ Cardinality(UpTo(S, k)) \in 1..Cardinality(S)
        BY <1>3, <2>1, RankBounds
      <3> QED
        BY <1>1, <3>1
    <2>2. k \in Nat /\ m \in Nat
      OBVIOUS
    <2> QED
      BY <2>1, <2>2
  <1> QED
    BY <1>4 DEF Min

-------------------------------------------------------------------------------
(* Transcripts *)

EntryKinds == {"user", "assistant"}

LEMMA MessagesType ==
    /\ \A m \in Messages : /\ m.kind \in {"user", "assistant", "local", "canonical", "live"}
                           /\ m.of \in Prompts /\ m = Message(m.kind, m.of)
    /\ \A m \in Entries : m \in Messages /\ m.kind \in EntryKinds /\ m.of \in Prompts
    /\ \A p \in Prompts, kind \in {"user", "assistant", "local", "canonical", "live"} :
         /\ Message(kind, p) \in Messages
         /\ Message(kind, p).kind = kind /\ Message(kind, p).of = p
    /\ \A p \in Prompts, kind \in EntryKinds : Message(kind, p) \in Entries
    /\ \A m \in Messages : m.kind \in EntryKinds => m \in Entries
  <1> USE DEF Messages, Entries, Message, EntryKinds
  <1>1. \A m \in Messages : m.kind \in {"user", "assistant", "local", "canonical", "live"}
    OBVIOUS
  <1>2. \A m \in Messages : m.of \in Prompts /\ m = Message(m.kind, m.of)
    OBVIOUS
  <1>3. \A m \in Entries : m \in Messages /\ m.kind \in EntryKinds /\ m.of \in Prompts
    OBVIOUS
  <1>4. \A p \in Prompts, kind \in {"user", "assistant", "local", "canonical", "live"} :
          Message(kind, p) \in Messages
    OBVIOUS
  <1>5. \A p, kind : Message(kind, p).kind = kind /\ Message(kind, p).of = p
    OBVIOUS
  <1>6. \A m \in Messages : m.kind \in EntryKinds => m \in Entries
    OBVIOUS
  <1>7. \A p \in Prompts, kind \in EntryKinds : Message(kind, p) \in Entries
    OBVIOUS
  <1> HIDE DEF Messages, Entries, Message, EntryKinds
  <1> QED
    BY <1>1, <1>2, <1>3, <1>4, <1>5, <1>6, <1>7

LEMMA OfKindType ==
    ASSUME NEW m \in Seq(Messages), NEW kinds
    PROVE  /\ OfKind(m, kinds) \in SUBSET (DOMAIN m) /\ OfKind(m, kinds) \in SUBSET Nat
           /\ IsFiniteSet(OfKind(m, kinds)) /\ Cardinality(OfKind(m, kinds)) \in Nat
           /\ DOMAIN m = 1..Len(m) /\ Len(m) \in Nat
           /\ \A k \in DOMAIN m : m[k] \in Messages
  <1>1. OfKind(m, kinds) \in SUBSET (DOMAIN m)
    BY DEF OfKind
  <1>2. DOMAIN m = 1..Len(m) /\ Len(m) \in Nat /\ \A k \in DOMAIN m : m[k] \in Messages
    OBVIOUS
  <1> QED
    BY <1>1, <1>2, FilteredType

LEMMA LocalsType ==
    ASSUME NEW m \in Seq(Messages), NEW p
    PROVE  /\ LocalsLike(m, p) \in SUBSET (DOMAIN m)
           /\ IsFiniteSet(LocalsLike(m, p)) /\ Cardinality(LocalsLike(m, p)) \in Nat
  <1>1. LocalsLike(m, p) \in SUBSET (DOMAIN m)
    BY DEF LocalsLike, OfKind
  <1> QED
    BY <1>1, FilteredType

LEMMA ShownType ==
    ASSUME NEW m \in Seq(Messages)
    PROVE  /\ Shown(m) \in Seq(Messages) /\ Len(Shown(m)) \in Nat
           /\ DOMAIN Shown(m) = 1..Len(Shown(m))
           /\ Len(Shown(m)) = Cardinality(OfKind(m, EntryKinds))
  BY OfKindType, FilteredType DEF Shown, EntryKinds

(* Two transcripts with the same entries in the same places show the same. *)
LEMMA ShownSame ==
    ASSUME NEW m \in Seq(Messages), NEW n \in Seq(Messages),
           OfKind(n, EntryKinds) = OfKind(m, EntryKinds),
           \A k \in OfKind(m, EntryKinds) : n[k] = m[k]
    PROVE  Shown(n) = Shown(m)
  <1> DEFINE S == OfKind(m, EntryKinds)
  <1>1. \A i \in 1..Cardinality(S) : Place(S, i) \in S
    BY OfKindType, FilteredType
  <1>2. Filtered(m, S) = Filtered(n, S)
    BY <1>1, FilteredSame
  <1> QED
    BY <1>2 DEF Shown, EntryKinds

LEMMA AppendToTranscript ==
    ASSUME NEW m \in Seq(Messages), NEW x \in Messages, x.kind \notin EntryKinds
    PROVE  /\ Append(m, x) \in Seq(Messages)
           /\ Shown(Append(m, x)) = Shown(m)
           /\ \A k \in DOMAIN Append(m, x) :
                Append(m, x)[k] = x \/ \E j \in DOMAIN m : Append(m, x)[k] = m[j]
           /\ x.kind # "local" => \A p : LocalsLike(Append(m, x), p) = LocalsLike(m, p)
           /\ \A p : LocalsLike(Append(m, x), p) \in
                {LocalsLike(m, p), LocalsLike(m, p) \union {Len(m) + 1}}
           /\ \A p : ~SameText(x.of, p) => LocalsLike(Append(m, x), p) = LocalsLike(m, p)
  <1> DEFINE n == Append(m, x)
  <1>1. /\ n \in Seq(Messages) /\ Len(m) \in Nat
        /\ DOMAIN n = (DOMAIN m) \union {Len(m) + 1} /\ Len(m) + 1 \notin DOMAIN m
        /\ n[Len(m) + 1] = x /\ \A k \in DOMAIN m : n[k] = m[k]
    OBVIOUS
  <1> HIDE DEF n
  <1>2. OfKind(n, EntryKinds) = OfKind(m, EntryKinds)
    BY <1>1 DEF OfKind
  <1>3. Shown(n) = Shown(m)
    <2>1. \A k \in OfKind(m, EntryKinds) : n[k] = m[k]
      BY <1>1 DEF OfKind
    <2> QED
      BY <1>1, <1>2, <2>1, ShownSame
  <1>4. x.kind # "local" => \A p : LocalsLike(n, p) = LocalsLike(m, p)
    BY <1>1 DEF LocalsLike, OfKind
  <1>5. \A p : LocalsLike(n, p) \in {LocalsLike(m, p), LocalsLike(m, p) \union {Len(m) + 1}}
    <2> SUFFICES ASSUME NEW p
                 PROVE  LocalsLike(n, p) \in
                            {LocalsLike(m, p), LocalsLike(m, p) \union {Len(m) + 1}}
      OBVIOUS
    <2>1. CASE x.kind = "local" /\ SameText(x.of, p)
      BY <1>1, <2>1 DEF LocalsLike, OfKind
    <2>2. CASE ~(x.kind = "local" /\ SameText(x.of, p))
      BY <1>1, <2>2 DEF LocalsLike, OfKind
    <2> QED
      BY <2>1, <2>2
  <1>6. \A p : ~SameText(x.of, p) => LocalsLike(n, p) = LocalsLike(m, p)
    BY <1>1 DEF LocalsLike, OfKind
  <1>7. \A k \in DOMAIN n : n[k] = x \/ \E j \in DOMAIN m : n[k] = m[j]
    BY <1>1
  <1> QED
    BY <1>1, <1>3, <1>4, <1>5, <1>6, <1>7 DEF n

(* A local message becomes canonical: the prompt's own, or one with its text. *)
LEMMA ConfirmTranscript ==
    ASSUME NEW m \in Seq(Messages), NEW p \in Prompts
    PROVE  /\ Confirm(m, p) \in Seq(Messages)
           /\ Shown(Confirm(m, p)) = Shown(m)
           /\ \A k \in DOMAIN Confirm(m, p) :
                \/ Confirm(m, p)[k] = Message("canonical", p)
                \/ \E j \in DOMAIN m : Confirm(m, p)[k] = m[j]
           /\ \A q : LocalsLike(Confirm(m, p), q) \in SUBSET LocalsLike(m, q)
           /\ (\A k \in DOMAIN m : m[k] # Message("canonical", p)) =>
                \A q : SameText(p, q) =>
                    \/ LocalsLike(m, q) = {}
                    \/ \E k \in LocalsLike(m, q) :
                        LocalsLike(Confirm(m, p), q) = LocalsLike(m, q) \ {k}
  <1> DEFINE x == Message("canonical", p)
             places == {k \in DOMAIN m : IsPlaceholder(m[k], p)}
             n == Confirm(m, p)
  <1>0. x \in Messages /\ x.kind = "canonical" /\ x.of = p /\ x.kind \notin EntryKinds
    BY MessagesType DEF EntryKinds
  <1>1. CASE places = {}
    <2>1. n = Append(m, x)
      BY <1>1 DEF Confirm
    <2>2. \A q : SameText(p, q) => LocalsLike(m, q) = {}
      BY <1>1 DEF LocalsLike, OfKind, IsPlaceholder, SameText
    <2> HIDE DEF x, n
    <2>3. \A q : LocalsLike(n, q) = LocalsLike(m, q)
      BY <1>0, <2>1, AppendToTranscript
    <2>4. n \in Seq(Messages) /\ Shown(n) = Shown(m)
      BY <1>0, <2>1, AppendToTranscript
    <2>5. \A k \in DOMAIN n : n[k] = x \/ \E j \in DOMAIN m : n[k] = m[j]
      BY <1>0, <2>1, AppendToTranscript
    <2> QED
      BY <2>2, <2>3, <2>4, <2>5 DEF n, x
  <1>2. CASE places # {}
    <2>1. DOMAIN m = 1..Len(m) /\ Len(m) \in Nat /\ \A k \in DOMAIN m : m[k] \in Messages
      OBVIOUS
    <2>2. IsFiniteSet(places) /\ places \in SUBSET Nat
      BY FilteredType
    <2>3. Min(places) \in places
      BY <1>2, <2>2, SmallestPlace
    <2>4. PICK i \in DOMAIN m : i = Min(places) /\ IsPlaceholder(m[i], p)
      BY <2>3
    <2>5. n = [m EXCEPT ![i] = x]
      BY <1>2, <2>4 DEF Confirm
    <2> HIDE DEF x, n, places
    <2>6. /\ n \in Seq(Messages) /\ DOMAIN n = DOMAIN m
          /\ n[i] = x /\ \A k \in DOMAIN m : k # i => n[k] = m[k]
      BY <1>0, <2>1, <2>5
    <2>7. m[i].kind \notin EntryKinds
      BY <2>4 DEF IsPlaceholder, EntryKinds
    <2>8. OfKind(n, EntryKinds) = OfKind(m, EntryKinds)
      BY <1>0, <2>6, <2>7 DEF OfKind
    <2>9. \A k \in OfKind(m, EntryKinds) : n[k] = m[k]
      BY <2>6, <2>7 DEF OfKind
    <2>10. Shown(n) = Shown(m)
      BY <2>6, <2>8, <2>9, ShownSame
    <2>11. \A q : LocalsLike(n, q) = LocalsLike(m, q) \ {i}
      BY <1>0, <2>6 DEF LocalsLike, OfKind
    <2>12. ASSUME \A k \in DOMAIN m : m[k] # Message("canonical", p), NEW q, SameText(p, q),
                  LocalsLike(m, q) # {}
           PROVE  i \in LocalsLike(m, q)
      <3>1. m[i].kind = "local"
        BY <2>1, <2>4, <2>12, MessagesType DEF IsPlaceholder
      <3>2. SameText(m[i].of, q)
        BY <2>4, <2>12, <3>1 DEF IsPlaceholder, SameText
      <3> QED
        BY <3>1, <3>2 DEF LocalsLike, OfKind
    <2>13. \A k \in DOMAIN n : n[k] = x \/ \E j \in DOMAIN m : n[k] = m[j]
      BY <2>6
    <2> QED
      BY <2>6, <2>10, <2>11, <2>12, <2>13 DEF n, x
  <1> QED
    BY <1>1, <1>2

(* What a filter keeps of a transcript *)
LEMMA FilterTranscript ==
    ASSUME NEW m \in Seq(Messages), NEW K \in SUBSET (DOMAIN m)
    PROVE  /\ Filtered(m, K) \in Seq(Messages)
           /\ DOMAIN Filtered(m, K) = 1..Cardinality(K)
           /\ \A k \in DOMAIN Filtered(m, K) : \E j \in K : Filtered(m, K)[k] = m[j]
           /\ \A p : Cardinality(LocalsLike(Filtered(m, K), p)) <= Cardinality(LocalsLike(m, p))
           /\ OfKind(m, EntryKinds) \subseteq K => Shown(Filtered(m, K)) = Shown(m)
  <1> DEFINE n == Filtered(m, K)
  <1>1. /\ n \in Seq(Messages) /\ DOMAIN n = 1..Cardinality(K)
        /\ \A k \in 1..Cardinality(K) : Place(K, k) \in K /\ n[k] = m[Place(K, k)]
    BY FilteredType
  <1> HIDE DEF n
  <1>2. ASSUME NEW p
        PROVE  Cardinality(LocalsLike(n, p)) <= Cardinality(LocalsLike(m, p))
    <2> DEFINE E == LocalsLike(m, p) \intersect K
               T == {k \in 1..Cardinality(K) : Place(K, k) \in E}
    <2>1. LocalsLike(n, p) = T
      BY <1>1 DEF LocalsLike, OfKind
    <2>2. Cardinality(T) = Cardinality(E)
      <3>1. E \in SUBSET K
        OBVIOUS
      <3> HIDE DEF E
      <3> QED
        BY <3>1, FilteredTwice
    <2>3. Cardinality(E) <= Cardinality(LocalsLike(m, p))
      BY LocalsType, FS_Subset
    <2> QED
      BY <2>1, <2>2, <2>3
  <1>3. ASSUME OfKind(m, EntryKinds) \subseteq K
        PROVE  Shown(n) = Shown(m)
    <2> DEFINE E == OfKind(m, EntryKinds)
               T == {k \in 1..Cardinality(K) : Place(K, k) \in E}
    <2>1. OfKind(n, EntryKinds) = T
      BY <1>1 DEF OfKind
    <2>2. Filtered(Filtered(m, K), T) = Filtered(m, E)
      <3>1. E \in SUBSET K
        BY <1>3
      <3> HIDE DEF E
      <3> QED
        BY <3>1, FilteredTwice
    <2> QED
      BY <2>1, <2>2 DEF Shown, n, EntryKinds
  <1>4. \A k \in DOMAIN n : \E j \in K : n[k] = m[j]
    BY <1>1
  <1> QED
    BY <1>1, <1>2, <1>3, <1>4 DEF n

LEMMA RemoveFromTranscript ==
    ASSUME NEW m \in Seq(Messages), NEW p
    PROVE  /\ RemovePrompt(m, p) \in Seq(Messages)
           /\ Shown(RemovePrompt(m, p)) = Shown(m)
           /\ \A k \in DOMAIN RemovePrompt(m, p) : \E j \in DOMAIN m : RemovePrompt(m, p)[k] = m[j]
           /\ \A q : Cardinality(LocalsLike(RemovePrompt(m, p), q)) <= Cardinality(LocalsLike(m, q))
  <1> DEFINE removed == {k \in OfKind(m, {"local", "canonical"}) : m[k].of = p}
             K == DOMAIN m \ removed
  <1>1. K \in SUBSET (DOMAIN m)
    OBVIOUS
  <1>2. OfKind(m, EntryKinds) \subseteq K
    BY DEF OfKind, EntryKinds
  <1>3. RemovePrompt(m, p) = Filtered(m, K)
    BY DEF RemovePrompt
  <1> HIDE DEF K
  <1> QED
    BY <1>1, <1>2, <1>3, FilterTranscript

(* A history replaces all but local messages. *)
LEMMA MergeTranscript ==
    ASSUME NEW m \in Seq(Messages), NEW h \in Seq(Entries)
    PROVE  /\ Merge(m, h) \in Seq(Messages)
           /\ Shown(Merge(m, h)) = h
           /\ \A k \in DOMAIN Merge(m, h) : Merge(m, h)[k].kind \in {"local"} \union EntryKinds
           /\ \A q : Cardinality(LocalsLike(Merge(m, h), q)) <= Cardinality(LocalsLike(m, q))
  <1> DEFINE K == Unconfirmed(m, h)
             f == Filtered(m, K)
             n == f \o h
  <1>1. Merge(m, h) = n
    BY DEF Merge
  <1>2. K \in SUBSET (DOMAIN m) /\ \A k \in K : m[k].kind = "local"
    BY DEF Unconfirmed, OfKind
  <1> HIDE DEF K
  <1>3. /\ f \in Seq(Messages)
        /\ \A k \in DOMAIN f : \E j \in K : f[k] = m[j]
        /\ \A q : Cardinality(LocalsLike(f, q)) <= Cardinality(LocalsLike(m, q))
    BY <1>2, FilterTranscript
  <1> HIDE DEF f
  <1>4. h \in Seq(Messages)
    <2>1. DOMAIN h = 1..Len(h) /\ Len(h) \in Nat /\ \A k \in DOMAIN h : h[k] \in Messages
      BY MessagesType
    <2> QED
      BY <2>1
  <1>5. /\ n \in Seq(Messages) /\ Len(f) \in Nat /\ Len(h) \in Nat
        /\ DOMAIN n = 1..(Len(f) + Len(h)) /\ DOMAIN f = 1..Len(f) /\ DOMAIN h = 1..Len(h)
        /\ \A k \in 1..Len(f) : n[k] = f[k]
        /\ \A k \in 1..Len(h) : n[Len(f) + k] = h[k]
        /\ \A k \in (Len(f) + 1)..(Len(f) + Len(h)) : n[k] = h[k - Len(f)]
    BY <1>3, <1>4
  <1>6. \A k \in 1..Len(f) : f[k].kind = "local"
    BY <1>2, <1>3, <1>5
  <1>7. \A k \in 1..Len(h) : h[k].kind \in EntryKinds
    BY <1>5, MessagesType
  <1> HIDE DEF n
  <1>8. \A q : LocalsLike(n, q) = LocalsLike(f, q)
    <2>1. \A k \in DOMAIN n : k \in DOMAIN f \/ n[k].kind # "local"
      <3> SUFFICES ASSUME NEW k \in DOMAIN n, k \notin DOMAIN f
                   PROVE  n[k].kind # "local"
        OBVIOUS
      <3>1. k - Len(f) \in 1..Len(h) /\ n[k] = h[k - Len(f)]
        BY <1>5
      <3> QED
        BY <1>7, <3>1 DEF EntryKinds
    <2>2. \A k \in DOMAIN f : k \in DOMAIN n /\ n[k] = f[k]
      BY <1>5
    <2> QED
      BY <2>1, <2>2 DEF LocalsLike, OfKind
  <1>9. \A k \in DOMAIN n : n[k].kind \in {"local"} \union EntryKinds
    <2> SUFFICES ASSUME NEW k \in DOMAIN n
                 PROVE  n[k].kind \in {"local"} \union EntryKinds
      OBVIOUS
    <2>1. CASE k \in 1..Len(f)
      BY <1>5, <1>6, <2>1
    <2>2. CASE k \in (Len(f) + 1)..(Len(f) + Len(h))
      <3>1. k - Len(f) \in 1..Len(h) /\ n[k] = h[k - Len(f)]
        BY <1>5, <2>2
      <3> QED
        BY <1>7, <3>1
    <2> QED
      BY <1>5, <2>1, <2>2
  <1> DEFINE S == (Len(f) + 1)..(Len(f) + Len(h))
  <1>10. OfKind(n, EntryKinds) = S
    <2>1. \A k \in 1..Len(f) : n[k].kind \notin EntryKinds
      BY <1>5, <1>6 DEF EntryKinds
    <2>2. \A k \in S : k \in DOMAIN n /\ n[k].kind \in EntryKinds
      <3> SUFFICES ASSUME NEW k \in S
                   PROVE  k \in DOMAIN n /\ n[k].kind \in EntryKinds
        OBVIOUS
      <3>1. k - Len(f) \in 1..Len(h) /\ n[k] = h[k - Len(f)] /\ k \in DOMAIN n
        BY <1>5
      <3> QED
        BY <1>7, <3>1
    <2>3. \A k \in DOMAIN n : k \in 1..Len(f) \/ k \in S
      BY <1>5
    <2> HIDE DEF S
    <2> QED
      BY <2>1, <2>2, <2>3 DEF OfKind
  <1>11. IsFiniteSet(S) /\ Cardinality(S) = Len(h) /\ S \in SUBSET Nat
    <2>1. Len(f) + 1 \in Int /\ Len(f) + Len(h) \in Int /\ S \in SUBSET Nat
      BY <1>5
    <2>2. IsFiniteSet(S) /\ Cardinality(S) = IF Len(f) + 1 > Len(f) + Len(h) THEN 0
                                             ELSE (Len(f) + Len(h)) - (Len(f) + 1) + 1
      BY <2>1, FS_Interval
    <2> HIDE DEF S
    <2> QED
      BY <1>5, <2>1, <2>2
  <1>12. ASSUME NEW i \in 1..Len(h)
         PROVE  Place(S, i) = Len(f) + i
    <2>1. UpTo(S, Len(f) + i) = (Len(f) + 1)..(Len(f) + i)
      BY <1>5 DEF UpTo
    <2>2. Cardinality((Len(f) + 1)..(Len(f) + i)) = i
      BY <1>5, FS_Interval
    <2>3. Len(f) + i \in S
      BY <1>5
    <2> HIDE DEF S
    <2> QED
      BY <1>11, <2>1, <2>2, <2>3, Places
  <1>13. Shown(n) = h
    <2>1. Filtered(n, S) = [i \in 1..Len(h) |-> n[Len(f) + i]]
      BY <1>11, <1>12 DEF Filtered
    <2>2. Filtered(n, S) = [i \in 1..Len(h) |-> h[i]]
      BY <1>5, <2>1
    <2>3. h = [i \in 1..Len(h) |-> h[i]]
      BY <1>5
    <2> QED
      BY <1>10, <2>2, <2>3 DEF Shown, EntryKinds
  <1> QED
    BY <1>1, <1>3, <1>5, <1>8, <1>9, <1>13

-------------------------------------------------------------------------------
(* Types *)

Fetching == {Idle, Sent} \union [phase : {"read"}, response : Histories]

LEMMA FetchType ==
    ASSUME TypeOK
    PROVE  /\ \A i \in Fetches : /\ fetch[i] \in Fetching
                                 /\ fetch[i].phase = "read" => fetch[i].response \in Histories
                                 /\ fetch[i] = Sent => fetch[i].phase # "read"
           /\ Idle.phase # "read" /\ Sent.phase # "read" /\ Idle # Sent
           /\ Responses \subseteq Histories
  <1>1. \A i \in Fetches : fetch[i] \in Fetching
    BY DEF TypeOK, Fetching
  <1>2. Idle.phase # "read" /\ Sent.phase # "read" /\ Idle # Sent
    BY DEF Idle, Sent
  <1>3. \A i \in Fetches : fetch[i].phase = "read" => fetch[i].response \in Histories
    BY <1>1, <1>2 DEF Fetching
  <1>4. Responses \subseteq Histories
    BY <1>3 DEF Responses
  <1> QED
    BY <1>1, <1>2, <1>3, <1>4

LEMMA HistoryType ==
    ASSUME NEW h \in Histories
    PROVE  /\ h.rev \in Nat /\ h.messages \in Seq(Entries)
           /\ Len(h.messages) \in Nat /\ DOMAIN h.messages = 1..Len(h.messages)
           /\ h # None
  BY NoneAssumption DEF Histories

LEMMA EventType ==
    ASSUME TypeOK
    PROVE  /\ \A type \in {"started", "live", "completed", "failed"}, p \in Prompts :
                /\ Event(type, p) \in Events /\ Event(type, p).type = type
                /\ Event(type, p).of = p /\ Event(type, p).rev = rev
           /\ \A k \in DOMAIN stream :
                /\ stream[k] \in Events /\ stream[k].of \in Prompts /\ stream[k].rev \in Nat
                /\ stream[k].type \in {"started", "live", "completed", "failed"}
           /\ DOMAIN stream = 1..Len(stream) /\ Len(stream) \in Nat
  <1>1. rev \in Nat /\ stream \in Seq(Events)
    BY DEF TypeOK
  <1>2. DOMAIN stream = 1..Len(stream) /\ Len(stream) \in Nat
        /\ \A k \in DOMAIN stream : stream[k] \in Events
    BY <1>1
  <1>3. \A e \in Events : /\ e.of \in Prompts /\ e.rev \in Nat
                          /\ e.type \in {"started", "live", "completed", "failed"}
    BY DEF Events
  <1>4. \A type \in {"started", "live", "completed", "failed"}, p \in Prompts :
                /\ Event(type, p) \in Events /\ Event(type, p).type = type
                /\ Event(type, p).of = p /\ Event(type, p).rev = rev
    BY <1>1 DEF Event, Events
  <1> QED
    BY <1>2, <1>3, <1>4

(* What became of an event that was emitted *)
Sends(e) ==
    \/ conn = "on" /\ stream' = Append(stream, e) /\ UNCHANGED missed
    \/ conn = "off" /\ stream' = stream /\ missed' = "yes"

LEMMA EmitOne ==
    ASSUME stream \in Seq(Events), NEW e \in Events, Emit(<<e>>)
    PROVE  Sends(e)
  <1>1. stream \o <<e>> = Append(stream, e)
    OBVIOUS
  <1> QED
    BY <1>1 DEF Emit, Sends

LEMMA EmitNone ==
    ASSUME stream \in Seq(Events), Emit(<<>>)
    PROVE  Quiet
  <1>1. stream \o <<>> = stream
    OBVIOUS
  <1> QED
    BY <1>1 DEF Emit, Quiet

(* A step of the server as the browser sees it: revisions grow, turns go on,  *)
(* and what ends a turn is told.                                              *)
Keeps(q) ==
    q \in InFlight' /\ (task'[q] = "ended" => task[q] = "ended" \/ rev' > rev)

Tells(e) ==
    /\ e \in Events /\ Sends(e)
    /\ e.rev \in {rev, rev'}
    /\ task'[e.of] \notin Before
    /\ e.type \in Showing =>
        /\ e.of \in InFlight' /\ (task'[e.of] = "ended" => e.rev < rev')
        /\ \A q \in InFlight : Keeps(q)
    /\ e.type = "started" => task[e.of] = "posted"
    /\ e.type \in Closing =>
        /\ e.rev = rev' /\ rev' = rev /\ task'[e.of] = "settled"
        /\ e.type = "completed" => task[e.of] = "ended"
        /\ \A q \in InFlight : Keeps(q) \/ q = e.of
    /\ InFlight' = {} => e.type \in Closing

Silent ==
    /\ Quiet
    /\ \A q \in InFlight : Keeps(q)
    /\ InFlight' = {} => InFlight = {} /\ rev' = rev

ServerMoves ==
    /\ UNCHANGED <<conn, bucket, known, overtaken, fetch>>
    /\ (rev' = rev /\ cache' = cache) \/ (rev' = rev + 1 /\ cache' = None)
    /\ branch' = branch \/ (rev' = rev /\ \E x \in Entries : branch' = Append(branch, x))
    /\ \A q \in Prompts : task[q] \notin Before => task'[q] \notin Before
    /\ \A q \in Prompts : task'[q] = "ended" => q \in InFlight
    /\ \A q \in Prompts : task[q] \in {"posted", "refused", "unstarted"} =>
        \/ task'[q] \in {"posted", "refused", "unstarted"}
        \/ \E e : Tells(e) /\ e.type = "started" /\ e.of = q
    /\ Silent \/ \E e : Tells(e)

LEMMA EnterType ==
    ASSUME TypeOK, NEW p \in Prompts, NEW phase \in Phases, Enter(p, phase)
    PROVE  /\ task' \in [Prompts -> Phases] /\ task'[p] = phase
           /\ \A q \in Prompts : q # p => task'[q] = task[q]
  BY DEF TypeOK, Enter

TaskMoves(p, from, to) ==
    /\ task[p] = from /\ task'[p] = to /\ task' \in [Prompts -> Phases]
    /\ \A q \in Prompts : q # p => task'[q] = task[q]

(* What the steps of the server have in common with their types *)
LEMMA MovesType ==
    ASSUME TypeOK, ServerMoves, task' \in [Prompts -> Phases],
           live' \in Prompts \union {None}, working' \in BOOLEAN
    PROVE  TypeOK'
  <1>1. rev' \in Nat /\ cache' \in Histories \union {None}
    BY DEF TypeOK, ServerMoves
  <1>2. branch' \in Seq(Entries)
    <2>1. branch \in Seq(Entries) /\ \A x \in Entries : Append(branch, x) \in Seq(Entries)
      BY DEF TypeOK
    <2> QED
      BY <2>1 DEF ServerMoves
  <1>3. stream' \in Seq(Events) /\ missed' \in {"no", "yes", "madeUp"}
    <2>1. CASE Silent
      BY <2>1 DEF TypeOK, Silent, Quiet
    <2>2. ASSUME NEW e, Tells(e)
          PROVE  stream' \in Seq(Events) /\ missed' \in {"no", "yes", "madeUp"}
      <3>1. stream \in Seq(Events) /\ e \in Events /\ missed \in {"no", "yes", "madeUp"}
        BY <2>2 DEF TypeOK, Tells
      <3>2. Append(stream, e) \in Seq(Events)
        BY <3>1
      <3> QED
        BY <2>2, <3>1, <3>2 DEF Tells, Sends
    <2> QED
      BY <2>1, <2>2 DEF ServerMoves
  <1>4. UNCHANGED <<conn, bucket, known, overtaken, fetch>>
    BY DEF ServerMoves
  <1> QED
    BY <1>1, <1>2, <1>3, <1>4 DEF TypeOK

-------------------------------------------------------------------------------
(* The steps of the server *)

Moving == {"prompting", "asked", "answered", "ended"}

LEMMA InFlightType ==
    ASSUME TypeOK
    PROVE  /\ InFlight = {p \in Prompts : task[p] \in Moving}
           /\ Looping \subseteq InFlight
           /\ \A p \in InFlight : task[p] \notin Before
           /\ \A p \in Prompts : task[p] \notin Before => p \in InFlight \/ task[p] = "settled"
  BY DEF TypeOK, Phases, InFlight, Moving, Looping, Before

(* One prompt has moved. *)
LEMMA TaskMoved ==
    ASSUME TypeOK, NEW p \in Prompts, NEW from, NEW to \in Phases, TaskMoves(p, from, to)
    PROVE  /\ InFlight' = IF to \in Moving THEN InFlight \union {p} ELSE InFlight \ {p}
           /\ p \in InFlight <=> from \in Moving
           /\ Looping' = IF to \in {"asked", "answered"} THEN Looping \union {p} ELSE Looping \ {p}
  <1>1. InFlight = {q \in Prompts : task[q] \in Moving}
    BY InFlightType
  <1>2. InFlight' = {q \in Prompts : task'[q] \in Moving}
    BY DEF TaskMoves, Phases, InFlight, Moving
  <1>3. /\ task[p] = from /\ task'[p] = to
        /\ \A q \in Prompts : q # p => task'[q] = task[q]
    BY DEF TaskMoves
  <1>4. InFlight' = IF to \in Moving THEN InFlight \union {p} ELSE InFlight \ {p}
    BY <1>1, <1>2, <1>3
  <1>5. Looping' = IF to \in {"asked", "answered"} THEN Looping \union {p} ELSE Looping \ {p}
    BY <1>3 DEF Looping
  <1> QED
    BY <1>1, <1>3, <1>4, <1>5

LEMMA ServerStepMoves ==
    ASSUME TypeOK, NEW p \in Prompts, NEW from, NEW to \in Phases, ServerStep(p, from, to)
    PROVE  TaskMoves(p, from, to) /\ UNCHANGED <<conn, browser, fetch>>
  BY EnterType DEF ServerStep, TaskMoves

LEMMA StartMoves ==
    ASSUME TypeOK, NEW p \in Prompts, Start(p)
    PROVE  TaskMoves(p, "posted", "prompting") /\ ServerMoves
  <1> DEFINE e == [Event("started", p) EXCEPT !.rev = rev']
  <1>1. /\ TaskMoves(p, "posted", "prompting") /\ UNCHANGED <<conn, browser, fetch>>
        /\ rev' = rev + 1 /\ cache' = None /\ UNCHANGED <<branch, live>> /\ Emit(<<e>>)
    BY ServerStepMoves DEF Start, Invalidate, Phases
  <1>2. rev \in Nat /\ stream \in Seq(Events)
    BY DEF TypeOK
  <1>3. e \in Events /\ e.rev = rev' /\ e.of = p /\ e.type = "started"
    BY <1>1, <1>2 DEF Event, Events
  <1> HIDE DEF e
  <1>4. Sends(e)
    BY <1>1, <1>2, <1>3, EmitOne
  <1>5. /\ task[p] = "posted" /\ task'[p] = "prompting"
        /\ \A q \in Prompts : q # p => task'[q] = task[q]
    BY <1>1 DEF TaskMoves
  <1>6. InFlight' = InFlight \union {p} /\ p \notin InFlight
    BY <1>1, TaskMoved DEF Moving, Phases
  <1>7. \A q \in InFlight : Keeps(q)
    BY <1>5, <1>6, InFlightType DEF Keeps
  <1>8. Tells(e)
    BY <1>1, <1>2, <1>3, <1>4, <1>5, <1>6, <1>7 DEF Tells, Showing, Closing, Before
  <1>9. \A q \in Prompts : task[q] \notin Before => task'[q] \notin Before
    BY <1>5 DEF Before
  <1>10. \A q \in Prompts : task'[q] = "ended" => q \in InFlight
    BY <1>5, InFlightType DEF Moving
  <1> QED
    BY <1>1, <1>3, <1>5, <1>8, <1>9, <1>10 DEF ServerMoves, browser

(* A step that tells the browser nothing *)
LEMMA QuietMoves ==
    ASSUME TypeOK, NEW p \in Prompts, NEW from, NEW to \in Phases,
           TaskMoves(p, from, to), Quiet,
           UNCHANGED <<conn, bucket, known, overtaken, fetch, rev, cache>>,
           branch' = branch \/ \E x \in Entries : branch' = Append(branch, x),
           \/ from \in Moving /\ to \in Moving \ {"ended"}
           \/ from \in {"none", "posted"} /\ to \in {"posted", "refused", "unstarted"}
    PROVE  ServerMoves
  <1>1. /\ task[p] = from /\ task'[p] = to
        /\ \A q \in Prompts : q # p => task'[q] = task[q]
    BY DEF TaskMoves
  <1>2. InFlight' = InFlight
    <2>1. CASE from \in Moving /\ to \in Moving
      BY <2>1, TaskMoved
    <2>2. CASE from \in {"none", "posted"} /\ to \in {"posted", "refused", "unstarted"}
      <3>1. from \notin Moving /\ to \notin Moving
        BY <2>2 DEF Moving
      <3> QED
        BY <3>1, TaskMoved
    <2> QED
      BY <2>1, <2>2
  <1>3. \A q \in InFlight : Keeps(q)
    <2>1. \A q \in InFlight : q \in Prompts
      BY InFlightType
    <2>2. to # "ended"
      BY DEF Moving
    <2> QED
      BY <1>1, <1>2, <2>1, <2>2 DEF Keeps
  <1>4. Silent
    BY <1>2, <1>3 DEF Silent
  <1>5. \A q \in Prompts : task[q] \notin Before => task'[q] \notin Before
    BY <1>1 DEF Before, Moving
  <1>6. \A q \in Prompts : task[q] \in {"posted", "refused", "unstarted"} =>
            task'[q] \in {"posted", "refused", "unstarted"}
    BY <1>1 DEF Moving
  <1>7. \A q \in Prompts : task'[q] = "ended" => q \in InFlight
    BY <1>1, InFlightType DEF Moving
  <1> QED
    BY <1>4, <1>5, <1>6, <1>7 DEF ServerMoves

LEMMA InitFailsMoves ==
    ASSUME TypeOK, NEW p \in Prompts, InitFails(p)
    PROVE  TaskMoves(p, "posted", "unstarted") /\ ServerMoves
  <1>1. TaskMoves(p, "posted", "unstarted") /\ UNCHANGED <<conn, browser, fetch>>
    BY ServerStepMoves DEF InitFails, Phases
  <1> QED
    BY <1>1, QuietMoves DEF InitFails, Phases, browser

LEMMA AskMoves ==
    ASSUME TypeOK, NEW p \in Prompts, Ask(p)
    PROVE  TaskMoves(p, "prompting", "asked") /\ ServerMoves
  <1>1. TaskMoves(p, "prompting", "asked") /\ UNCHANGED <<conn, browser, fetch>>
    BY ServerStepMoves DEF Ask, Phases
  <1>2. Message("user", p) \in Entries
    BY MessagesType DEF EntryKinds
  <1> QED
    BY <1>1, <1>2, QuietMoves DEF Ask, Phases, Moving, browser

LEMMA AnswerMoves ==
    ASSUME TypeOK, NEW p \in Prompts, Answer(p)
    PROVE  TaskMoves(p, "asked", "answered") /\ ServerMoves
  <1>1. TaskMoves(p, "asked", "answered") /\ UNCHANGED <<conn, browser, fetch>>
    BY ServerStepMoves DEF Answer, Phases
  <1>2. Message("assistant", p) \in Entries
    BY MessagesType DEF EntryKinds
  <1> QED
    BY <1>1, <1>2, QuietMoves DEF Answer, Phases, Moving, browser

LEMMA RefuseMoves ==
    ASSUME TypeOK, NEW p \in Prompts, Refuse(p)
    PROVE  TaskMoves(p, "posted", "refused") /\ ServerMoves
  <1>1. TaskMoves(p, "posted", "refused")
    BY EnterType DEF Refuse, TaskMoves, Phases
  <1> QED
    BY <1>1, QuietMoves DEF Refuse, Quiet, Phases

LEMMA NextIsNew ==
    ASSUME NEW p \in Prompts, IsNext(p)
    PROVE  task[p] = "none"
  <1>1. p \in Nat /\ ~(p < p)
    BY TranscriptsAssumption
  <1> QED
    BY <1>1 DEF IsNext

LEMMA SubmitElsewhereMoves ==
    ASSUME TypeOK, NEW p \in Prompts, SubmitElsewhere(p)
    PROVE  TaskMoves(p, "none", "posted") /\ ServerMoves
  <1>1. task[p] = "none"
    BY NextIsNew DEF SubmitElsewhere
  <1>2. TaskMoves(p, "none", "posted")
    BY <1>1, EnterType DEF SubmitElsewhere, TaskMoves, Phases
  <1> QED
    BY <1>2, QuietMoves DEF SubmitElsewhere, Quiet, Phases, browser

LEMMA DeltaMoves ==
    ASSUME TypeOK, NEW p \in Prompts, Delta(p)
    PROVE  UNCHANGED task /\ ServerMoves
  <1> DEFINE e == Event("live", p)
  <1>1. e \in Events /\ e.type = "live" /\ e.of = p /\ e.rev = rev
    BY EventType
  <1>2. Sends(e)
    BY <1>1, EmitOne DEF Delta, TypeOK
  <1>3. /\ task[p] = "asked" /\ task' = task /\ rev' = rev + 1 /\ cache' = None
        /\ UNCHANGED <<branch, conn, browser, fetch>>
    BY DEF Delta, Invalidate
  <1> HIDE DEF e
  <1>4. InFlight' = InFlight /\ p \in InFlight
    BY <1>3, InFlightType DEF InFlight
  <1>5. \A q \in InFlight : Keeps(q)
    BY <1>3, <1>4 DEF Keeps
  <1>6. Tells(e)
    BY <1>1, <1>2, <1>3, <1>4, <1>5 DEF Tells, Showing, Closing, Before
  <1>7. \A q \in Prompts : task'[q] = "ended" => q \in InFlight
    BY <1>3, InFlightType DEF Moving
  <1> QED
    BY <1>3, <1>6, <1>7 DEF ServerMoves, browser

LEMMA AgentEndMoves ==
    ASSUME TypeOK, ServerSound, NEW p \in Prompts, AgentEnd(p)
    PROVE  /\ task[p] \in {"asked", "answered"} /\ TaskMoves(p, task[p], "ended")
           /\ live \in {None, p} /\ ServerMoves
  <1>1. /\ task[p] \in {"asked", "answered"} /\ TaskMoves(p, task[p], "ended")
        /\ UNCHANGED <<conn, browser, fetch>>
    BY ServerStepMoves DEF AgentEnd, Phases
  <1>2. p \in Looping
    BY <1>1 DEF Looping
  <1>3. live \in {None, p}
    BY <1>2 DEF ServerSound
  <1>4. /\ rev' = rev + 1 /\ cache' = None /\ UNCHANGED branch /\ rev \in Nat
        /\ Emit(IF live = None THEN <<>> ELSE <<Event("live", live)>>)
    BY DEF AgentEnd, Invalidate, TypeOK
  <1>5. InFlight' = InFlight /\ p \in InFlight
    <2>1. task[p] \in Moving /\ "ended" \in Moving /\ "ended" \in Phases
      BY <1>1 DEF Moving, Phases
    <2> QED
      BY <1>1, <2>1, TaskMoved
  <1>6. \A q \in InFlight : Keeps(q)
    BY <1>4, <1>5 DEF Keeps
  <1>7. \A q \in Prompts : task[q] \notin Before => task'[q] \notin Before
    BY <1>1 DEF TaskMoves, Before
  <1>8. \A q \in Prompts : task[q] \in {"posted", "refused", "unstarted"} =>
            task'[q] \in {"posted", "refused", "unstarted"}
    BY <1>1 DEF TaskMoves
  <1>9. Silent \/ \E e : Tells(e)
    <2>1. CASE live = None
      <3>1. Quiet
        BY <1>4, <2>1, EmitNone DEF TypeOK
      <3> QED
        BY <1>5, <1>6, <3>1 DEF Silent
    <2>2. CASE live = p /\ live # None
      <3> DEFINE e == Event("live", p)
      <3>1. e \in Events /\ e.type = "live" /\ e.of = p /\ e.rev = rev
        BY EventType
      <3>2. Sends(e)
        BY <1>4, <2>2, <3>1, EmitOne DEF TypeOK
      <3> HIDE DEF e
      <3>3. task'[p] = "ended"
        BY <1>1 DEF TaskMoves
      <3>4. Tells(e)
        BY <1>4, <1>5, <1>6, <3>1, <3>2, <3>3 DEF Tells, Showing, Closing, Before
      <3> QED
        BY <3>4
    <2> QED
      BY <1>3, <2>1, <2>2
  <1>10. \A q \in Prompts : task'[q] = "ended" => q \in InFlight
    BY <1>1, InFlightType DEF TaskMoves, Moving
  <1> QED
    BY <1>1, <1>3, <1>4, <1>7, <1>8, <1>9, <1>10 DEF ServerMoves, browser

(* The end of a turn is told. *)
LEMMA ClosingMoves ==
    ASSUME TypeOK, NEW p \in Prompts, NEW type \in Closing, NEW from \in Moving,
           TaskMoves(p, from, "settled"), Emit(<<Event(type, p)>>),
           UNCHANGED <<conn, browser, fetch, branch, rev, cache>>,
           type = "completed" => from = "ended"
    PROVE  ServerMoves
  <1> DEFINE e == Event(type, p)
  <1>1. e \in Events /\ e.type = type /\ e.of = p /\ e.rev = rev
    BY EventType DEF Closing
  <1>2. Sends(e)
    BY <1>1, EmitOne DEF TypeOK
  <1> HIDE DEF e
  <1>3. /\ task[p] = from /\ task'[p] = "settled"
        /\ \A q \in Prompts : q # p => task'[q] = task[q]
    BY DEF TaskMoves
  <1>4. InFlight' = InFlight \ {p}
    <2>1. "settled" \in Phases /\ "settled" \notin Moving
      BY DEF Phases, Moving
    <2> QED
      BY <2>1, TaskMoved
  <1>5. \A q \in InFlight : Keeps(q) \/ q = p
    <2>1. \A q \in InFlight : q \in Prompts
      BY InFlightType
    <2> QED
      BY <1>3, <1>4, <2>1 DEF Keeps
  <1>6. Tells(e)
    BY <1>1, <1>2, <1>3, <1>5 DEF Tells, Showing, Closing, Before
  <1>7. \A q \in Prompts : task[q] \notin Before => task'[q] \notin Before
    BY <1>3 DEF Before
  <1>8. \A q \in Prompts : task[q] \in {"posted", "refused", "unstarted"} =>
            task'[q] \in {"posted", "refused", "unstarted"}
    BY <1>3 DEF Moving
  <1>9. \A q \in Prompts : task'[q] = "ended" => q \in InFlight
    BY <1>3, InFlightType DEF Moving
  <1> QED
    BY <1>6, <1>7, <1>8, <1>9 DEF ServerMoves, browser

LEMMA CompleteMoves ==
    ASSUME TypeOK, NEW p \in Prompts, Complete(p)
    PROVE  TaskMoves(p, "ended", "settled") /\ ServerMoves
  <1>1. TaskMoves(p, "ended", "settled") /\ UNCHANGED <<conn, browser, fetch>>
    BY ServerStepMoves DEF Complete, Phases
  <1>2. "completed" \in Closing /\ "ended" \in Moving
    BY DEF Closing, Moving
  <1>3. Emit(<<Event("completed", p)>>) /\ UNCHANGED <<branch, rev, cache>>
    BY DEF Complete
  <1> QED
    BY <1>1, <1>2, <1>3, ClosingMoves

LEMMA FailMoves ==
    ASSUME TypeOK, NEW p \in Prompts, Fail(p)
    PROVE  /\ task[p] \in {"prompting", "ended"} /\ TaskMoves(p, task[p], "settled")
           /\ ServerMoves
  <1>1. /\ task[p] \in {"prompting", "ended"} /\ TaskMoves(p, task[p], "settled")
        /\ UNCHANGED <<conn, browser, fetch>>
    BY ServerStepMoves DEF Fail, Phases
  <1>2. "failed" \in Closing /\ task[p] \in Moving
    BY <1>1 DEF Closing, Moving
  <1>3. Emit(<<Event("failed", p)>>) /\ UNCHANGED <<branch, rev, cache>>
    BY DEF Fail
  <1> QED
    BY <1>1, <1>2, <1>3, ClosingMoves

-------------------------------------------------------------------------------
(* A step of the server keeps what holds of histories, stream and browser. *)

(* The stream has one event more. *)
Longer(e, n) ==
    /\ DOMAIN stream' = DOMAIN stream \union {n}
    /\ \A k \in DOMAIN stream : k < n /\ k \in Nat /\ stream'[k] = stream[k]
    /\ stream'[n] = e /\ n \notin DOMAIN stream

LEMMA TellsStream ==
    ASSUME TypeOK, NEW e, Tells(e)
    PROVE  \/ conn = "on" /\ missed' = missed /\ \E n \in Nat : Longer(e, n)
           \/ conn = "off" /\ missed' = "yes" /\ stream' = stream
  <1>1. stream \in Seq(Events) /\ e \in Events
    BY DEF TypeOK, Tells
  <1>2. CASE stream' = Append(stream, e)
    <2>1. Longer(e, Len(stream) + 1) /\ Len(stream) + 1 \in Nat
      BY <1>1, <1>2 DEF Longer
    <2> QED
      BY <1>2, <2>1 DEF Tells, Sends
  <1>3. CASE stream' = stream /\ conn = "off"
    BY <1>3 DEF Tells, Sends
  <1> QED
    BY <1>2, <1>3 DEF Tells, Sends

LEMMA PartTransitive ==
    ASSUME NEW M, NEW a \in Seq(M), NEW b \in Seq(M), NEW x \in M, IsPartOf(a, b)
    PROVE  IsPartOf(a, Append(b, x))
  <1>1. /\ Len(a) <= Len(b) /\ Len(a) \in Nat /\ Len(b) \in Nat /\ DOMAIN a = 1..Len(a)
        /\ \A k \in DOMAIN a : a[k] = b[k]
    BY DEF IsPartOf
  <1>2. Len(Append(b, x)) = Len(b) + 1 /\ \A k \in 1..Len(b) : Append(b, x)[k] = b[k]
    OBVIOUS
  <1> QED
    BY <1>1, <1>2 DEF IsPartOf

LEMMA MovesBranch ==
    ASSUME TypeOK, ServerMoves, NEW a \in Seq(Messages), IsPartOf(a, branch)
    PROVE  IsPartOf(a, branch')
  <1>1. branch \in Seq(Messages)
    BY MessagesType DEF TypeOK
  <1>2. ASSUME NEW x \in Entries
        PROVE  IsPartOf(a, Append(branch, x))
    BY <1>1, <1>2, MessagesType, PartTransitive
  <1> QED
    BY <1>2 DEF ServerMoves

LEMMA MessagesOfEntries ==
    \A h \in Seq(Entries) : h \in Seq(Messages)
  <1> SUFFICES ASSUME NEW h \in Seq(Entries)
               PROVE  h \in Seq(Messages)
    OBVIOUS
  <1>1. DOMAIN h = 1..Len(h) /\ Len(h) \in Nat /\ \A k \in DOMAIN h : h[k] \in Messages
    BY MessagesType
  <1> QED
    BY <1>1

LEMMA MovesHistories ==
    ASSUME TypeOK, ServerMoves, ServerSound, ResponsesSound, BrowserSound
    PROVE  ResponsesSound' /\ BrowserSound'
  <1>1. Responses' = Responses /\ Shown(bucket)' = Shown(bucket) /\ known' = known
    BY DEF ServerMoves, Responses, Shown, OfKind, Filtered, Place, UpTo
  <1>2. (rev' = rev /\ cache' = cache) \/ (rev' = rev + 1 /\ cache' = None)
    BY DEF ServerMoves
  <1>3. rev \in Nat /\ known \in Int /\ bucket \in Seq(Messages)
    BY DEF TypeOK
  <1>4. ASSUME NEW r \in Responses
        PROVE  IsPartOf(r.messages, branch)' /\ r.rev \in Nat
    <2>1. r \in Histories
      BY FetchType
    <2>2. r.messages \in Seq(Messages) /\ r.rev \in Nat
      BY <2>1, HistoryType, MessagesOfEntries
    <2> QED
      BY <2>2, MovesBranch DEF ResponsesSound
  <1>5. ResponsesSound'
    BY <1>1, <1>2, <1>3, <1>4 DEF ResponsesSound
  <1>6. IsPartOf(Shown(bucket), branch)'
    BY <1>1, <1>3, ShownType, MovesBranch DEF BrowserSound
  <1>7. BrowserSound'
    BY <1>1, <1>2, <1>3, <1>6 DEF BrowserSound
  <1> QED
    BY <1>5, <1>7

LEMMA MovesTasks ==
    ASSUME TypeOK, ServerMoves, task' \in [Prompts -> Phases]
    PROVE  /\ rev \in Nat /\ rev' \in Nat /\ rev' >= rev
           /\ \A q \in Prompts : task[q] \notin Before => task'[q] \notin Before
           /\ UNCHANGED <<conn, bucket, known, overtaken, fetch>>
           /\ Silent \/ \E e : Tells(e)
           /\ \A q \in InFlight : q \in Prompts
  <1>1. rev \in Nat
    BY DEF TypeOK
  <1>2. rev' = rev \/ rev' = rev + 1
    BY DEF ServerMoves
  <1> QED
    BY <1>1, <1>2, InFlightType DEF ServerMoves

(* An event that is still there is as sound as before. *)
LEMMA MovesKeepEvent ==
    ASSUME TypeOK, ServerMoves, task' \in [Prompts -> Phases],
           NEW k \in DOMAIN stream, EventSound(k),
           k \in DOMAIN stream', stream'[k] = stream[k],
           \A l \in DOMAIN stream : l \in DOMAIN stream' /\ stream'[l] = stream[l],
           \A q \in InFlight :
              \/ Keeps(q)
              \/ \E l \in DOMAIN stream' : /\ l > k /\ stream'[l].of = q
                                           /\ stream'[l].type \in Closing,
           \A l \in DOMAIN stream' \ DOMAIN stream :
              /\ stream'[l].type = "completed" =>
                    task[stream'[l].of] = "ended" /\ stream'[l].rev = rev
              /\ stream'[l].type = "started" => task[stream'[l].of] \in Before,
           \A q \in InFlight : task'[q] = "ended" => Keeps(q)
    PROVE  EventSound(k)'
  <1> DEFINE q == stream[k].of
  <1>0. /\ rev \in Nat /\ rev' \in Nat /\ rev' >= rev /\ bucket' = bucket
        /\ \A p \in Prompts : task[p] \notin Before => task'[p] \notin Before
    BY MovesTasks
  <1>1. /\ q \in Prompts /\ stream[k].rev \in Nat
        /\ stream[k].rev <= rev /\ task[q] \notin Before
    BY EventType DEF EventSound
  <1>2. stream'[k].rev <= rev' /\ task'[stream'[k].of] \notin Before
    BY <1>0, <1>1
  <1>3. ASSUME stream'[k].type \in Showing
        PROVE  Followed(k)'
    <2>1. Followed(k)
      BY <1>3 DEF EventSound
    <2>2. \/ q \in InFlight'
          \/ \E l \in DOMAIN stream' :
               l > k /\ stream'[l].of = q /\ stream'[l].type \in Closing
      BY <2>1 DEF Followed, Keeps
    <2>3. task'[q] = "ended" => stream[k].rev < rev'
      <3>1. task'[q] = "ended" => q \in InFlight
        BY <1>1 DEF ServerMoves
      <3>2. task'[q] = "ended" => task[q] = "ended" \/ rev' > rev
        BY <3>1 DEF Keeps
      <3> QED
        BY <1>0, <1>1, <2>1, <3>2 DEF Followed
    <2>4. ASSUME NEW l \in DOMAIN stream', l > k, stream'[l].of = q,
                 stream'[l].type = "completed"
          PROVE  stream[k].rev < stream'[l].rev
      BY <2>1, <2>4 DEF Followed
    <2> QED
      BY <2>2, <2>3, <2>4 DEF Followed
  <1>4. ASSUME stream'[k].type = "started"
        PROVE  StartedOnce(k)'
    <2>1. StartedOnce(k)
      BY <1>4 DEF EventSound
    <2> QED
      BY <1>0, <1>1, <2>1 DEF StartedOnce
  <1> QED
    BY <1>2, <1>3, <1>4 DEF EventSound

LEMMA MovesStream ==
    ASSUME TypeOK, ServerMoves, task' \in [Prompts -> Phases], StreamSound
    PROVE  StreamSound'
  <1>1. /\ rev \in Nat /\ rev' \in Nat /\ rev' >= rev /\ bucket' = bucket /\ conn' = conn
        /\ \A p \in Prompts : task[p] \notin Before => task'[p] \notin Before
        /\ Silent \/ \E e : Tells(e)
    BY MovesTasks
  <1>2. \A k \in OfKind(bucket, {"canonical"})' : task'[bucket'[k].of] \notin Before
    <2>1. bucket \in Seq(Messages)
      BY DEF TypeOK
    <2>2. \A k \in DOMAIN bucket : bucket[k].of \in Prompts
      BY <2>1, MessagesType
    <2> QED
      BY <1>1, <2>2 DEF StreamSound, OfKind
  <1>3. CASE stream' = stream /\ Silent
    <2>1. \A q \in InFlight : Keeps(q)
      BY <1>3 DEF Silent
    <2>2. ASSUME NEW k \in DOMAIN stream'
          PROVE  EventSound(k)'
      <3>1. k \in DOMAIN stream /\ EventSound(k) /\ DOMAIN stream' \ DOMAIN stream = {}
        BY <1>3 DEF StreamSound
      <3> QED
        BY <1>3, <2>1, <3>1, MovesKeepEvent
    <2> QED
      BY <1>1, <1>2, <1>3, <2>2 DEF StreamSound
  <1>4. CASE stream' = stream /\ conn = "off"
    <2>1. stream' = <<>>
      BY <1>4 DEF StreamSound
    <2> QED
      BY <1>1, <1>2, <2>1 DEF StreamSound
  <1>5. ASSUME NEW e, Tells(e), conn = "on", NEW n \in Nat, Longer(e, n)
        PROVE  StreamSound'
    <2> USE DEF Longer
    <2>1. e \in Events /\ e.of \in Prompts /\ (e.type \in Showing \/ e.type \in Closing)
          /\ e.rev \in Nat /\ e.rev \in {rev, rev'} /\ task'[e.of] \notin Before
      BY <1>5 DEF Tells, Events, Showing, Closing
    <2>2. \A k \in DOMAIN stream : stream[k].of \in Prompts /\ task[stream[k].of] \notin Before
      BY EventType DEF StreamSound, EventSound
    <2>3. ASSUME NEW k \in DOMAIN stream
          PROVE  EventSound(k)'
      <3>1. \A q \in InFlight : Keeps(q) \/ (q = e.of /\ e.type \in Closing)
        BY <1>5, <2>1 DEF Tells
      <3>2. \A q \in InFlight : task'[q] = "ended" => Keeps(q)
        BY <1>5, <3>1 DEF Tells
      <3>3. \A q \in InFlight : \/ Keeps(q)
                                \/ \E l \in DOMAIN stream' : /\ l > k /\ stream'[l].of = q
                                                             /\ stream'[l].type \in Closing
        BY <1>5, <3>1
      <3>4. \A l \in DOMAIN stream' \ DOMAIN stream :
              /\ stream'[l].type = "completed" =>
                    task[stream'[l].of] = "ended" /\ stream'[l].rev = rev
              /\ stream'[l].type = "started" => task[stream'[l].of] \in Before
        <4>1. \A l \in DOMAIN stream' \ DOMAIN stream : stream'[l] = e
          BY <1>5
        <4>2. /\ e.type = "completed" => task[e.of] = "ended" /\ e.rev = rev
              /\ e.type = "started" => task[e.of] \in Before
          BY <1>5 DEF Tells, Closing, Before
        <4> QED
          BY <4>1, <4>2
      <3>5. EventSound(k) /\ k \in DOMAIN stream'
        BY <1>5 DEF StreamSound
      <3> QED
        BY <1>5, <3>2, <3>3, <3>4, <3>5, MovesKeepEvent
    <2>4. EventSound(n)'
      <3>1. stream'[n].rev <= rev' /\ task'[stream'[n].of] \notin Before
        BY <1>1, <1>5, <2>1
      <3>2. ASSUME e.type \in Showing
            PROVE  Followed(n)'
        <4>1. e.of \in InFlight' /\ (task'[e.of] = "ended" => e.rev < rev')
          BY <1>5, <3>2 DEF Tells
        <4>2. \A l \in DOMAIN stream' : ~(l > n)
          BY <1>5
        <4> QED
          BY <1>5, <4>1, <4>2 DEF Followed
      <3>3. ASSUME e.type = "started"
            PROVE  StartedOnce(n)'
        <4>1. task[e.of] \in Before
          BY <1>5, <3>3 DEF Tells, Before
        <4>2. \A l \in DOMAIN bucket : bucket[l] # Message("canonical", e.of)
          BY <2>1, <4>1, MessagesType DEF StreamSound, OfKind
        <4>3. \A l \in DOMAIN stream : stream[l].of # e.of
          BY <2>2, <4>1
        <4> QED
          BY <1>1, <1>5, <4>2, <4>3 DEF StartedOnce
      <3> QED
        BY <1>5, <3>1, <3>2, <3>3 DEF EventSound
    <2>5. \A k \in DOMAIN stream' : EventSound(k)'
      BY <1>5, <2>3, <2>4
    <2> QED
      BY <1>1, <1>2, <1>5, <2>5 DEF StreamSound
  <1>6. ASSUME NEW e, Tells(e)
        PROVE  StreamSound'
    <2>1. CASE conn = "off" /\ stream' = stream
      BY <1>4, <2>1
    <2>2. CASE ~(conn = "off" /\ stream' = stream)
      BY <1>5, <1>6, <2>2, TellsStream
    <2> QED
      BY <2>1, <2>2
  <1>7. Silent => stream' = stream
    BY DEF Silent, Quiet
  <1> QED
    BY <1>1, <1>3, <1>6, <1>7

LEMMA MovesReplaced ==
    ASSUME TypeOK, ServerMoves, task' \in [Prompts -> Phases], StreamSound,
           NEW h \in Int, h <= known, known <= rev, NEW p \in Prompts, Replaced(p, h),
           \/ stream' = stream /\ Silent
           \/ \E e, n : Tells(e) /\ Longer(e, n)
    PROVE  Replaced(p, h)'
  <1>1. /\ rev \in Nat /\ rev' \in Nat /\ rev' >= rev /\ UNCHANGED <<known, fetch>>
        /\ known \in Int
    BY MovesTasks DEF TypeOK
  <1>2. Coming(known) => Coming(known)'
    BY <1>1 DEF Coming
  <1>3. \A l \in DOMAIN stream : l \in DOMAIN stream' /\ stream'[l] = stream[l]
    BY DEF Longer
  <1>4. ASSUME p \in InFlight, task[p] = "ended" => rev > h, Keeps(p)
        PROVE  p \in InFlight' /\ (task'[p] = "ended" => rev' > h)
    BY <1>1, <1>4 DEF Keeps
  <1>5. ASSUME p \in InFlight, task[p] = "ended" => rev > h, ~Keeps(p)
        PROVE  Replaced(p, h)'
    <2>1. PICK e, n : Tells(e) /\ Longer(e, n)
      BY <1>5 DEF Silent
    <2>2. e.of = p /\ e.type \in Closing /\ e.rev = rev
          /\ (e.type = "completed" => task[p] = "ended")
      BY <1>5, <2>1 DEF Tells, Events, Showing, Closing
    <2>3. n \in DOMAIN stream' /\ stream'[n] = e
      BY <2>1 DEF Longer
    <2> QED
      BY <1>5, <2>2, <2>3 DEF Replaced, Closing
  <1> QED
    BY <1>2, <1>3, <1>4, <1>5 DEF Replaced

LEMMA MovesInStep ==
    ASSUME TypeOK, ServerMoves, task' \in [Prompts -> Phases],
           StreamSound, BrowserSound, InStep
    PROVE  InStep'
  <1>1. /\ rev \in Nat /\ rev' \in Nat /\ rev' >= rev
        /\ UNCHANGED <<conn, bucket, known, overtaken, fetch>>
        /\ Silent \/ \E e : Tells(e)
        /\ known \in Nat \union {-1} /\ known <= rev
    BY MovesTasks DEF TypeOK, BrowserSound
  <1>2. SUFFICES ASSUME missed' # "yes"
                 PROVE  \E h \in {-1} \union 0..known : InStepSince(h)'
    BY <1>1 DEF InStep
  <1>3. \/ Silent /\ stream' = stream /\ missed' = missed
        \/ \E e, n : Tells(e) /\ Longer(e, n) /\ missed' = missed
    BY <1>1, <1>2, TellsStream DEF Silent, Quiet
  <1>4. PICK h \in {-1} \union 0..known : InStepSince(h)
    BY <1>2, <1>3 DEF InStep
  <1>5. h \in Int /\ h <= known
    BY <1>1
  <1>6. known' > h => Coming(known)'
    BY <1>1, <1>4 DEF InStepSince, Coming
  <1>7. h = rev' => cache' # None /\ Shown(bucket)' = cache'.messages
    <2>1. h = rev' => rev' = rev /\ cache' = cache
      BY <1>1, <1>5 DEF ServerMoves
    <2>2. Shown(bucket)' = Shown(bucket)
      BY <1>1 DEF Shown, OfKind, Filtered, Place, UpTo
    <2> QED
      BY <1>4, <2>1, <2>2 DEF InStepSince
  <1>8. ASSUME InFlight' = {}
        PROVE  Learns(h)'
    <2>1. CASE Silent
      <3>1. InFlight = {} /\ rev' = rev /\ stream' = stream
        BY <1>8, <2>1 DEF Silent, Quiet
      <3>2. Learns(h)
        BY <1>4, <3>1 DEF InStepSince
      <3> QED
        BY <1>1, <3>1, <3>2 DEF Learns, Coming
    <2>2. ASSUME NEW e, NEW n, Tells(e), Longer(e, n)
          PROVE  Learns(h)'
      <3>1. e.type \in Closing /\ e.rev = rev'
        BY <1>8, <2>2 DEF Tells
      <3> QED
        BY <2>2, <3>1 DEF Learns, Longer
    <2> QED
      BY <1>3, <2>1, <2>2
  <1>9. ASSUME ~overtaken', NEW k \in DOMAIN stream', stream'[k].type \in Showing
        PROVE  stream'[k].rev >= h
    <2>1. CASE k \in DOMAIN stream /\ stream'[k] = stream[k]
      BY <1>1, <1>4, <1>9, <2>1 DEF InStepSince
    <2>2. ASSUME NEW e, Tells(e), stream'[k] = e
          PROVE  stream'[k].rev >= h
      BY <1>1, <1>5, <2>2 DEF Tells
    <2> QED
      BY <1>3, <2>1, <2>2 DEF Longer
  <1>10. ASSUME ~overtaken', NEW k \in OfKind(bucket, {"canonical", "live"})'
         PROVE  Replaced(bucket[k].of, h)'
    <2>1. k \in OfKind(bucket, {"canonical", "live"}) /\ bucket'[k] = bucket[k]
      BY <1>1, <1>10 DEF OfKind
    <2>2. bucket[k].of \in Prompts
      BY <2>1, MessagesType DEF OfKind, TypeOK
    <2>3. Replaced(bucket[k].of, h)
      BY <1>1, <1>4, <1>10, <2>1 DEF InStepSince
    <2>4. PICK p \in Prompts : p = bucket[k].of
      BY <2>2
    <2>5. Replaced(p, h)'
      BY <1>1, <1>3, <1>5, <2>3, <2>4, MovesReplaced
    <2> QED
      BY <2>1, <2>4, <2>5 DEF Replaced
  <1>11. InStepSince(h)'
    BY <1>6, <1>7, <1>8, <1>9, <1>10 DEF InStepSince
  <1> QED
    BY <1>11

LEMMA UnconfirmingType ==
    /\ \A p : Unconfirming(p) \in SUBSET Prompts /\ IsFiniteSet(Unconfirming(p))
              /\ Cardinality(Unconfirming(p)) \in Nat
    /\ \A p : (Unconfirming(p))' \in SUBSET Prompts /\ IsFiniteSet((Unconfirming(p))')
              /\ Cardinality((Unconfirming(p))') \in Nat
  <1>1. Own \in SUBSET Prompts /\ IsFiniteSet(Prompts)
    BY TranscriptsAssumption
  <1>2. \A S : S \subseteq Own => S \in SUBSET Prompts /\ IsFiniteSet(S) /\ Cardinality(S) \in Nat
    BY <1>1, FS_Subset, FS_CardinalityType
  <1>3. \A p : Unconfirming(p) \subseteq Own /\ (Unconfirming(p))' \subseteq Own
    BY DEF Unconfirming
  <1> QED
    BY <1>2, <1>3

(* More prompts not confirmed, no more local messages *)
LEMMA CountedStill ==
    ASSUME bucket \in Seq(Messages), bucket' \in Seq(Messages), NEW p,
           Cardinality(LocalsLike(bucket, p)) <= Cardinality(Unconfirming(p)),
           Unconfirming(p) \subseteq (Unconfirming(p))',
           Cardinality(LocalsLike(bucket', p)) <= Cardinality(LocalsLike(bucket, p))
    PROVE  Cardinality(LocalsLike(bucket', p)) <= Cardinality((Unconfirming(p))')
  <1>1. Cardinality(Unconfirming(p)) <= Cardinality((Unconfirming(p))')
    BY UnconfirmingType, FS_Subset
  <1>2. /\ Cardinality(LocalsLike(bucket, p)) \in Nat
        /\ Cardinality(LocalsLike(bucket', p)) \in Nat
        /\ Cardinality(Unconfirming(p)) \in Nat /\ Cardinality((Unconfirming(p))') \in Nat
    BY LocalsType, UnconfirmingType
  <1> QED
    BY <1>1, <1>2

LEMMA MovesLocals ==
    ASSUME TypeOK, TypeOK', ServerMoves, LocalsCounted
    PROVE  LocalsCounted'
  <1>1. bucket' = bucket /\ bucket \in Seq(Messages) /\ task' \in [Prompts -> Phases]
    BY DEF ServerMoves, TypeOK
  <1>2. SUFFICES ASSUME missed' = "no", NEW p \in Prompts
                 PROVE  Cardinality(LocalsLike(bucket', p)) <= Cardinality((Unconfirming(p))')
    BY DEF LocalsCounted, LocalsLike, OfKind
  <1>3. \/ stream' = stream /\ missed' = missed
        \/ \E e, n : Tells(e) /\ Longer(e, n) /\ missed' = missed
    BY <1>1, <1>2, MovesTasks, TellsStream DEF Silent, Quiet
  <1>4. \A l \in DOMAIN stream : l \in DOMAIN stream' /\ stream'[l] = stream[l]
    BY <1>3 DEF Longer
  <1>5. ASSUME NEW e, Tells(e)
        PROVE  \E k \in DOMAIN stream' : stream'[k] = e
    BY <1>2, <1>5, TellsStream DEF Longer
  <1>6. Unconfirming(p) \subseteq (Unconfirming(p))'
    <2> SUFFICES ASSUME NEW q \in Unconfirming(p)
                 PROVE  q \in (Unconfirming(p))'
      OBVIOUS
    <2>1. q \in Own /\ q \in Prompts /\ SameText(q, p)
      BY UnconfirmingType DEF Unconfirming
    <2>2. CASE task[q] \in {"posted", "refused", "unstarted"}
      BY <1>5, <2>1, <2>2 DEF ServerMoves, Unconfirming, SameText
    <2>3. CASE \E k \in DOMAIN stream : stream[k].type = "started" /\ stream[k].of = q
      BY <1>4, <2>1, <2>3 DEF Unconfirming, SameText
    <2> QED
      BY <2>2, <2>3 DEF Unconfirming
  <1>7. Cardinality(LocalsLike(bucket, p)) <= Cardinality(Unconfirming(p))
    BY <1>2, <1>3 DEF LocalsCounted
  <1>8. Cardinality(LocalsLike(bucket', p)) <= Cardinality(LocalsLike(bucket, p))
    BY <1>1, LocalsType
  <1> QED
    BY <1>1, <1>6, <1>7, <1>8, CountedStill

-------------------------------------------------------------------------------
(* The cache and the branch *)

LEMMA LoopType ==
    ASSUME TypeOK, NEW p \in Prompts
    PROVE  /\ p \in Looping <=> task[p] \in {"asked", "answered"}
           /\ rev \in Nat /\ branch \in Seq(Entries) /\ live \in Prompts \union {None}
           /\ cache # None => cache \in Histories /\ cache.messages \in Seq(Messages)
  BY HistoryType, MessagesOfEntries DEF Looping, TypeOK

(* A step without a part in the loop *)
LEMMA ServerStillSound ==
    ASSUME TypeOK, ServerSound, UNCHANGED <<branch, rev, cache, live>>,
           NEW p \in Prompts, NEW from, NEW to \in Phases, TaskMoves(p, from, to),
           from \notin {"asked", "answered"}, to \notin {"asked", "answered"},
           to \notin Moving
    PROVE  ServerSound'
  <1>1. Looping' = Looping /\ InFlight' \subseteq InFlight
    <2>1. p \notin Looping
      BY LoopType DEF TaskMoves
    <2> QED
      BY <2>1, TaskMoved
  <1> QED
    BY <1>1 DEF ServerSound

LEMMA InvalidatedSound ==
    ASSUME TypeOK, ServerSound, rev' = rev + 1, cache' = None, branch' = branch,
           Looping' \subseteq Looping, live' # None => live' \in Looping'
    PROVE  ServerSound'
  BY DEF ServerSound, TypeOK

LEMMA GrownSound ==
    ASSUME TypeOK, ServerSound, UNCHANGED <<rev, cache, live>>, NEW x \in Entries,
           branch' = Append(branch, x), NEW p \in InFlight, Looping' = {p},
           live # None => live = p
    PROVE  ServerSound'
  <1>1. rev > 0
    BY DEF ServerSound
  <1>2. branch \in Seq(Messages) /\ x \in Messages
    BY MessagesOfEntries, MessagesType DEF TypeOK
  <1>3. cache # None => IsPartOf(cache.messages, branch')
    <2>1. p \in Prompts
      BY InFlightType
    <2>2. cache # None => cache.messages \in Seq(Messages)
      BY <2>1, LoopType
    <2> QED
      BY <1>2, <2>2, PartTransitive DEF ServerSound
  <1> QED
    BY <1>1, <1>3 DEF ServerSound

LEMMA HandleSound ==
    ASSUME TypeOK, ServerSound, NEW p \in Prompts, Handle(p) \/ SubmitElsewhere(p)
    PROVE  ServerSound'
  <1>1. CASE Start(p)
    <2>1. TaskMoves(p, "posted", "prompting")
      BY <1>1, StartMoves
    <2>2. Looping' = Looping
      <3>1. p \notin Looping
        BY <2>1, LoopType DEF TaskMoves
      <3> QED
        BY <2>1, <3>1, TaskMoved DEF Phases
    <2> QED
      BY <1>1, <2>2, InvalidatedSound DEF Start, Invalidate, ServerSound
  <1>2. CASE InitFails(p)
    BY <1>2, InitFailsMoves, ServerStillSound DEF InitFails, Phases, Moving
  <1>3. CASE Refuse(p)
    BY <1>3, RefuseMoves, ServerStillSound DEF Refuse, Phases, Moving
  <1>4. CASE SubmitElsewhere(p)
    BY <1>4, SubmitElsewhereMoves, ServerStillSound DEF SubmitElsewhere, Phases, Moving
  <1> QED
    BY <1>1, <1>2, <1>3, <1>4 DEF Handle

LEMMA RunSound ==
    ASSUME TypeOK, ServerSound, NEW p \in Prompts, Run(p) \/ Delta(p)
    PROVE  ServerSound'
  <1>1. CASE Ask(p)
    <2>1. TaskMoves(p, "prompting", "asked")
      BY <1>1, AskMoves
    <2>2. p \in InFlight /\ Looping' = Looping \union {p}
      BY <2>1, TaskMoved DEF Phases, Moving
    <2>3. Looping = {}
      BY <1>1 DEF Ask, LoopFree, Looping
    <2>4. Message("user", p) \in Entries
      BY MessagesType DEF EntryKinds
    <2> QED
      BY <1>1, <2>2, <2>3, <2>4, GrownSound DEF Ask, ServerSound
  <1>2. CASE Answer(p)
    <2>1. TaskMoves(p, "asked", "answered")
      BY <1>2, AnswerMoves
    <2>2. p \in InFlight /\ Looping' = Looping \union {p} /\ p \in Looping
      BY <2>1, TaskMoved, LoopType DEF Phases, Moving, TaskMoves
    <2>3. Looping = {p}
      BY <2>2 DEF ServerSound
    <2>4. Message("assistant", p) \in Entries
      BY MessagesType DEF EntryKinds
    <2> QED
      BY <1>2, <2>2, <2>3, <2>4, GrownSound DEF Answer, ServerSound
  <1>3. CASE AgentEnd(p)
    <2>1. TaskMoves(p, task[p], "ended")
      BY <1>3, AgentEndMoves
    <2>2. Looping' = Looping \ {p}
      BY <2>1, TaskMoved DEF Phases
    <2> QED
      BY <1>3, <2>2, InvalidatedSound DEF AgentEnd, Invalidate
  <1>4. CASE Complete(p)
    BY <1>4, CompleteMoves, ServerStillSound DEF Complete, Phases, Moving
  <1>5. CASE Fail(p)
    <2>1. task[p] \in {"prompting", "ended"} /\ TaskMoves(p, task[p], "settled")
      BY <1>5, FailMoves
    <2> QED
      BY <1>5, <2>1, ServerStillSound DEF Fail, Phases, Moving
  <1>6. CASE Delta(p)
    <2>1. Looping' = Looping /\ p \in Looping
      BY <1>6 DEF Delta, Looping
    <2> QED
      BY <1>6, <2>1, InvalidatedSound DEF Delta, Invalidate
  <1> QED
    BY <1>1, <1>2, <1>3, <1>4, <1>5, <1>6 DEF Run

LEMMA ServerSteps ==
    ASSUME TypeOK, ServerSound, NEW p \in Prompts,
           Handle(p) \/ SubmitElsewhere(p) \/ Run(p) \/ Delta(p)
    PROVE  /\ ServerMoves /\ task' \in [Prompts -> Phases]
           /\ live' \in Prompts \union {None} /\ working' \in BOOLEAN
  <1>0. working \in BOOLEAN /\ live \in Prompts \union {None} /\ task \in [Prompts -> Phases]
    BY DEF TypeOK
  <1>1. CASE Start(p)
    BY <1>0, <1>1, StartMoves DEF Start, ServerStep, browser, TaskMoves
  <1>2. CASE InitFails(p)
    BY <1>0, <1>2, InitFailsMoves DEF InitFails, ServerStep, browser, TaskMoves
  <1>3. CASE Refuse(p)
    BY <1>0, <1>3, RefuseMoves DEF Refuse, TaskMoves
  <1>4. CASE SubmitElsewhere(p)
    BY <1>0, <1>4, SubmitElsewhereMoves DEF SubmitElsewhere, browser, TaskMoves
  <1>5. CASE Ask(p)
    BY <1>0, <1>5, AskMoves DEF Ask, ServerStep, browser, TaskMoves
  <1>6. CASE Answer(p)
    BY <1>0, <1>6, AnswerMoves DEF Answer, ServerStep, browser, TaskMoves
  <1>7. CASE AgentEnd(p)
    BY <1>0, <1>7, AgentEndMoves DEF AgentEnd, ServerStep, browser, TaskMoves
  <1>8. CASE Complete(p)
    BY <1>0, <1>8, CompleteMoves DEF Complete, ServerStep, browser, TaskMoves
  <1>9. CASE Fail(p)
    BY <1>0, <1>9, FailMoves DEF Fail, ServerStep, browser, TaskMoves
  <1>10. CASE Delta(p)
    BY <1>0, <1>10, DeltaMoves DEF Delta, browser
  <1> QED
    BY <1>1, <1>2, <1>3, <1>4, <1>5, <1>6, <1>7, <1>8, <1>9, <1>10 DEF Handle, Run

LEMMA ServerKeeps ==
    ASSUME TranscriptInv, NEW p \in Prompts,
           Handle(p) \/ SubmitElsewhere(p) \/ Run(p) \/ Delta(p)
    PROVE  TranscriptInv'
  <1> USE DEF TranscriptInv
  <1>1. /\ ServerMoves /\ task' \in [Prompts -> Phases]
        /\ live' \in Prompts \union {None} /\ working' \in BOOLEAN
    BY ServerSteps
  <1>2. TypeOK'
    BY <1>1, MovesType
  <1>3. ServerSound'
    BY HandleSound, RunSound
  <1>4. ResponsesSound' /\ BrowserSound'
    BY <1>1, MovesHistories
  <1>5. StreamSound' /\ InStep' /\ LocalsCounted'
    BY <1>1, <1>2, MovesStream, MovesInStep, MovesLocals
  <1> QED
    BY <1>2, <1>3, <1>4, <1>5

-------------------------------------------------------------------------------
(* Histories *)

LEMMA ComingType ==
    ASSUME TypeOK, NEW r \in Int
    PROVE  Coming(r) <=> \E i \in Fetches :
                \/ fetch[i] = Sent
                \/ fetch[i].phase = "read" /\ \E h \in Responses : h = fetch[i].response /\ h.rev >= r
  BY DEF Coming, Responses

LEMMA ReadFacts ==
    ASSUME TypeOK, ServerSound, NEW i \in Fetches, ReadHistory(i)
    PROVE  /\ History \in Histories /\ History.rev = rev /\ cache' = History
           /\ IsPartOf(History.messages, branch)
           /\ Looping = {} => History.messages = branch
           /\ fetch'[i].phase = "read" /\ fetch'[i].response = History
           /\ \A j \in Fetches : j # i => fetch'[j] = fetch[j]
           /\ fetch[i] = Sent /\ fetch' \in [Fetches -> Fetching]
           /\ Responses' \subseteq Responses \union {History}
           /\ cache # None => History = cache
  <1>1. /\ fetch[i] = Sent /\ cache' = History
        /\ fetch' = [fetch EXCEPT ![i] = [phase |-> "read", response |-> History]]
    BY DEF ReadHistory
  <1>2. /\ History \in Histories /\ History.rev = rev /\ IsPartOf(History.messages, branch)
        /\ Looping = {} => History.messages = branch
        /\ cache # None => History = cache
    <2>1. CASE cache # None
      BY <2>1 DEF History, ServerSound, TypeOK
    <2>2. CASE cache = None
      BY <2>2 DEF History, TypeOK, Histories, IsPartOf
    <2> QED
      BY <2>1, <2>2
  <1>3. fetch \in [Fetches -> Fetching]
    BY DEF TypeOK, Fetching
  <1> HIDE DEF History
  <1>4. /\ fetch'[i] = [phase |-> "read", response |-> History]
        /\ \A j \in Fetches : j # i => fetch'[j] = fetch[j]
        /\ fetch' \in [Fetches -> Fetching]
    <2>1. [phase |-> "read", response |-> History] \in Fetching
      BY <1>2 DEF Fetching
    <2> QED
      BY <1>1, <1>3, <2>1
  <1>5. Responses' \subseteq Responses \union {History}
    <2>1. ASSUME NEW j \in Fetches, fetch'[j].phase = "read"
          PROVE  fetch'[j].response \in Responses \union {History}
      BY <1>4, <2>1 DEF Responses
    <2> QED
      BY <2>1 DEF Responses
  <1> QED
    BY <1>1, <1>2, <1>4, <1>5

LEMMA ReadKeeps ==
    ASSUME TranscriptInv, NEW i \in Fetches, ReadHistory(i)
    PROVE  TranscriptInv'
  <1> USE DEF TranscriptInv
  <1>1. /\ History \in Histories /\ History.rev = rev /\ cache' = History
        /\ IsPartOf(History.messages, branch)
        /\ Looping = {} => History.messages = branch
        /\ fetch'[i].phase = "read" /\ fetch'[i].response = History
        /\ \A j \in Fetches : j # i => fetch'[j] = fetch[j]
        /\ fetch[i] = Sent /\ fetch' \in [Fetches -> Fetching]
        /\ Responses' \subseteq Responses \union {History}
        /\ cache # None => History = cache
    BY ReadFacts
  <1>2. UNCHANGED <<task, branch, rev, live, conn, stream, browser, missed>>
    BY DEF ReadHistory
  <1>3. /\ rev \in Nat /\ known \in Nat \union {-1} /\ known <= rev /\ bucket \in Seq(Messages)
        /\ Len(branch) \in Nat
    BY DEF TypeOK, BrowserSound
  <1>4. /\ Len(History.messages) \in Nat /\ History # None
        /\ \A r \in Responses : Len(r.messages) \in Nat /\ r.rev \in Nat
    BY <1>1, HistoryType, FetchType
  <1> HIDE DEF History
  <1>5. TypeOK'
    BY <1>1, <1>2 DEF TypeOK, Fetching, browser
  <1>6. ServerSound'
    BY <1>1, <1>2 DEF ServerSound, Looping, InFlight
  <1>7. \A r \in Responses : Len(r.messages) <= Len(History.messages)
    <2>1. CASE cache # None
      BY <1>1, <2>1 DEF ResponsesSound
    <2>2. CASE cache = None
      <3>1. History.messages = branch
        BY <2>2 DEF History
      <3> QED
        BY <3>1 DEF ResponsesSound, IsPartOf
    <2> QED
      BY <2>1, <2>2
  <1>8. \A r \in Responses : r.rev = rev => r = History
    BY <1>1, <1>4, FetchType, HistoryType DEF ResponsesSound
  <1>9. ResponsesSound'
    BY <1>1, <1>2, <1>3, <1>4, <1>7, <1>8 DEF ResponsesSound
  <1>10. Len(Shown(bucket)) <= Len(History.messages)
    <2>1. CASE cache # None
      BY <1>1, <2>1 DEF BrowserSound
    <2>2. CASE cache = None
      <3>1. History.messages = branch
        BY <2>2 DEF History
      <3> QED
        BY <3>1 DEF BrowserSound, IsPartOf
    <2> QED
      BY <2>1, <2>2
  <1>11. bucket' = bucket /\ known' = known /\ Shown(bucket)' = Shown(bucket)
    BY <1>2 DEF browser, Shown, OfKind, Filtered, Place, UpTo
  <1>12. BrowserSound'
    BY <1>1, <1>2, <1>10, <1>11 DEF BrowserSound
  <1>13. StreamSound'
    BY <1>2, <1>11 DEF StreamSound, EventSound, Followed, StartedOnce, InFlight, OfKind
  <1>14. ASSUME NEW r \in Int, r <= rev, Coming(r)
         PROVE  Coming(r)'
    BY <1>1, <1>3, <1>14 DEF Coming
  <1>15. InStep'
    <2> SUFFICES ASSUME NEW h \in {-1} \union 0..known, InStepSince(h)
                 PROVE  InStepSince(h)'
      BY <1>2, <1>11 DEF InStep
    <2>1. known' > h => Coming(known)'
      BY <1>3, <1>11, <1>14 DEF InStepSince
    <2>2. h = rev' => cache' # None /\ Shown(bucket)' = cache'.messages
      BY <1>1, <1>2, <1>4, <1>11 DEF InStepSince
    <2>3. InFlight' = {} => Learns(h)'
      BY <1>2, <1>3, <1>14 DEF InStepSince, Learns, InFlight
    <2>4. ASSUME NEW p, Replaced(p, h)
          PROVE  Replaced(p, h)'
      BY <1>2, <1>3, <1>11, <1>14, <2>4 DEF Replaced, InFlight
    <2>5. /\ OfKind(bucket, {"canonical", "live"})' = OfKind(bucket, {"canonical", "live"})
          /\ overtaken' = overtaken
      BY <1>2, <1>11 DEF OfKind, browser
    <2>6. ASSUME ~overtaken', NEW k \in OfKind(bucket, {"canonical", "live"})'
          PROVE  Replaced(bucket[k].of, h)'
      <3>1. Replaced(bucket[k].of, h)
        BY <2>5, <2>6 DEF InStepSince
      <3> QED
        BY <1>2, <1>3, <1>11, <1>14, <3>1 DEF Replaced, InFlight
    <2> QED
      BY <1>2, <2>1, <2>2, <2>3, <2>5, <2>6 DEF InStepSince
  <1>16. LocalsCounted'
    BY <1>2, <1>11 DEF LocalsCounted, LocalsLike, OfKind, Unconfirming
  <1> QED
    BY <1>5, <1>6, <1>9, <1>12, <1>13, <1>15, <1>16

(* A step that changes no more than the requests, or opens or ends the stream *)
LEMMA FetchKeeps ==
    ASSUME TranscriptInv, TypeOK', Responses' \subseteq Responses,
           UNCHANGED <<server, stream, bucket, known, overtaken, missed>>,
           conn' = "off" => conn = "off" \/ stream = <<>>,
           \A r \in Int : r >= known /\ Coming(r) => Coming(r)'
    PROVE  TranscriptInv'
  <1> USE DEF TranscriptInv
  <1>1. /\ UNCHANGED <<task, branch, rev, cache, live>>
        /\ rev \in Int /\ known \in Int /\ rev >= known
    BY DEF server, TypeOK, BrowserSound
  <1>2. ServerSound'
    BY <1>1 DEF ServerSound, Looping, InFlight
  <1>3. ResponsesSound'
    BY <1>1 DEF ResponsesSound
  <1>4. Shown(bucket)' = Shown(bucket)
    BY DEF Shown, OfKind, Filtered, Place, UpTo
  <1>5. BrowserSound'
    BY <1>1, <1>4 DEF BrowserSound
  <1>6. StreamSound'
    BY <1>1 DEF StreamSound, EventSound, Followed, StartedOnce, InFlight, OfKind
  <1>7. InStep'
    <2> SUFFICES ASSUME NEW h \in {-1} \union 0..known, InStepSince(h)
                 PROVE  InStepSince(h)'
      BY DEF InStep
    <2>1. (known' > h => Coming(known)') /\ (Coming(rev) => Coming(rev)')
          /\ (Coming(known) => Coming(known)')
      BY <1>1 DEF InStepSince
    <2>2. h = rev' => cache' # None /\ Shown(bucket)' = cache'.messages
      BY <1>1, <1>4 DEF InStepSince
    <2>3. InFlight' = {} => Learns(h)'
      BY <1>1, <2>1 DEF InStepSince, Learns, InFlight
    <2>4. ASSUME ~overtaken', NEW k \in OfKind(bucket, {"canonical", "live"})'
          PROVE  Replaced(bucket[k].of, h)'
      <3>1. k \in OfKind(bucket, {"canonical", "live"})
        BY <2>4 DEF OfKind
      <3>2. Replaced(bucket[k].of, h)
        BY <2>4, <3>1 DEF InStepSince
      <3> QED
        BY <1>1, <2>1, <3>2 DEF Replaced, InFlight
    <2>5. ~overtaken' => \A k \in DOMAIN stream' :
                            stream'[k].type \in Showing => stream'[k].rev >= h
      BY DEF InStepSince
    <2> QED
      BY <2>1, <2>2, <2>3, <2>4, <2>5 DEF InStepSince
  <1>8. LocalsCounted'
    BY <1>1 DEF LocalsCounted, LocalsLike, OfKind, Unconfirming
  <1> QED
    BY <1>2, <1>3, <1>5, <1>6, <1>7, <1>8

LEMMA ArriveFacts ==
    ASSUME TypeOK, NEW i \in Fetches, Arrive(i)
    PROVE  /\ fetch[i].phase = "read" /\ fetch'[i] = Idle
           /\ \A j \in Fetches : j # i => fetch'[j] = fetch[j]
           /\ fetch' \in [Fetches -> Fetching]
           /\ Responses' \subseteq Responses
           /\ fetch[i].response \in Responses /\ fetch[i].response \in Histories
           /\ UNCHANGED <<server, conn, stream, working>>
  <1>1. fetch \in [Fetches -> Fetching] /\ Idle \in Fetching
    BY DEF TypeOK, Fetching
  <1>2. fetch[i].phase = "read" /\ fetch' = [fetch EXCEPT ![i] = Idle]
        /\ UNCHANGED <<server, conn, stream, working>>
    BY DEF Arrive, BrowserUnchanged
  <1>3. fetch'[i] = Idle /\ (\A j \in Fetches : j # i => fetch'[j] = fetch[j])
        /\ fetch' \in [Fetches -> Fetching]
    BY <1>1, <1>2
  <1>4. Responses' \subseteq Responses
    <2>1. ASSUME NEW j \in Fetches, fetch'[j].phase = "read"
          PROVE  fetch'[j].response \in Responses
      <3>1. j # i
        BY <1>3, <2>1, FetchType
      <3> QED
        BY <1>3, <2>1, <3>1 DEF Responses
    <2> QED
      BY <2>1 DEF Responses
  <1>5. fetch[i].response \in Responses /\ fetch[i].response \in Histories
    BY <1>2, FetchType DEF Responses
  <1> QED
    BY <1>2, <1>3, <1>4, <1>5

(* A history that is taken has become the one the browser is in step with. *)
LEMMA TakeKeeps ==
    ASSUME TranscriptInv, NEW i \in Fetches, Arrive(i), Current(fetch[i].response)
    PROVE  TranscriptInv'
  <1> USE DEF TranscriptInv
  <1>1. PICK r \in Responses : r = fetch[i].response
    BY ArriveFacts
  <1>2. /\ fetch[i].phase = "read" /\ fetch'[i] = Idle /\ Idle.phase # "read"
        /\ \A j \in Fetches : j # i => fetch'[j] = fetch[j]
        /\ fetch' \in [Fetches -> Fetching] /\ Responses' \subseteq Responses
        /\ r \in Histories
    BY <1>1, ArriveFacts, FetchType
  <1>3. /\ UNCHANGED <<task, branch, rev, cache, live, conn, stream, working>>
        /\ r.rev >= known /\ known' = r.rev /\ bucket' = Merge(bucket, r.messages)
        /\ overtaken' = \E k \in DOMAIN stream :
                stream[k].type \in {"started", "live"} /\ stream[k].rev < r.rev
        /\ missed' = IF missed = "yes" /\ InFlight = {} /\ r.rev = rev
                     THEN "madeUp" ELSE missed
    BY <1>1 DEF Arrive, Current, BrowserUnchanged, server
  <1>4. /\ r.rev \in Nat /\ r.messages \in Seq(Entries) /\ Len(r.messages) \in Nat /\ r # None
        /\ known \in Nat \union {-1} /\ rev \in Nat /\ r.rev <= rev
    BY <1>2, HistoryType DEF TypeOK, ResponsesSound
  <1>5. /\ bucket' \in Seq(Messages) /\ Shown(bucket') = r.messages
        /\ \A k \in DOMAIN bucket' : bucket'[k].kind \in {"local"} \union EntryKinds
        /\ \A q : Cardinality(LocalsLike(bucket', q)) <= Cardinality(LocalsLike(bucket, q))
    BY <1>3, <1>4, MergeTranscript DEF TypeOK
  <1>6. /\ OfKind(bucket', {"canonical", "live"}) = {} /\ OfKind(bucket', {"canonical"}) = {}
        /\ \A q : \A k \in DOMAIN bucket' : bucket'[k] # Message("canonical", q)
    BY <1>5 DEF OfKind, EntryKinds, Message
  <1>7. Shown(bucket)' = r.messages
    BY <1>5 DEF Shown, OfKind, Filtered, Place, UpTo
  <1>8. TypeOK'
    BY <1>2, <1>3, <1>4, <1>5 DEF TypeOK, Fetching
  <1>9. ServerSound'
    BY <1>3 DEF ServerSound, Looping, InFlight
  <1>10. ResponsesSound'
    BY <1>2, <1>3 DEF ResponsesSound
  <1>11. BrowserSound'
    BY <1>2, <1>3, <1>4, <1>7 DEF BrowserSound, ResponsesSound
  <1>12. StreamSound'
    BY <1>3, <1>6 DEF StreamSound, EventSound, Followed, StartedOnce, InFlight, OfKind
  <1>13. InStep'
    <2> SUFFICES ASSUME missed' # "yes"
                 PROVE  InStepSince(r.rev)'
      BY <1>3, <1>4 DEF InStep
    <2>1. ~(known' > r.rev)
      BY <1>3, <1>4
    <2>2. r.rev = rev' => cache' # None /\ Shown(bucket)' = cache'.messages
      BY <1>3, <1>4, <1>7 DEF ResponsesSound
    <2>3. ASSUME InFlight' = {}
          PROVE  rev' \in {0, r.rev} \/ Coming(rev)'
                 \/ \E k \in DOMAIN stream' : stream'[k].type \in Closing /\ stream'[k].rev = rev'
      <3>0. InFlight = {}
        BY <1>3, <2>3 DEF InFlight
      <3>1. CASE r.rev = rev
        BY <1>3, <3>1
      <3>2. CASE r.rev # rev
        <4>1. missed # "yes"
          BY <1>3, <3>2
        <4>2. PICK h \in {-1} \union 0..known : InStepSince(h)
          BY <4>1 DEF InStep
        <4>3. h # rev
          BY <1>3, <1>4, <3>2, <4>2
        <4>4. Learns(h)
          BY <3>0, <4>2 DEF InStepSince
        <4>5. ASSUME Coming(rev)
              PROVE  Coming(rev)'
          <5>1. PICK j \in Fetches :
                    fetch[j] = Sent \/ (fetch[j].phase = "read" /\ fetch[j].response.rev >= rev)
            BY <4>5 DEF Coming
          <5>2. j # i
            BY <1>1, <1>2, <1>4, <3>2, <5>1, FetchType
          <5>3. fetch'[j] = fetch[j] /\ rev' = rev
            BY <1>2, <1>3, <5>2
          <5> QED
            BY <5>1, <5>3 DEF Coming
        <4> QED
          BY <1>3, <4>3, <4>4, <4>5 DEF Learns
      <3> QED
        BY <3>1, <3>2
    <2>4. InFlight' = {} => Learns(r.rev)'
      BY <2>3 DEF Learns
    <2>5. ASSUME ~overtaken', NEW k \in DOMAIN stream', stream'[k].type \in Showing
          PROVE  stream'[k].rev >= r.rev
      BY <1>3, <1>4, <2>5, EventType DEF Showing
    <2>6. OfKind(bucket, {"canonical", "live"})' = {}
      BY <1>6 DEF OfKind
    <2> QED
      BY <2>1, <2>2, <2>4, <2>5, <2>6 DEF InStepSince
  <1>14. LocalsCounted'
    <2> SUFFICES ASSUME missed' = "no", NEW p \in Prompts
                 PROVE  Cardinality(LocalsLike(bucket', p)) <= Cardinality((Unconfirming(p))')
      BY DEF LocalsCounted, LocalsLike, OfKind
    <2>1. missed = "no"
      BY <1>3
    <2>2. Unconfirming(p) \subseteq (Unconfirming(p))'
      BY <1>3 DEF Unconfirming
    <2> QED
      BY <1>5, <2>1, <2>2, CountedStill DEF LocalsCounted, TypeOK
  <1> QED
    BY <1>8, <1>9, <1>10, <1>11, <1>12, <1>13, <1>14

LEMMA ArriveKeeps ==
    ASSUME TranscriptInv, NEW i \in Fetches, Arrive(i)
    PROVE  TranscriptInv'
  <1> USE DEF TranscriptInv
  <1>1. CASE Current(fetch[i].response)
    BY <1>1, TakeKeeps
  <1>2. CASE ~Current(fetch[i].response)
    <2>1. /\ fetch[i].phase = "read"
          /\ \A j \in Fetches : j # i => fetch'[j] = fetch[j]
          /\ fetch' \in [Fetches -> Fetching] /\ Responses' \subseteq Responses
          /\ fetch[i].response \in Histories
          /\ UNCHANGED <<server, conn, stream, working>>
      BY ArriveFacts
    <2>2. UNCHANGED <<known, bucket, overtaken, missed>> /\ ~(fetch[i].response.rev >= known)
      BY <1>2 DEF Arrive, Current
    <2>3. TypeOK'
      BY <2>1, <2>2 DEF TypeOK, Fetching, server
    <2>4. ASSUME NEW r \in Int, r >= known, Coming(r)
          PROVE  Coming(r)'
      <3>1. known \in Int /\ fetch[i].response.rev \in Nat /\ fetch[i] # Sent
        BY <2>1, HistoryType, FetchType DEF TypeOK
      <3>2. PICK j \in Fetches :
                fetch[j] = Sent \/ (fetch[j].phase = "read" /\ fetch[j].response.rev >= r)
        BY <2>4 DEF Coming
      <3>3. j # i
        BY <2>2, <2>4, <3>1, <3>2
      <3> QED
        BY <2>1, <3>2, <3>3 DEF Coming
    <2> QED
      BY <2>1, <2>2, <2>3, <2>4, FetchKeeps
  <1> QED
    BY <1>1, <1>2

LEMMA AskFacts ==
    ASSUME TypeOK, Ask4History
    PROVE  /\ fetch' \in [Fetches -> Fetching]
           /\ Responses' \subseteq Responses
           /\ \A r \in Int : Coming(r)'
  <1>1. PICK i \in Fetches : fetch[i] = Idle /\ fetch' = [fetch EXCEPT ![i] = Sent]
    BY DEF Ask4History
  <1>2. fetch \in [Fetches -> Fetching] /\ Sent \in Fetching
    BY DEF TypeOK, Fetching
  <1>3. fetch'[i] = Sent /\ (\A j \in Fetches : j # i => fetch'[j] = fetch[j])
        /\ fetch' \in [Fetches -> Fetching]
    BY <1>1, <1>2
  <1>4. Responses' \subseteq Responses
    <2>1. ASSUME NEW j \in Fetches, fetch'[j].phase = "read"
          PROVE  fetch'[j].response \in Responses
      <3>1. j # i
        BY <1>3, <2>1, FetchType
      <3> QED
        BY <1>3, <2>1, <3>1 DEF Responses
    <2> QED
      BY <2>1 DEF Responses
  <1>5. \A r \in Int : Coming(r)'
    BY <1>3 DEF Coming
  <1> QED
    BY <1>3, <1>4, <1>5

LEMMA OpenKeeps ==
    ASSUME TranscriptInv, Open
    PROVE  TranscriptInv'
  <1> USE DEF TranscriptInv
  <1>1. /\ fetch' \in [Fetches -> Fetching] /\ Responses' \subseteq Responses
        /\ \A r \in Int : Coming(r)'
    BY AskFacts DEF Open
  <1>2. UNCHANGED <<server, conn, stream, bucket, known, overtaken, working, missed>>
    BY DEF Open, BrowserUnchanged, browser
  <1>3. TypeOK'
    BY <1>1, <1>2 DEF TypeOK, Fetching, server
  <1> QED
    BY <1>1, <1>2, <1>3, FetchKeeps

LEMMA ConnectKeeps ==
    ASSUME TranscriptInv, Connect \/ UNCHANGED vars
    PROVE  TranscriptInv'
  <1> USE DEF TranscriptInv
  <1>1. /\ UNCHANGED <<server, stream, bucket, known, overtaken, working, fetch, missed>>
        /\ conn' \in {conn, "on"}
    BY DEF Connect, browser, vars
  <1>2. TypeOK'
    BY <1>1 DEF TypeOK, server
  <1>3. Responses' \subseteq Responses
    BY <1>1 DEF Responses
  <1>4. \A r \in Int : Coming(r) => Coming(r)'
    BY <1>1 DEF Coming
  <1>5. conn' = "off" => conn = "off"
    BY <1>1
  <1> QED
    BY <1>1, <1>2, <1>3, <1>4, <1>5, FetchKeeps

(* What is lost with the stream is known to be missed. *)
LEMMA DisconnectKeeps ==
    ASSUME TranscriptInv, Disconnect
    PROVE  TranscriptInv'
  <1> USE DEF TranscriptInv
  <1>1. /\ UNCHANGED <<server, bucket, known, overtaken, working, fetch>>
        /\ stream' = <<>> /\ conn' = "off" /\ missed = "no"
        /\ missed' = IF stream = <<>> THEN "no" ELSE "yes"
    BY DEF Disconnect, browser
  <1>2. TypeOK'
    BY <1>1 DEF TypeOK, server
  <1>3. Responses' = Responses
    BY <1>1 DEF Responses
  <1>4. CASE stream = <<>>
    <2>1. \A r \in Int : Coming(r) => Coming(r)'
      BY <1>1 DEF Coming
    <2>2. UNCHANGED <<stream, missed>>
      BY <1>1, <1>4
    <2> QED
      BY <1>1, <1>2, <1>3, <1>4, <2>1, <2>2, FetchKeeps
  <1>5. CASE stream # <<>>
    <2>1. missed' = "yes"
      BY <1>1, <1>5
    <2>2. UNCHANGED <<task, branch, rev, cache, live>>
      BY <1>1 DEF server
    <2>3. Shown(bucket)' = Shown(bucket)
      BY <1>1 DEF Shown, OfKind, Filtered, Place, UpTo
    <2>4. ServerSound' /\ ResponsesSound' /\ BrowserSound'
      BY <1>1, <1>3, <2>2, <2>3
         DEF ServerSound, ResponsesSound, BrowserSound, Looping, InFlight
    <2>5. StreamSound'
      BY <1>1, <2>2 DEF StreamSound, OfKind
    <2>6. InStep' /\ LocalsCounted'
      BY <2>1 DEF InStep, LocalsCounted
    <2> QED
      BY <1>2, <2>4, <2>5, <2>6
  <1> QED
    BY <1>4, <1>5

(* A prompt is shown at once: one message more of its text, and one prompt.  *)
LEMMA SubmitKeeps ==
    ASSUME TranscriptInv, NEW p \in Prompts, Submit(p)
    PROVE  TranscriptInv'
  <1> USE DEF TranscriptInv
  <1> DEFINE x == Message("local", p)
  <1>1. task[p] = "none"
    BY NextIsNew DEF Submit
  <1>2. TaskMoves(p, "none", "posted")
    BY <1>1, EnterType DEF Submit, TaskMoves, Phases
  <1>3. /\ UNCHANGED <<branch, rev, cache, live, conn, stream, known, overtaken, fetch, missed>>
        /\ bucket' = Append(bucket, x) /\ working' = TRUE /\ p \in Own
    BY DEF Submit
  <1>4. InFlight' = InFlight /\ Looping' = Looping
    <2>1. "posted" \in Phases /\ "none" \notin Moving /\ "posted" \notin Moving
      BY DEF Phases, Moving
    <2>2. p \notin InFlight /\ p \notin Looping
      BY <1>1, <1>2, <2>1, TaskMoved, LoopType
    <2> QED
      BY <1>2, <2>1, <2>2, TaskMoved
  <1>5. x \in Messages /\ x.kind = "local" /\ x.of = p /\ x.kind \notin EntryKinds
        /\ bucket \in Seq(Messages) /\ DOMAIN bucket \subseteq Nat /\ Len(bucket) \in Nat
    BY MessagesType DEF EntryKinds, TypeOK
  <1> HIDE DEF x
  <1>6. /\ bucket' \in Seq(Messages) /\ Shown(bucket') = Shown(bucket)
        /\ \A k \in DOMAIN bucket' : bucket'[k] = x \/ \E j \in DOMAIN bucket : bucket'[k] = bucket[j]
        /\ \A q : LocalsLike(bucket', q) \in
                {LocalsLike(bucket, q), LocalsLike(bucket, q) \union {Len(bucket) + 1}}
        /\ \A q : ~SameText(p, q) => LocalsLike(bucket', q) = LocalsLike(bucket, q)
    BY <1>3, <1>5, AppendToTranscript
  <1>7. /\ task'[p] = "posted" /\ \A q \in Prompts : q # p => task'[q] = task[q]
        /\ task' \in [Prompts -> Phases]
    BY <1>2 DEF TaskMoves
  <1>8. TypeOK'
    BY <1>3, <1>6, <1>7 DEF TypeOK
  <1>9. Shown(bucket)' = Shown(bucket) /\ Responses' = Responses
    <2>1. Shown(bucket)' = Shown(bucket')
      BY DEF Shown, OfKind, Filtered, Place, UpTo
    <2> QED
      BY <1>3, <1>6, <2>1 DEF Responses
  <1>10. ServerSound' /\ ResponsesSound' /\ BrowserSound'
    BY <1>3, <1>4, <1>9 DEF ServerSound, ResponsesSound, BrowserSound
  <1>11. ASSUME NEW k \in DOMAIN bucket', bucket'[k].kind \in {"canonical", "live"}
         PROVE  \E j \in DOMAIN bucket : bucket[j] = bucket'[k]
    BY <1>5, <1>6, <1>11
  <1>12. \A k \in DOMAIN stream : stream[k].of \in Prompts /\ stream[k].of # p
    BY <1>1, EventType DEF StreamSound, EventSound, Before
  <1>13. StreamSound'
    <2>1. \A k \in OfKind(bucket, {"canonical"})' : task'[bucket'[k].of] \notin Before
      <3> SUFFICES ASSUME NEW k \in DOMAIN bucket', bucket'[k].kind = "canonical"
                   PROVE  task'[bucket'[k].of] \notin Before
        BY DEF OfKind
      <3>1. PICK j \in DOMAIN bucket : bucket[j] = bucket'[k]
        BY <1>11
      <3>2. bucket[j].of \in Prompts /\ task[bucket[j].of] \notin Before
        BY <1>5, <3>1, MessagesType DEF StreamSound, OfKind
      <3> QED
        BY <1>1, <1>7, <3>1, <3>2 DEF Before
    <2>2. ASSUME NEW k \in DOMAIN stream
          PROVE  EventSound(k)'
      <3>1. EventSound(k) /\ stream[k].of \in Prompts
        BY <1>12 DEF StreamSound
      <3>2. task'[stream[k].of] = task[stream[k].of]
        BY <1>7, <1>12
      <3>3. Followed(k) => Followed(k)'
        BY <1>3, <1>4, <3>2 DEF Followed
      <3>4. StartedOnce(k) => StartedOnce(k)'
        <4>1. Message("canonical", stream[k].of).kind = "canonical"
          BY DEF Message
        <4> QED
          BY <1>3, <1>11, <4>1 DEF StartedOnce
      <3> QED
        BY <1>3, <3>1, <3>2, <3>3, <3>4 DEF EventSound
    <2> QED
      BY <1>3, <2>1, <2>2 DEF StreamSound
  <1>14. InStep'
    <2> SUFFICES ASSUME NEW h \in {-1} \union 0..known, InStepSince(h)
                 PROVE  InStepSince(h)'
      BY <1>3 DEF InStep
    <2>1. /\ known' > h => Coming(known)'
          /\ h = rev' => cache' # None /\ Shown(bucket)' = cache'.messages
          /\ InFlight' = {} => Learns(h)'
          /\ ~overtaken' => \A k \in DOMAIN stream' :
                               stream'[k].type \in Showing => stream'[k].rev >= h
      BY <1>3, <1>4, <1>9 DEF InStepSince, Coming, Learns
    <2>2. ASSUME ~overtaken', NEW k \in OfKind(bucket, {"canonical", "live"})'
          PROVE  Replaced(bucket[k].of, h)'
      <3>1. k \in DOMAIN bucket' /\ bucket'[k].kind \in {"canonical", "live"}
        BY <2>2 DEF OfKind
      <3>2. PICK j \in DOMAIN bucket : bucket[j] = bucket'[k]
        BY <1>11, <3>1
      <3>3. PICK q \in Prompts : q = bucket[j].of
        BY <1>5, <3>2, MessagesType
      <3>4. Replaced(q, h)
        BY <1>3, <2>2, <3>1, <3>2, <3>3 DEF InStepSince, OfKind
      <3>5. task'[q] = "ended" => task[q] = "ended"
        BY <1>7
      <3>6. Replaced(q, h)'
        BY <1>3, <1>4, <3>4, <3>5 DEF Replaced, Coming
      <3> QED
        BY <3>2, <3>3, <3>6 DEF Replaced
    <2> QED
      BY <2>1, <2>2 DEF InStepSince
  <1>15. LocalsCounted'
    <2> SUFFICES ASSUME missed' = "no", NEW q \in Prompts
                 PROVE  Cardinality(LocalsLike(bucket', q)) <= Cardinality((Unconfirming(q))')
      BY DEF LocalsCounted, LocalsLike, OfKind
    <2>1. Cardinality(LocalsLike(bucket, q)) <= Cardinality(Unconfirming(q))
      BY <1>3 DEF LocalsCounted
    <2>2. Unconfirming(q) \subseteq (Unconfirming(q))'
      <3> SUFFICES ASSUME NEW o \in Unconfirming(q)
                   PROVE  o \in (Unconfirming(q))'
        OBVIOUS
      <3>1. o \in Prompts
        BY UnconfirmingType
      <3> QED
        BY <1>3, <1>7, <3>1 DEF Unconfirming, SameText
    <2>3. CASE ~SameText(p, q)
      <3>1. LocalsLike(bucket', q) = LocalsLike(bucket, q)
        BY <1>6, <2>3
      <3>2. Cardinality(LocalsLike(bucket', q)) <= Cardinality(LocalsLike(bucket, q))
        <4>1. Cardinality(LocalsLike(bucket, q)) \in Nat
          BY <1>5, LocalsType
        <4>2. Cardinality(LocalsLike(bucket', q)) = Cardinality(LocalsLike(bucket, q))
          BY <3>1
        <4> QED
          BY <4>1, <4>2
      <3> QED
        BY <1>5, <1>6, <2>1, <2>2, <3>2, CountedStill
    <2>4. CASE SameText(p, q)
      <3>1. p \in (Unconfirming(q))'
        BY <1>3, <1>7, <2>4 DEF Unconfirming, SameText
      <3>2. p \notin Unconfirming(q)
        BY <1>1, <1>12 DEF Unconfirming
      <3>3. /\ Cardinality(LocalsLike(bucket, q)) \in Nat /\ IsFiniteSet(LocalsLike(bucket, q))
            /\ Cardinality(LocalsLike(bucket', q)) \in Nat
        BY <1>5, <1>6, LocalsType
      <3>4. Cardinality(LocalsLike(bucket', q)) <= Cardinality(LocalsLike(bucket, q)) + 1
        <4>1. Cardinality(LocalsLike(bucket, q) \union {Len(bucket) + 1})
                \in {Cardinality(LocalsLike(bucket, q)), Cardinality(LocalsLike(bucket, q)) + 1}
          BY <3>3, FS_AddElement
        <4>2. PICK S : S = LocalsLike(bucket', q)
          OBVIOUS
        <4>3. PICK T : T = LocalsLike(bucket, q)
          OBVIOUS
        <4>4. S \in {T, T \union {Len(bucket) + 1}}
          BY <1>6, <4>2, <4>3
        <4>5. Cardinality(T) \in Nat /\ Cardinality(T \union {Len(bucket) + 1})
                \in {Cardinality(T), Cardinality(T) + 1}
          BY <3>3, <4>1, <4>3
        <4>6. Cardinality(S) \in {Cardinality(T), Cardinality(T) + 1}
          BY <4>4, <4>5
        <4>7. Cardinality(S) <= Cardinality(T) + 1
          BY <4>5, <4>6
        <4> QED
          BY <4>2, <4>3, <4>7
      <3>5. /\ Cardinality(Unconfirming(q)) \in Nat /\ IsFiniteSet(Unconfirming(q))
            /\ Cardinality((Unconfirming(q))') \in Nat /\ IsFiniteSet((Unconfirming(q))')
        BY UnconfirmingType
      <3>6. Cardinality(Unconfirming(q) \union {p}) = Cardinality(Unconfirming(q)) + 1
        BY <3>2, <3>5, FS_AddElement
      <3>7. Cardinality(Unconfirming(q) \union {p}) <= Cardinality((Unconfirming(q))')
        BY <2>2, <3>1, <3>5, FS_Subset
      <3> QED
        BY <2>1, <3>3, <3>4, <3>5, <3>6, <3>7
    <2> QED
      BY <2>3, <2>4
  <1> QED
    BY <1>8, <1>10, <1>13, <1>14, <1>15

-------------------------------------------------------------------------------
(* Events *)

(* The first event has left the stream. *)
Delivered(e) ==
    /\ 1 \in DOMAIN stream /\ stream[1] = e
    /\ \A k \in DOMAIN stream' : k + 1 \in DOMAIN stream /\ stream'[k] = stream[k + 1]
    /\ \A k \in DOMAIN stream : k = 1 \/ (k - 1 \in DOMAIN stream' /\ stream'[k - 1] = stream[k])
    /\ DOMAIN stream \subseteq Nat /\ DOMAIN stream' \subseteq Nat \ {0}
    /\ stream' \in Seq(Events) /\ (stream = <<>> => stream' = <<>>)
    /\ UNCHANGED <<task, branch, rev, cache, live, conn, overtaken, missed>>

LEMMA DeliverEvent ==
    ASSUME TypeOK, Deliver
    PROVE  Delivered(Head(stream))
  <1>1. stream \in Seq(Events) /\ stream # <<>> /\ stream' = Tail(stream)
    BY DEF TypeOK, Deliver
  <1>2. /\ Len(stream) \in Nat \ {0} /\ DOMAIN stream = 1..Len(stream)
        /\ stream' \in Seq(Events) /\ DOMAIN stream' = 1..(Len(stream) - 1)
        /\ Head(stream) = stream[1]
        /\ \A k \in 1..(Len(stream) - 1) : stream'[k] = stream[k + 1]
    BY <1>1
  <1>3. ASSUME NEW k \in DOMAIN stream, k # 1
        PROVE  k - 1 \in DOMAIN stream' /\ stream'[k - 1] = stream[k]
    BY <1>2, <1>3
  <1>4. UNCHANGED <<task, branch, rev, cache, live, conn, overtaken, missed>>
    BY DEF Deliver, BrowserUnchanged, server
  <1> QED
    BY <1>1, <1>2, <1>3, <1>4 DEF Delivered

LEMMA DeliverStream ==
    ASSUME TypeOK, StreamSound, NEW e, Delivered(e), bucket' \in Seq(Messages),
           \A k \in DOMAIN bucket' : bucket'[k].kind = "canonical" =>
                \/ \E j \in DOMAIN bucket : bucket[j] = bucket'[k]
                \/ e.type = "started" /\ bucket'[k].of = e.of
    PROVE  StreamSound'
  <1> USE DEF Delivered
  <1>1. EventSound(1)
    BY DEF StreamSound
  <1>2. \A k \in OfKind(bucket, {"canonical"})' : task'[bucket'[k].of] \notin Before
    <2> SUFFICES ASSUME NEW k \in DOMAIN bucket', bucket'[k].kind = "canonical"
                 PROVE  task[bucket'[k].of] \notin Before
      BY DEF OfKind
    <2>1. CASE \E j \in DOMAIN bucket : bucket[j] = bucket'[k]
      BY <2>1 DEF StreamSound, OfKind
    <2>2. CASE bucket'[k].of = e.of
      BY <1>1, <2>2 DEF EventSound
    <2> QED
      BY <2>1, <2>2
  <1>3. ASSUME NEW k \in DOMAIN stream'
        PROVE  EventSound(k)'
    <2>1. k + 1 \in DOMAIN stream /\ EventSound(k + 1) /\ stream'[k] = stream[k + 1] /\ k \in Nat \ {0}
      BY DEF StreamSound
    <2>2. ASSUME Followed(k + 1)
          PROVE  Followed(k)'
      <3>1. stream'[k].of \in InFlight' \/
            \E l \in DOMAIN stream' : /\ l > k /\ stream'[l].of = stream'[k].of
                                      /\ stream'[l].type \in Closing
        <4>1. CASE stream[k + 1].of \in InFlight
          BY <2>1, <4>1 DEF InFlight
        <4>2. ASSUME NEW l \in DOMAIN stream, l > k + 1, stream[l].of = stream[k + 1].of,
                     stream[l].type \in Closing
              PROVE  \E n \in DOMAIN stream' : /\ n > k /\ stream'[n].of = stream'[k].of
                                               /\ stream'[n].type \in Closing
          <5>1. l - 1 \in DOMAIN stream' /\ stream'[l - 1] = stream[l] /\ l - 1 > k
            BY <2>1, <4>2
          <5> QED
            BY <2>1, <4>2, <5>1
        <4> QED
          BY <2>2, <4>1, <4>2 DEF Followed
      <3>2. task'[stream'[k].of] = "ended" => stream'[k].rev < rev'
        BY <2>1, <2>2 DEF Followed
      <3>3. ASSUME NEW l \in DOMAIN stream', l > k, stream'[l].of = stream'[k].of,
                   stream'[l].type = "completed"
            PROVE  stream'[k].rev < stream'[l].rev
        <4>1. l + 1 \in DOMAIN stream /\ stream'[l] = stream[l + 1] /\ l + 1 > k + 1
          BY <2>1, <3>3
        <4> QED
          BY <2>1, <2>2, <3>3, <4>1 DEF Followed
      <3> QED
        BY <3>1, <3>2, <3>3 DEF Followed
    <2>3. ASSUME stream[k + 1].type = "started", StartedOnce(k + 1)
          PROVE  StartedOnce(k)'
      <3>1. ASSUME NEW l \in DOMAIN stream', stream'[l].type = "started",
                   stream'[l].of = stream'[k].of
            PROVE  l = k
        <4>1. l + 1 \in DOMAIN stream /\ stream'[l] = stream[l + 1] /\ l \in Nat
          BY <3>1
        <4>2. l + 1 = k + 1
          BY <2>1, <2>3, <3>1, <4>1 DEF StartedOnce
        <4> QED
          BY <2>1, <4>1, <4>2
      <3>2. ASSUME NEW l \in DOMAIN bucket', bucket'[l] = Message("canonical", stream'[k].of)
            PROVE  FALSE
        <4>1. bucket'[l].kind = "canonical" /\ bucket'[l].of = stream[k + 1].of
          BY <2>1, <3>2 DEF Message
        <4>2. \A j \in DOMAIN bucket : bucket[j] # bucket'[l]
          BY <2>1, <2>3, <3>2 DEF StartedOnce
        <4>3. e.type = "started" /\ e.of = stream[k + 1].of
          BY <4>1, <4>2
        <4>4. 1 = k + 1
          BY <2>3, <4>3 DEF StartedOnce
        <4> QED
          BY <2>1, <4>4
      <3> QED
        BY <3>1, <3>2 DEF StartedOnce
    <2> QED
      BY <2>1, <2>2, <2>3 DEF EventSound
  <1>4. conn' = "off" => stream' = <<>>
    BY DEF StreamSound
  <1> QED
    BY <1>2, <1>3, <1>4 DEF StreamSound

(* A history is asked for, unless the event told nothing that is not known.  *)
Asks(e) ==
    \/ \A r \in Int : Coming(r)'
    \/ /\ UNCHANGED <<fetch, known>>
       /\ e.type # "failed" /\ (e.type = "completed" => e.rev <= known)

LEMMA DeliverReplaced ==
    ASSUME TypeOK, StreamSound, NEW e, Delivered(e), Asks(e), known' \in Int,
           NEW h \in Int, known > h => Coming(known),
           NEW q \in Prompts,
           \/ Replaced(q, h)
           \/ e.type \in Showing /\ e.of = q /\ e.rev >= h
    PROVE  Replaced(q, h)'
  <1> USE DEF Delivered
  <1>0. rev \in Nat /\ known \in Int /\ EventSound(1) /\ e.rev \in Nat
        /\ \A k \in DOMAIN stream : stream[k].rev \in Nat
    BY EventType DEF StreamSound, TypeOK
  <1>1. CASE \A r \in Int : Coming(r)'
    BY <1>1 DEF Replaced
  <1>2. CASE /\ UNCHANGED <<fetch, known>>
             /\ e.type # "failed" /\ (e.type = "completed" => e.rev <= known)
    <2>1. Coming(known) => Coming(known)'
      BY <1>2 DEF Coming
    <2>2. ASSUME NEW l \in DOMAIN stream, l # 1, stream[l].of = q,
                 stream[l].type = "failed" \/ (stream[l].type = "completed" /\ stream[l].rev > h)
          PROVE  Replaced(q, h)'
      <3>1. l - 1 \in DOMAIN stream' /\ stream'[l - 1] = stream[l]
        BY <2>2
      <3> QED
        BY <2>2, <3>1 DEF Replaced
    <2>3. ASSUME e.type = "completed", e.rev > h
          PROVE  Replaced(q, h)'
      <3>1. Coming(known)
        BY <1>0, <1>2, <2>3
      <3> QED
        BY <2>1, <3>1 DEF Replaced
    <2>4. ASSUME q \in InFlight, task[q] = "ended" => rev > h
          PROVE  Replaced(q, h)'
      BY <2>4 DEF Replaced, InFlight
    <2>5. CASE Replaced(q, h)
      BY <1>2, <2>1, <2>2, <2>3, <2>4, <2>5 DEF Replaced
    <2>6. CASE e.type \in Showing /\ e.of = q /\ e.rev >= h
      <3>1. Followed(1)
        BY <1>0, <2>6 DEF EventSound
      <3>2. CASE q \in InFlight
        BY <1>0, <2>4, <2>6, <3>1, <3>2 DEF Followed
      <3>3. ASSUME NEW l \in DOMAIN stream, l > 1, stream[l].of = q, stream[l].type \in Closing
            PROVE  Replaced(q, h)'
        <4>1. stream[l].type = "completed" => stream[l].rev > h
          BY <1>0, <2>6, <3>1, <3>3 DEF Followed
        <4> QED
          BY <2>2, <3>3, <4>1 DEF Closing
      <3> QED
        BY <2>6, <3>1, <3>2, <3>3 DEF Followed
    <2> QED
      BY <2>5, <2>6
  <1> QED
    BY <1>1, <1>2 DEF Asks

LEMMA DeliverInStep ==
    ASSUME TypeOK, StreamSound, BrowserSound, InStep, NEW e, Delivered(e), Asks(e),
           known' \in Int, known' >= known, bucket' \in Seq(Messages),
           Shown(bucket)' = Shown(bucket),
           \A k \in DOMAIN bucket' : bucket'[k].kind \in {"canonical", "live"} =>
                \/ \E j \in DOMAIN bucket : bucket[j] = bucket'[k]
                \/ e.type \in Showing /\ bucket'[k].of = e.of
    PROVE  InStep'
  <1> USE DEF Delivered
  <1>0. rev \in Nat /\ known \in Int /\ known >= -1 /\ known <= rev /\ e.rev \in Nat
    BY EventType DEF TypeOK, BrowserSound
  <1> SUFFICES ASSUME missed' # "yes"
               PROVE  \E h \in {-1} \union 0..known' : InStepSince(h)'
    BY DEF InStep
  <1>1. PICK h \in {-1} \union 0..known : InStepSince(h)
    BY DEF InStep
  <1>2. h \in Int /\ h <= known /\ h \in {-1} \union 0..known'
    BY <1>0, <1>1
  <1>3. /\ \A r \in Int : Coming(r) => Coming(r)'
        /\ known' # known => Coming(known)'
    BY DEF Asks, Coming
  <1>4. known' > h => Coming(known)'
    BY <1>0, <1>1, <1>3 DEF InStepSince
  <1>5. h = rev' => cache' # None /\ Shown(bucket)' = cache'.messages
    BY <1>1 DEF InStepSince
  <1>6. ASSUME InFlight' = {}
        PROVE  rev \in {0, h} \/ Coming(rev)' \/
               \E k \in DOMAIN stream' : stream'[k].type \in Closing /\ stream'[k].rev = rev
    <2>1. Learns(h)
      BY <1>1, <1>6 DEF InStepSince, InFlight
    <2>2. CASE Coming(rev)
      BY <1>0, <1>3, <2>2
    <2>3. ASSUME NEW k \in DOMAIN stream, stream[k].type \in Closing, stream[k].rev = rev, k # 1
          PROVE  \E l \in DOMAIN stream' : stream'[l].type \in Closing /\ stream'[l].rev = rev
      BY <2>3
    <2>4. ASSUME e.type \in Closing, e.rev = rev, ~(\A r \in Int : Coming(r)')
          PROVE  rev = h \/ Coming(rev)'
      <3>1. e.type = "completed" /\ e.rev <= known
        BY <2>4 DEF Asks, Closing
      <3>2. rev = known
        BY <1>0, <2>4, <3>1
      <3>3. CASE known > h
        BY <1>0, <1>1, <1>3, <3>2, <3>3 DEF InStepSince
      <3>4. CASE known = h
        BY <3>2, <3>4
      <3> QED
        BY <1>0, <1>2, <3>3, <3>4
    <2>5. (\A r \in Int : Coming(r)') => Coming(rev)'
      <3>1. rev' = rev /\ rev' \in Int
        BY <1>0
      <3> QED
        BY <3>1
    <2> QED
      BY <2>1, <2>2, <2>3, <2>4, <2>5 DEF Learns
  <1>7. InFlight' = {} => Learns(h)'
    BY <1>6 DEF Learns
  <1>8. ~overtaken' => \A k \in DOMAIN stream' : stream'[k].type \in Showing => stream'[k].rev >= h
    BY <1>1 DEF InStepSince
  <1>9. ASSUME ~overtaken', NEW k \in OfKind(bucket, {"canonical", "live"})'
        PROVE  Replaced(bucket[k].of, h)'
    <2>1. k \in DOMAIN bucket' /\ bucket'[k].kind \in {"canonical", "live"}
      BY <1>9 DEF OfKind
    <2>2. PICK q \in Prompts : q = bucket'[k].of
      BY <2>1, MessagesType
    <2>3. Replaced(q, h) \/ (e.type \in Showing /\ e.of = q /\ e.rev >= h)
      <3>1. CASE \E j \in DOMAIN bucket : bucket[j] = bucket'[k]
        BY <1>1, <1>9, <2>1, <2>2, <3>1 DEF InStepSince, OfKind
      <3>2. CASE e.type \in Showing /\ bucket'[k].of = e.of
        BY <1>1, <1>9, <2>2, <3>2 DEF InStepSince
      <3> QED
        BY <2>1, <3>1, <3>2
    <2>4. known > h => Coming(known)
      BY <1>1 DEF InStepSince
    <2>5. Replaced(q, h)'
      BY <1>2, <2>3, <2>4, DeliverReplaced
    <2> QED
      BY <2>2, <2>5 DEF Replaced
  <1>10. InStepSince(h)'
    BY <1>4, <1>5, <1>7, <1>8, <1>9 DEF InStepSince
  <1> QED
    BY <1>2, <1>10

LEMMA MaxOfTwo ==
    ASSUME NEW a \in Int, NEW b \in Int
    PROVE  Max({a, b}) \in {a, b} /\ Max({a, b}) >= a /\ Max({a, b}) >= b
  <1>1. CASE a >= b
    <2>1. a \in {a, b} /\ \A y \in {a, b} : a >= y
      BY <1>1
    <2> QED
      BY <2>1 DEF Max
  <1>2. CASE b >= a
    <2>1. b \in {a, b} /\ \A y \in {a, b} : b >= y
      BY <1>2
    <2> QED
      BY <2>1 DEF Max
  <1> QED
    BY <1>1, <1>2

LEMMA OneLess ==
    ASSUME NEW S, NEW x, IsFiniteSet(S)
    PROVE  /\ Cardinality(S \ {x}) \in Nat
           /\ Cardinality(S \ {x}) >= Cardinality(S) - 1
           /\ x \in S => Cardinality(S \ {x}) = Cardinality(S) - 1
  <1>1. IsFiniteSet(S \ {x}) /\ Cardinality(S) \in Nat
    BY FS_RemoveElement, FS_CardinalityType
  <1>2. Cardinality(S \ {x}) \in Nat
    BY <1>1, FS_CardinalityType
  <1>3. CASE x \in S
    <2>1. Cardinality(S \ {x}) = Cardinality(S) - 1
      BY <1>3, FS_RemoveElement
    <2> QED
      BY <1>1, <1>2, <2>1
  <1>4. CASE x \notin S
    <2>1. S \ {x} = S
      BY <1>4
    <2> QED
      BY <1>1, <1>4, <2>1
  <1> QED
    BY <1>2, <1>3, <1>4

(* Only the event that a prompt has started confirms messages of its text.  *)
LEMMA DeliverLocals ==
    ASSUME TypeOK, LocalsCounted, NEW e, Delivered(e), e.of \in Prompts,
           bucket' \in Seq(Messages),
           NEW q \in Prompts, missed = "no",
           \/ /\ e.type # "started" \/ ~SameText(e.of, q)
              /\ Cardinality(LocalsLike(bucket', q)) <= Cardinality(LocalsLike(bucket, q))
           \/ LocalsLike(bucket', q) = {}
           \/ \E k \in LocalsLike(bucket, q) : LocalsLike(bucket', q) = LocalsLike(bucket, q) \ {k}
    PROVE  Cardinality(LocalsLike(bucket', q)) <= Cardinality((Unconfirming(q))')
  <1> USE DEF Delivered
  <1>1. /\ Cardinality(LocalsLike(bucket, q)) <= Cardinality(Unconfirming(q))
        /\ Cardinality(LocalsLike(bucket, q)) \in Nat /\ IsFiniteSet(LocalsLike(bucket, q))
        /\ bucket \in Seq(Messages)
    BY LocalsType DEF LocalsCounted, TypeOK
  <1>2. /\ Cardinality(Unconfirming(q)) \in Nat /\ IsFiniteSet(Unconfirming(q))
        /\ Cardinality((Unconfirming(q))') \in Nat /\ IsFiniteSet((Unconfirming(q))')
    BY UnconfirmingType
  <1>3. ASSUME NEW o \in Unconfirming(q), e.type # "started" \/ e.of # o
        PROVE  o \in (Unconfirming(q))'
    <2>1. CASE task[o] \in {"posted", "refused", "unstarted"}
      BY <2>1 DEF Unconfirming, SameText
    <2>2. ASSUME NEW k \in DOMAIN stream, stream[k].type = "started", stream[k].of = o
          PROVE  o \in (Unconfirming(q))'
      <3>1. k - 1 \in DOMAIN stream' /\ stream'[k - 1] = stream[k]
        BY <1>3, <2>2
      <3> QED
        BY <2>2, <3>1 DEF Unconfirming, SameText
    <2> QED
      BY <2>1, <2>2 DEF Unconfirming
  <1>4. CASE /\ e.type # "started" \/ ~SameText(e.of, q)
             /\ Cardinality(LocalsLike(bucket', q)) <= Cardinality(LocalsLike(bucket, q))
    <2>1. Unconfirming(q) \subseteq (Unconfirming(q))'
      BY <1>3, <1>4 DEF Unconfirming
    <2> QED
      BY <1>1, <1>4, <2>1, CountedStill
  <1>5. CASE LocalsLike(bucket', q) = {}
    <2>1. Cardinality({}) = 0
      BY FS_EmptySet
    <2>2. Cardinality(LocalsLike(bucket', q)) = 0
      BY <1>5, <2>1
    <2> QED
      BY <1>2, <2>2
  <1>6. ASSUME NEW k \in LocalsLike(bucket, q), LocalsLike(bucket', q) = LocalsLike(bucket, q) \ {k}
        PROVE  Cardinality(LocalsLike(bucket', q)) <= Cardinality((Unconfirming(q))')
    <2>1. Cardinality(LocalsLike(bucket', q)) = Cardinality(LocalsLike(bucket, q)) - 1
      <3>1. Cardinality(LocalsLike(bucket, q) \ {k}) = Cardinality(LocalsLike(bucket, q)) - 1
        BY <1>1, OneLess
      <3> QED
        BY <1>6, <3>1
    <2>2. Unconfirming(q) \ {e.of} \subseteq (Unconfirming(q))'
      BY <1>3
    <2>3. /\ Cardinality(Unconfirming(q) \ {e.of}) \in Nat
          /\ Cardinality(Unconfirming(q) \ {e.of}) >= Cardinality(Unconfirming(q)) - 1
      BY <1>2, OneLess
    <2>4. Cardinality(Unconfirming(q) \ {e.of}) <= Cardinality((Unconfirming(q))')
      BY <1>2, <2>2, FS_Subset
    <2> QED
      BY <1>1, <1>2, <2>1, <2>3, <2>4
  <1> QED
    BY <1>4, <1>5, <1>6

(* What a step that takes an event has to show *)
LEMMA EventKeeps ==
    ASSUME TranscriptInv, NEW e, Delivered(e), Asks(e),
           known' \in Int, known' >= known, known' <= rev, working' \in BOOLEAN,
           fetch' \in [Fetches -> Fetching], Responses' \subseteq Responses,
           bucket' \in Seq(Messages), Shown(bucket') = Shown(bucket),
           \A k \in DOMAIN bucket' :
                \/ \E j \in DOMAIN bucket : bucket[j] = bucket'[k]
                \/ e.type = "started" /\ bucket'[k] = Message("canonical", e.of)
                \/ e.type = "live" /\ bucket'[k] = Message("live", e.of),
           \A q \in Prompts :
             \/ /\ e.type # "started" \/ ~SameText(e.of, q)
                /\ Cardinality(LocalsLike(bucket', q)) <= Cardinality(LocalsLike(bucket, q))
             \/ LocalsLike(bucket', q) = {}
             \/ \E k \in LocalsLike(bucket, q) : LocalsLike(bucket', q) = LocalsLike(bucket, q) \ {k}
    PROVE  TranscriptInv'
  <1> USE DEF TranscriptInv
  <1>1. /\ UNCHANGED <<task, branch, rev, cache, live, conn, overtaken, missed>>
        /\ e.of \in Prompts /\ stream' \in Seq(Events) /\ known \in Nat \union {-1} /\ rev \in Nat
    BY EventType DEF Delivered, TypeOK
  <1>2. TypeOK'
    BY <1>1 DEF TypeOK, Fetching
  <1>3. Shown(bucket)' = Shown(bucket)
    <2>1. Shown(bucket)' = Shown(bucket')
      BY DEF Shown, OfKind, Filtered, Place, UpTo
    <2> QED
      BY <2>1
  <1>4. ServerSound'
    BY <1>1 DEF ServerSound, Looping, InFlight
  <1>5. ResponsesSound'
    BY <1>1 DEF ResponsesSound
  <1>6. BrowserSound'
    <2>1. \A r \in Responses : r.rev \in Nat
      BY FetchType, HistoryType
    <2> QED
      BY <1>1, <1>3, <2>1 DEF BrowserSound
  <1>7. StreamSound'
    BY DeliverStream DEF Message
  <1>8. InStep'
    <2>1. \A k \in DOMAIN bucket' : bucket'[k].kind \in {"canonical", "live"} =>
                \/ \E j \in DOMAIN bucket : bucket[j] = bucket'[k]
                \/ e.type \in Showing /\ bucket'[k].of = e.of
      BY DEF Message, Showing
    <2> QED
      BY <1>3, <2>1, DeliverInStep
  <1>9. LocalsCounted'
    <2> SUFFICES ASSUME missed' = "no", NEW q \in Prompts
                 PROVE  Cardinality(LocalsLike(bucket', q)) <= Cardinality((Unconfirming(q))')
      BY DEF LocalsCounted, LocalsLike, OfKind
    <2> QED
      BY <1>1, DeliverLocals
  <1> QED
    BY <1>2, <1>4, <1>5, <1>6, <1>7, <1>8, <1>9

LEMMA DeliverKeeps ==
    ASSUME TranscriptInv, Deliver
    PROVE  TranscriptInv'
  <1> DEFINE event == Head(stream)
  <1>1. PICK e : e = event
    OBVIOUS
  <1>2. Delivered(e)
    BY <1>1, DeliverEvent DEF TranscriptInv
  <1>3. /\ e.of \in Prompts /\ e.rev \in Nat /\ e.rev <= rev
        /\ e.type \in {"started", "live", "completed", "failed"}
    BY <1>2, EventType DEF Delivered, TranscriptInv, StreamSound, EventSound
  <1>4. /\ bucket \in Seq(Messages) /\ known \in Nat \union {-1} /\ rev \in Nat /\ known <= rev
        /\ fetch \in [Fetches -> Fetching] /\ working \in BOOLEAN
    BY DEF TranscriptInv, TypeOK, Fetching, BrowserSound
  <1>5. Message("canonical", e.of) \in Messages /\ Message("live", e.of) \in Messages
        /\ Message("live", e.of).kind = "live" /\ "live" \notin EntryKinds
    BY <1>3, MessagesType DEF EntryKinds
  <1>6. \A q : Cardinality(LocalsLike(bucket, q)) <= Cardinality(LocalsLike(bucket, q))
    BY <1>4, LocalsType
  <1>7. fetch' = fetch => Responses' \subseteq Responses
    BY DEF Responses
  <1>8. CASE e.type = "started"
    <2>1. bucket' = Confirm(bucket, e.of) /\ UNCHANGED <<known, working, fetch>>
      BY <1>1, <1>8 DEF Deliver
    <2>2. \A k \in DOMAIN bucket : bucket[k] # Message("canonical", e.of)
      BY <1>2, <1>8 DEF Delivered, TranscriptInv, StreamSound, EventSound, StartedOnce
    <2>3. /\ bucket' \in Seq(Messages) /\ Shown(bucket') = Shown(bucket)
          /\ \A k \in DOMAIN bucket' :
               \/ bucket'[k] = Message("canonical", e.of)
               \/ \E j \in DOMAIN bucket : bucket'[k] = bucket[j]
      BY <1>3, <1>4, <2>1, ConfirmTranscript
    <2>4. ASSUME NEW q \in Prompts, SameText(e.of, q)
          PROVE  \/ LocalsLike(bucket', q) = {}
                 \/ \E k \in LocalsLike(bucket, q) :
                        LocalsLike(bucket', q) = LocalsLike(bucket, q) \ {k}
      <3>1. LocalsLike(bucket', q) \subseteq LocalsLike(bucket, q)
        BY <1>3, <1>4, <2>1, ConfirmTranscript
      <3>2. \A r : SameText(e.of, r) =>
                \/ LocalsLike(bucket, r) = {}
                \/ \E k \in LocalsLike(bucket, r) :
                    LocalsLike(Confirm(bucket, e.of), r) = LocalsLike(bucket, r) \ {k}
        <4>1. e.of \in Prompts /\ bucket \in Seq(Messages)
          BY <1>3, <1>4
        <4> QED
          BY ONLY <2>2, <4>1, ConfirmTranscript
      <3> QED
        BY <2>1, <2>4, <3>1, <3>2
    <2>5. ASSUME NEW q \in Prompts
          PROVE  Cardinality(LocalsLike(bucket', q)) <= Cardinality(LocalsLike(bucket, q))
      <3>1. LocalsLike(bucket', q) \subseteq LocalsLike(bucket, q)
        BY <1>3, <1>4, <2>1, ConfirmTranscript
      <3> QED
        BY <1>4, <3>1, LocalsType, FS_Subset
    <2>6. Asks(e)
      BY <1>8, <2>1 DEF Asks
    <2>7. /\ known' \in Int /\ known' >= known /\ known' <= rev /\ working' \in BOOLEAN
          /\ fetch' \in [Fetches -> Fetching] /\ Responses' \subseteq Responses
      BY <1>4, <1>7, <2>1
    <2>8. \A k \in DOMAIN bucket' :
            \/ \E j \in DOMAIN bucket : bucket[j] = bucket'[k]
            \/ e.type = "started" /\ bucket'[k] = Message("canonical", e.of)
      BY <1>8, <2>3
    <2> QED
      BY <1>2, <2>3, <2>4, <2>5, <2>6, <2>7, <2>8, EventKeeps
  <1>9. CASE e.type = "live"
    <2>1. bucket' = ShowAnswer(bucket, e.of) /\ UNCHANGED <<known, working, fetch>>
      BY <1>1, <1>9 DEF Deliver
    <2>2. bucket' = bucket \/ bucket' = Append(bucket, Message("live", e.of))
      BY <2>1 DEF ShowAnswer
    <2>3. /\ bucket' \in Seq(Messages) /\ Shown(bucket') = Shown(bucket)
          /\ \A k \in DOMAIN bucket' :
               \/ bucket'[k] = Message("live", e.of)
               \/ \E j \in DOMAIN bucket : bucket'[k] = bucket[j]
          /\ \A q : LocalsLike(bucket', q) = LocalsLike(bucket, q)
      <3>1. CASE bucket' = bucket
        BY <1>4, <3>1
      <3>2. CASE bucket' = Append(bucket, Message("live", e.of))
        BY <1>4, <1>5, <3>2, AppendToTranscript
      <3> QED
        BY <2>2, <3>1, <3>2
    <2>4. \A q : Cardinality(LocalsLike(bucket', q)) <= Cardinality(LocalsLike(bucket, q))
      BY <1>6, <2>3
    <2>5. Asks(e)
      BY <1>9, <2>1 DEF Asks
    <2> QED
      BY <1>2, <1>4, <1>7, <1>9, <2>1, <2>3, <2>4, <2>5, EventKeeps
  <1>10. CASE e.type = "completed"
    <2>1. /\ working' = FALSE /\ UNCHANGED <<bucket, known>>
          /\ IF e.rev > known THEN Ask4History ELSE UNCHANGED fetch
      BY <1>1, <1>10 DEF Deliver
    <2>2. Asks(e) /\ fetch' \in [Fetches -> Fetching] /\ Responses' \subseteq Responses
      <3>1. CASE e.rev > known
        BY <2>1, <3>1, AskFacts DEF Asks, TranscriptInv
      <3>2. CASE ~(e.rev > known)
        BY <1>3, <1>4, <1>7, <1>10, <2>1, <3>2 DEF Asks
      <3> QED
        BY <3>1, <3>2
    <2>3. \A q : Cardinality(LocalsLike(bucket', q)) <= Cardinality(LocalsLike(bucket, q))
      BY <1>6, <2>1
    <2>4. \A k \in DOMAIN bucket' : \E j \in DOMAIN bucket : bucket[j] = bucket'[k]
      BY <2>1
    <2>5. Shown(bucket') = Shown(bucket)
      BY <2>1
    <2>6. /\ known' \in Int /\ known' >= known /\ known' <= rev /\ working' \in BOOLEAN
          /\ bucket' \in Seq(Messages) /\ e.type # "started"
      <3>1. known' = known /\ working' = FALSE /\ bucket' = bucket
        BY <2>1
      <3>2. known \in Int /\ known >= known /\ known <= rev
        BY <1>4
      <3> QED
        BY <1>4, <1>10, <3>1, <3>2
    <2> QED
      BY <1>2, <2>2, <2>3, <2>4, <2>5, <2>6, EventKeeps
  <1>11. CASE e.type = "failed"
    <2>1. /\ working' = FALSE /\ bucket' = RemovePrompt(bucket, e.of)
          /\ known' = Max({known, e.rev}) /\ Ask4History
      BY <1>1, <1>11 DEF Deliver
    <2>2. Asks(e) /\ fetch' \in [Fetches -> Fetching] /\ Responses' \subseteq Responses
      BY <2>1, AskFacts DEF Asks, TranscriptInv
    <2>3. known' \in Int /\ known' >= known /\ known' <= rev
      <3>1. known \in Int /\ e.rev \in Int
        BY <1>3, <1>4
      <3>2. known' \in {known, e.rev} /\ known' >= known
        BY <2>1, <3>1, MaxOfTwo
      <3> QED
        BY <1>3, <1>4, <3>1, <3>2
    <2>4. /\ bucket' \in Seq(Messages) /\ Shown(bucket') = Shown(bucket)
          /\ \A k \in DOMAIN bucket' : \E j \in DOMAIN bucket : bucket'[k] = bucket[j]
          /\ \A q : Cardinality(LocalsLike(bucket', q)) <= Cardinality(LocalsLike(bucket, q))
      BY <1>4, <2>1, RemoveFromTranscript
    <2> QED
      BY <1>2, <1>11, <2>1, <2>2, <2>3, <2>4, EventKeeps
  <1> QED
    BY <1>3, <1>8, <1>9, <1>10, <1>11

LEMMA StartsSound ==
    Init => TranscriptInv
  <1> SUFFICES ASSUME Init
               PROVE  TranscriptInv
    OBVIOUS
  <1> USE DEF Init
  <1>1. OfKind(bucket, {"canonical", "live"}) = {} /\ OfKind(bucket, {"canonical"}) = {}
        /\ OfKind(bucket, EntryKinds) = {} /\ \A p : LocalsLike(bucket, p) = {}
    BY DEF OfKind, LocalsLike
  <1>2. Responses = {} /\ InFlight = {} /\ Looping = {}
    BY DEF Responses, Idle, InFlight, Looping
  <1>3. bucket \in Seq(Messages) /\ Len(Shown(bucket)) = 0 /\ DOMAIN Shown(bucket) = {}
    <2>1. bucket \in Seq(Messages)
      OBVIOUS
    <2>2. Len(Shown(bucket)) = 0 /\ DOMAIN Shown(bucket) = 1..Len(Shown(bucket))
      BY <1>1, <2>1, ShownType, FS_EmptySet
    <2> QED
      BY <2>1, <2>2
  <1>4. TypeOK
    <2>1. /\ task \in [Prompts -> Phases] /\ fetch \in [Fetches -> {Idle}]
          /\ branch \in Seq(Entries) /\ stream \in Seq(Events)
      BY DEF Phases
    <2> QED
      BY <1>3, <2>1 DEF TypeOK
  <1>5. ServerSound /\ ResponsesSound /\ StreamSound
    BY <1>1, <1>2 DEF ServerSound, ResponsesSound, StreamSound
  <1>6. BrowserSound
    BY <1>2, <1>3 DEF BrowserSound, IsPartOf
  <1>7. InStep
    BY <1>1 DEF InStep, InStepSince, Learns
  <1>8. LocalsCounted
    <2>1. Cardinality({}) = 0
      BY FS_EmptySet
    <2>2. \A p : Cardinality(Unconfirming(p)) \in Nat
      BY UnconfirmingType
    <2>3. ASSUME NEW p \in Prompts
          PROVE  Cardinality(LocalsLike(bucket, p)) <= Cardinality(Unconfirming(p))
      <3>1. Cardinality(LocalsLike(bucket, p)) = 0
        BY <1>1, <2>1
      <3> QED
        BY <2>2, <3>1
    <2> QED
      BY <2>3 DEF LocalsCounted
  <1> QED
    BY <1>4, <1>5, <1>6, <1>7, <1>8 DEF TranscriptInv

-------------------------------------------------------------------------------
(* Theorems *)

LEMMA TranscriptStep ==
    TranscriptInv /\ [Next]_vars => TranscriptInv'
  <1> SUFFICES ASSUME TranscriptInv, [Next]_vars
               PROVE  TranscriptInv'
    OBVIOUS
  <1>1. ASSUME NEW p \in Prompts, Submit(p)
        PROVE  TranscriptInv'
    BY <1>1, SubmitKeeps
  <1>2. ASSUME NEW p \in Prompts, SubmitElsewhere(p) \/ Handle(p) \/ Run(p) \/ Delta(p)
        PROVE  TranscriptInv'
    BY <1>2, ServerKeeps
  <1>3. ASSUME NEW i \in Fetches, ReadHistory(i)
        PROVE  TranscriptInv'
    BY <1>3, ReadKeeps
  <1>4. ASSUME NEW i \in Fetches, Arrive(i)
        PROVE  TranscriptInv'
    BY <1>4, ArriveKeeps
  <1>5. CASE Open
    BY <1>5, OpenKeeps
  <1>6. CASE Deliver
    BY <1>6, DeliverKeeps
  <1>7. CASE Connect \/ UNCHANGED vars
    BY <1>7, ConnectKeeps
  <1>8. CASE Disconnect
    BY <1>8, DisconnectKeeps
  <1> QED
    BY <1>1, <1>2, <1>3, <1>4, <1>5, <1>6, <1>7, <1>8 DEF Next

(* In every reachable state the cached history and those under way are parts *)
(* of the branch, in the order of their revisions; whatever a browser shows  *)
(* of turns since the history it took last is going to be replaced, and a    *)
(* newer revision is going to be told to it; and its unconfirmed messages    *)
(* are counted by prompts that are not known to it to have started           *)
(* (getHistory of session-controller.ts, refreshHistory of the browser's     *)
(* agentaz-sessions.ts).                                                     *)
THEOREM TranscriptInvariant == Spec => []TranscriptInv
  BY StartsSound, TranscriptStep, PTL DEF Spec

(* When all has settled nothing can replace the history shown, so it is the  *)
(* newest, and nothing is left of what was shown until it was taken.         *)
LEMMA SettledMatches ==
    TranscriptInv => TranscriptMatchesBranch
  <1> SUFFICES ASSUME TranscriptInv, Settled
               PROVE  /\ ~overtaken => Confirmed(bucket) = branch
                      /\ missed = "no" => \A p \in Prompts :
                            Cardinality(LocalsLike(bucket, p)) <= Cardinality(Unanswered(p))
    BY DEF TranscriptMatchesBranch
  <1> USE DEF TranscriptInv
  <1>1. InFlight = {} /\ Looping = {} /\ DOMAIN stream = {}
    BY DEF Settled, InFlight, Looping
  <1>2. \A r : ~Coming(r)
    BY FetchType DEF Settled, Coming
  <1>3. /\ bucket \in Seq(Messages) /\ branch \in Seq(Entries)
        /\ rev \in Nat /\ known \in Nat \union {-1} /\ known <= rev
    BY DEF TypeOK, BrowserSound
  <1>4. PICK h \in {-1} \union 0..known : InStepSince(h)
    BY DEF Settled, InStep
  <1>5. h = known
    BY <1>2, <1>3, <1>4 DEF InStepSince
  <1>6. rev \in {0, h}
    BY <1>1, <1>2, <1>4 DEF InStepSince, Learns
  <1>7. Shown(bucket) = branch
    <2>1. CASE h = rev
      BY <1>1, <1>4, <2>1 DEF InStepSince, ServerSound
    <2>2. CASE rev = 0
      <3>1. branch = <<>>
        BY <2>2 DEF ServerSound
      <3>2. Len(Shown(bucket)) <= 0 /\ Len(Shown(bucket)) \in Nat /\ Shown(bucket) \in Seq(Messages)
        BY <1>3, <3>1, ShownType DEF BrowserSound, IsPartOf
      <3>3. Shown(bucket) = <<>>
        BY <3>2
      <3> QED
        BY <3>1, <3>3
    <2> QED
      BY <1>6, <2>1, <2>2
  <1>8. ASSUME ~overtaken
        PROVE  Confirmed(bucket) = branch
    <2>1. \A k \in OfKind(bucket, {"canonical", "live"}) : ~Replaced(bucket[k].of, h)
      BY <1>1, <1>2 DEF Replaced
    <2>2. \A k \in DOMAIN bucket : bucket[k].kind \notin {"canonical", "live"}
      BY <1>4, <1>8, <2>1 DEF InStepSince, OfKind
    <2>3. \A k \in DOMAIN bucket :
            bucket[k].kind \in {"user", "assistant", "local", "canonical", "live"}
      BY <1>3, MessagesType
    <2>4. DOMAIN bucket \ OfKind(bucket, {"local"}) = OfKind(bucket, {"user", "assistant"})
      BY <2>2, <2>3 DEF OfKind
    <2> QED
      BY <1>7, <2>4 DEF Confirmed, Shown
  <1>9. ASSUME missed = "no", NEW p \in Prompts
        PROVE  Cardinality(LocalsLike(bucket, p)) <= Cardinality(Unanswered(p))
    <2>1. \A q \in Own : q \in Prompts /\ task[q] # "posted"
      BY TranscriptsAssumption DEF Settled
    <2>2. Unconfirming(p) = Unanswered(p)
      BY <1>1, <2>1 DEF Unconfirming, Unanswered
    <2> QED
      BY <1>9, <2>2 DEF LocalsCounted
  <1> QED
    BY <1>8, <1>9

(* When nothing is under way any more the transcript is the session's branch,*)
(* each entry once, and of the messages shown before they were confirmed no  *)
(* more are left than prompts were refused or never started: what the test   *)
(* of revisions in refreshHistory and mergeHistoryWithOptimisticMessages are *)
(* for.                                                                      *)
THEOREM TranscriptSettles == Spec => []TranscriptMatchesBranch
  BY TranscriptInvariant, SettledMatches, PTL

LEMMA ShownKept ==
    ASSUME TranscriptInv, [Next]_vars
    PROVE  \/ Shown(bucket') = Shown(bucket)
           \/ \E i \in Fetches : Arrive(i) /\ Current(fetch[i].response)
  <1> USE DEF TranscriptInv
  <1>0. bucket \in Seq(Messages)
    BY DEF TypeOK
  <1>1. ASSUME NEW p \in Prompts, Submit(p)
        PROVE  Shown(bucket') = Shown(bucket)
    <2>1. Message("local", p) \in Messages /\ Message("local", p).kind \notin EntryKinds
      BY MessagesType DEF EntryKinds
    <2> QED
      BY <1>0, <1>1, <2>1, AppendToTranscript DEF Submit
  <1>2. ASSUME NEW p \in Prompts, SubmitElsewhere(p) \/ Handle(p) \/ Run(p) \/ Delta(p)
        PROVE  Shown(bucket') = Shown(bucket)
    <2>1. bucket' = bucket
      BY <1>2, ServerSteps DEF ServerMoves
    <2> QED
      BY <2>1
  <1>3. ASSUME NEW i \in Fetches, Arrive(i), ~Current(fetch[i].response)
        PROVE  Shown(bucket') = Shown(bucket)
    <2>1. bucket' = bucket
      BY <1>3 DEF Arrive
    <2> QED
      BY <2>1
  <1>4. CASE Deliver
    <2>1. PICK e : e = Head(stream) /\ Delivered(e)
      BY <1>4, DeliverEvent
    <2>2. /\ e.of \in Prompts /\ Message("live", e.of) \in Messages
          /\ Message("live", e.of).kind \notin EntryKinds
      BY <2>1, EventType, MessagesType DEF Delivered, EntryKinds
    <2>3. bucket' \in {Confirm(bucket, e.of), ShowAnswer(bucket, e.of), bucket,
                       RemovePrompt(bucket, e.of)}
      BY <1>4, <2>1 DEF Deliver
    <2>4. Shown(ShowAnswer(bucket, e.of)) = Shown(bucket)
      BY <1>0, <2>2, AppendToTranscript DEF ShowAnswer
    <2>5. Shown(Confirm(bucket, e.of)) = Shown(bucket)
      BY <1>0, <2>2, ConfirmTranscript
    <2>6. Shown(RemovePrompt(bucket, e.of)) = Shown(bucket)
      BY <1>0, RemoveFromTranscript
    <2> QED
      BY <2>3, <2>4, <2>5, <2>6
  <1>5. ASSUME \/ \E i \in Fetches : ReadHistory(i)
               \/ Open \/ Connect \/ Disconnect \/ UNCHANGED vars
        PROVE  Shown(bucket') = Shown(bucket)
    <2>1. bucket' = bucket
      BY <1>5 DEF ReadHistory, Open, Connect, Disconnect, vars, browser
    <2> QED
      BY <2>1
  <1> QED
    BY <1>1, <1>2, <1>3, <1>4, <1>5 DEF Next

LEMMA EntriesType ==
    ASSUME bucket \in Seq(Messages)
    PROVE  EntriesShown = Len(Shown(bucket)) /\ EntriesShown \in Nat
  BY ShownType DEF EntriesShown, EntryKinds

(* A history that is taken is never short of an entry that is shown: of the  *)
(* requests of refreshHistory that overtake each other the revisions tell    *)
(* which history is older.                                                   *)
THEOREM HistoryOnlyGrows == Spec => HistoryNeverGoesBack
  <1>1. ASSUME TranscriptInv, TranscriptInv', [Next]_vars
        PROVE  [EntriesShown' >= EntriesShown]_vars
    <2>1. bucket \in Seq(Messages) /\ bucket' \in Seq(Messages)
      BY <1>1 DEF TranscriptInv, TypeOK
    <2>2. EntriesShown = Len(Shown(bucket)) /\ EntriesShown \in Nat
      BY <2>1, EntriesType
    <2>3. EntriesShown' = Len(Shown(bucket'))
      BY <2>1, ShownType DEF EntriesShown, EntryKinds, OfKind
    <2>4. CASE Shown(bucket') = Shown(bucket)
      BY <2>2, <2>3, <2>4
    <2>5. ASSUME NEW i \in Fetches, Arrive(i), Current(fetch[i].response)
          PROVE  EntriesShown' >= EntriesShown
      <3>1. PICK r \in Responses : r = fetch[i].response /\ r \in Histories
        BY <1>1, <2>5, ArriveFacts DEF TranscriptInv
      <3>2. bucket' = Merge(bucket, r.messages) /\ r.rev >= known
        BY <2>5, <3>1 DEF Arrive, Current
      <3>3. Shown(bucket') = r.messages /\ Len(r.messages) \in Nat
        BY <2>1, <3>1, <3>2, HistoryType, MergeTranscript
      <3>4. Len(Shown(bucket)) <= Len(r.messages)
        BY <1>1, <3>2 DEF TranscriptInv, BrowserSound
      <3> QED
        BY <2>2, <2>3, <3>3, <3>4
    <2> QED
      BY <1>1, <2>4, <2>5, ShownKept
  <1> QED
    BY <1>1, TranscriptInvariant, PTL DEF Spec, HistoryNeverGoesBack

(* Events that are sent are the last of the stream, unless the browser       *)
(* misses them.                                                              *)
LEMMA EmitKeepsEvents ==
    ASSUME TypeOK, NEW events \in Seq(Events), Emit(events)
    PROVE  missed' # "no" \/
             /\ missed = "no"
             /\ \A k \in DOMAIN stream : k \in DOMAIN stream' /\ stream'[k] = stream[k]
             /\ \A k \in DOMAIN events : \E l \in DOMAIN stream' : stream'[l] = events[k]
  <1>1. CASE missed' = "yes"
    BY <1>1
  <1>2. CASE stream' = stream \o events /\ UNCHANGED missed
    <2>1. /\ stream \in Seq(Events) /\ Len(stream) \in Nat /\ DOMAIN stream = 1..Len(stream)
          /\ Len(events) \in Nat /\ DOMAIN events = 1..Len(events)
          /\ DOMAIN stream' = 1..(Len(stream) + Len(events))
      BY <1>2 DEF TypeOK
    <2>2. \A k \in DOMAIN stream : k \in DOMAIN stream' /\ stream'[k] = stream[k]
      BY <1>2, <2>1
    <2>3. ASSUME NEW k \in DOMAIN events
          PROVE  \E l \in DOMAIN stream' : stream'[l] = events[k]
      <3>1. Len(stream) + k \in DOMAIN stream' /\ stream'[Len(stream) + k] = events[k]
        BY <1>2, <2>1, <2>3
      <3> QED
        BY <3>1
    <2> QED
      BY <1>2, <2>2, <2>3
  <1> QED
    BY <1>1, <1>2 DEF Emit

(* What frees the composer is there still after a step that sends events,    *)
(* unless it settles the prompt, and then is sent.                           *)
LEMMA EmitStillFrees ==
    ASSUME TypeOK, NEW p \in Own, Frees(p), NEW events \in Seq(Events), Emit(events),
           missed' = "no",
           NEW q \in Prompts, NEW phase \in Phases, Enter(q, phase),
           \/ phase \in {"posted", "unstarted", "prompting", "asked", "answered", "ended"}
           \/ \E k \in DOMAIN events : events[k].of = q /\ events[k].type \in Closing
    PROVE  Frees(p)'
  <1>1. /\ \A k \in DOMAIN stream : k \in DOMAIN stream' /\ stream'[k] = stream[k]
        /\ \A k \in DOMAIN events : \E l \in DOMAIN stream' : stream'[l] = events[k]
    BY EmitKeepsEvents
  <1>2. p \in Prompts /\ task' = [task EXCEPT ![q] = phase] /\ task \in [Prompts -> Phases]
    BY TranscriptsAssumption DEF Enter, TypeOK
  <1>3. CASE \E k \in DOMAIN stream : stream[k].of = p /\ stream[k].type \in Closing
    BY <1>1, <1>3 DEF Frees, Closing
  <1>4. CASE task[p] \in {"posted", "unstarted"} \/ p \in InFlight
    <2>1. CASE p # q
      BY <1>2, <1>4, <2>1 DEF Frees, InFlight
    <2>2. CASE p = q /\ phase \in {"posted", "unstarted", "prompting", "asked", "answered", "ended"}
      BY <1>2, <2>2 DEF Frees, InFlight
    <2>3. CASE p = q /\ \E k \in DOMAIN events : events[k].of = q /\ events[k].type \in Closing
      BY <1>1, <2>3 DEF Frees, Closing
    <2> QED
      BY <2>1, <2>2, <2>3
  <1> QED
    BY <1>3, <1>4 DEF Frees, Closing

LEMMA BlockedStep ==
    ASSUME TranscriptInv, BlockedByOwnPrompt, [Next]_vars
    PROVE  BlockedByOwnPrompt'
  <1> USE DEF TranscriptInv
  <1>0. TypeOK /\ \A p \in Own : p \in Prompts
    BY TranscriptsAssumption
  <1>1. ASSUME NEW p \in Prompts, Submit(p)
        PROVE  BlockedByOwnPrompt'
    <2>1. p \in Own /\ task'[p] = "posted"
      BY <1>0, <1>1 DEF Submit, Enter, TypeOK
    <2> QED
      BY <2>1 DEF BlockedByOwnPrompt, Frees
  <1>2. ASSUME NEW p \in Prompts, SubmitElsewhere(p) \/ Refuse(p)
        PROVE  BlockedByOwnPrompt'
    <2>1. /\ UNCHANGED <<stream, missed>>
          /\ working' => working /\ (task'[p] = "refused" => p \notin Own)
          /\ \A q \in Prompts : q # p => task'[q] = task[q]
          /\ (task[p] = "none" /\ task'[p] = "posted")
               \/ (task[p] = "posted" /\ task'[p] = "refused")
      <3>1. CASE SubmitElsewhere(p)
        <4>1. task[p] = "none"
          BY <3>1, TranscriptsAssumption DEF SubmitElsewhere, IsNext
        <4> QED
          BY <1>0, <3>1, <4>1 DEF SubmitElsewhere, Enter, TypeOK, browser
      <3>2. CASE Refuse(p)
        BY <1>0, <3>2 DEF Refuse, Enter, TypeOK
      <3> QED
        BY <1>2, <3>1, <3>2
    <2>2. SUFFICES ASSUME working', missed' = "no"
                   PROVE  \E q \in Own : Frees(q)'
      BY DEF BlockedByOwnPrompt
    <2>3. PICK q \in Own : Frees(q)
      BY <2>1, <2>2 DEF BlockedByOwnPrompt
    <2>4. Frees(q)'
      BY <1>0, <2>1, <2>2, <2>3 DEF Frees, InFlight
    <2> QED
      BY <2>4
  <1>3. ASSUME NEW p \in Prompts, NEW phase \in Phases, NEW events \in Seq(Events),
               Enter(p, phase), Emit(events), UNCHANGED working,
               \/ phase \in {"unstarted", "prompting", "asked", "answered", "ended"}
               \/ \E k \in DOMAIN events : events[k].of = p /\ events[k].type \in Closing
        PROVE  BlockedByOwnPrompt'
    <2>1. SUFFICES ASSUME working', missed' = "no"
                   PROVE  \E q \in Own : Frees(q)'
      BY DEF BlockedByOwnPrompt
    <2>2. missed = "no"
      BY <1>0, <1>3, <2>1, EmitKeepsEvents
    <2>3. PICK q \in Own : Frees(q)
      BY <1>3, <2>1, <2>2 DEF BlockedByOwnPrompt
    <2>4. Frees(q)'
      BY <1>0, <1>3, <2>1, <2>3, EmitStillFrees
    <2> QED
      BY <2>4
  <1>4. ASSUME NEW p \in Prompts, InitFails(p) \/ Start(p) \/ Run(p)
        PROVE  BlockedByOwnPrompt'
    <2>1. \E phase \in Phases, events \in Seq(Events) :
            /\ Enter(p, phase) /\ Emit(events)
            /\ \/ phase \in {"unstarted", "prompting", "asked", "answered", "ended"}
               \/ \E k \in DOMAIN events : events[k].of = p /\ events[k].type \in Closing
      <3>0. <<>> \in Seq(Events) /\ (Quiet => Emit(<<>>))
        BY <1>0 DEF Quiet, Emit, TypeOK
      <3>1. \A type \in {"live", "completed", "failed"}, q \in Prompts :
              Event(type, q) \in Events /\ <<Event(type, q)>> \in Seq(Events)
              /\ Event(type, q).of = q /\ Event(type, q).type = type
        BY <1>0 DEF Event, Events, TypeOK
      <3>2. CASE Start(p)
        <4>1. <<[Event("started", p) EXCEPT !.rev = rev']>> \in Seq(Events)
          BY <1>0, <3>2 DEF Start, Invalidate, Event, Events, TypeOK
        <4>2. Enter(p, "prompting") /\ Emit(<<[Event("started", p) EXCEPT !.rev = rev']>>)
          BY <3>2 DEF Start, ServerStep
        <4> QED
          BY <4>1, <4>2 DEF Phases
      <3>3. CASE InitFails(p) \/ Ask(p) \/ Answer(p)
        BY <3>0, <3>3 DEF InitFails, Ask, Answer, ServerStep, Phases
      <3>4. CASE AgentEnd(p)
        <4>1. /\ Enter(p, "ended") /\ live \in Prompts \union {None}
              /\ Emit(IF live = None THEN <<>> ELSE <<Event("live", live)>>)
          BY <1>0, <3>4 DEF AgentEnd, ServerStep, TypeOK
        <4>2. (IF live = None THEN <<>> ELSE <<Event("live", live)>>) \in Seq(Events)
          BY <3>0, <3>1, <4>1
        <4> QED
          BY <4>1, <4>2 DEF Phases
      <3>5. CASE Complete(p)
        <4>1. Enter(p, "settled") /\ Emit(<<Event("completed", p)>>) /\ "settled" \in Phases
          BY <3>5 DEF Complete, ServerStep, Phases
        <4>2. PICK events \in Seq(Events) : events = <<Event("completed", p)>>
          BY <3>1
        <4>3. 1 \in DOMAIN events /\ events[1].of = p /\ events[1].type \in Closing
          BY <3>1, <4>2 DEF Closing
        <4>4. Emit(events)
          BY <4>1, <4>2
        <4> QED
          BY <4>1, <4>3, <4>4
      <3>6. CASE Fail(p)
        <4>1. Enter(p, "settled") /\ Emit(<<Event("failed", p)>>) /\ "settled" \in Phases
          BY <3>6 DEF Fail, ServerStep, Phases
        <4>2. PICK events \in Seq(Events) : events = <<Event("failed", p)>>
          BY <3>1
        <4>3. 1 \in DOMAIN events /\ events[1].of = p /\ events[1].type \in Closing
          BY <3>1, <4>2 DEF Closing
        <4>4. Emit(events)
          BY <4>1, <4>2
        <4> QED
          BY <4>1, <4>3, <4>4
      <3> QED
        BY <1>4, <3>2, <3>3, <3>4, <3>5, <3>6 DEF Run
    <2>2. UNCHANGED working
      BY <1>4 DEF InitFails, Start, Run, Ask, Answer, AgentEnd, Complete, Fail, ServerStep, browser
    <2> QED
      BY <1>3, <2>1, <2>2
  <1>5. ASSUME NEW p \in Prompts, Delta(p)
        PROVE  BlockedByOwnPrompt'
    <2>1. /\ Emit(<<Event("live", p)>>) /\ UNCHANGED <<task, working>>
          /\ <<Event("live", p)>> \in Seq(Events)
      BY <1>0, <1>5 DEF Delta, browser, Event, Events, TypeOK
    <2>2. SUFFICES ASSUME working', missed' = "no"
                   PROVE  \E q \in Own : Frees(q)'
      BY DEF BlockedByOwnPrompt
    <2>3. /\ missed = "no"
          /\ \A k \in DOMAIN stream : k \in DOMAIN stream' /\ stream'[k] = stream[k]
      BY <1>0, <2>1, <2>2, EmitKeepsEvents
    <2>4. PICK q \in Own : Frees(q)
      BY <2>1, <2>2, <2>3 DEF BlockedByOwnPrompt
    <2>5. Frees(q)'
      BY <2>1, <2>3, <2>4 DEF Frees, InFlight
    <2> QED
      BY <2>5
  <1>6. CASE Deliver
    <2>1. PICK e : e = Head(stream) /\ Delivered(e)
      BY <1>6, DeliverEvent
    <2>2. SUFFICES ASSUME working', missed' = "no"
                   PROVE  \E q \in Own : Frees(q)'
      BY DEF BlockedByOwnPrompt
    <2>3. e.type \notin Closing /\ UNCHANGED <<task, missed, working>>
      BY <1>6, <2>1, <2>2 DEF Deliver, BrowserUnchanged, server, Closing
    <2>4. PICK q \in Own : Frees(q)
      BY <2>2, <2>3 DEF BlockedByOwnPrompt
    <2>5. ASSUME NEW k \in DOMAIN stream, stream[k].of = q, stream[k].type \in Closing
          PROVE  \E l \in DOMAIN stream' : stream'[l].of = q /\ stream'[l].type \in Closing
      <3>1. stream \in Seq(Events) /\ stream # <<>> /\ stream' = Tail(stream)
        BY <1>0, <1>6 DEF Deliver, TypeOK
      <3>2. k # 1
        BY <2>1, <2>3, <2>5, <3>1
      <3>3. k - 1 \in DOMAIN stream' /\ stream'[k - 1] = stream[k]
        BY <2>5, <3>1, <3>2
      <3> QED
        BY <2>5, <3>3
    <2>6. Frees(q)'
      BY <2>3, <2>4, <2>5 DEF Frees, InFlight, Closing
    <2> QED
      BY <2>6
  <1>7. ASSUME \/ \E i \in Fetches : ReadHistory(i)
               \/ Open \/ Connect \/ UNCHANGED vars
        PROVE  BlockedByOwnPrompt'
    <2>1. UNCHANGED <<task, stream, working, missed>>
      BY <1>7 DEF ReadHistory, Open, Connect, vars, browser, server, BrowserUnchanged
    <2> QED
      BY <2>1 DEF BlockedByOwnPrompt, Frees, InFlight
  <1>8. ASSUME NEW i \in Fetches, Arrive(i)
        PROVE  BlockedByOwnPrompt'
    <2>1. UNCHANGED <<task, stream, working>> /\ (missed' = "no" => missed = "no")
      BY <1>8 DEF Arrive, server, BrowserUnchanged
    <2> QED
      BY <2>1 DEF BlockedByOwnPrompt, Frees, InFlight
  <1>9. CASE Disconnect
    <2>1. UNCHANGED <<task, working>> /\ (missed' = "no" => missed = "no" /\ stream = <<>>)
      BY <1>9 DEF Disconnect, server, browser
    <2> QED
      BY <2>1 DEF BlockedByOwnPrompt, Frees, InFlight
  <1> QED
    BY <1>1, <1>2, <1>4, <1>5, <1>6, <1>7, <1>8, <1>9 DEF Next, Handle

(* A blocked composer is freed by something that is yet to come, unless an    *)
(* event was lost or the prompt's initialisation failed: turns of others, and *)
(* responses that overtake each other, do not block it (sendPrompt of         *)
(* agentaz-sessions.ts, turn_completed and turn_failed of agentaz-events.ts). *)
THEOREM ComposerHasItsTurn == Spec => []BlockedByOwnPrompt
  <1>1. Init => BlockedByOwnPrompt
    BY DEF Init, BlockedByOwnPrompt
  <1>2. TranscriptInv /\ BlockedByOwnPrompt /\ [Next]_vars => BlockedByOwnPrompt'
    BY BlockedStep
  <1> QED
    BY <1>1, <1>2, TranscriptInvariant, PTL DEF Spec
===============================================================================
