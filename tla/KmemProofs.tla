----------------------------- MODULE KmemProofs -----------------------------
(***************************************************************************)
(* The allocator's invariants for every memory size and any finite set of  *)
(* owners, and that it implements FrameOwnership.                          *)
(***************************************************************************)
EXTENDS Kmem, TLAPS, FiniteSetTheorems

ElementsOf(s) == {s[i] : i \in 1 .. Len(s)}
NoRepeat(s) == \A i, j \in 1 .. Len(s) : s[i] = s[j] => i = j

(***************************************************************************)
(* The inductive invariant: the checked invariants, together with the      *)
(* meaning of occupiedPages and the fact that pages kinit2 has not yet     *)
(* released have no references.                                            *)
(***************************************************************************)
OccupiedExact == occupiedPages = Cardinality({f \in Frames : ref[f] > 0})
UnreleasedUnused == \A f \in Frames \ Released : ref[f] = 0

KmemInv ==
  /\ TypeOK
  /\ RefsExact
  /\ FreelistExact
  /\ SoleOwnerFrees
  /\ OccupiedExact
  /\ UnreleasedUnused

-----------------------------------------------------------------------------
\* Taking the head of a list without repetitions removes just that element.
LEMMA TailFacts ==
  ASSUME NEW S, NEW s \in Seq(S), s # <<>>, NoRepeat(s)
  PROVE  /\ Head(s) \in S
         /\ Head(s) \in ElementsOf(s)
         /\ Tail(s) \in Seq(S)
         /\ NoRepeat(Tail(s))
         /\ ElementsOf(Tail(s)) = ElementsOf(s) \ {Head(s)}
<1>1. Len(s) \in Nat /\ Len(s) > 0 /\ Head(s) = s[1]
  OBVIOUS
<1>2. Tail(s) \in Seq(S) /\ Len(Tail(s)) = Len(s) - 1
      /\ \A i \in 1 .. Len(s) - 1 : Tail(s)[i] = s[i + 1]
  OBVIOUS
<1>3. NoRepeat(Tail(s))
  BY <1>1, <1>2 DEF NoRepeat
<1>4. ElementsOf(Tail(s)) \subseteq ElementsOf(s) \ {Head(s)}
  BY <1>1, <1>2 DEF NoRepeat, ElementsOf
<1>5. ASSUME NEW x \in ElementsOf(s) \ {Head(s)}
      PROVE  x \in ElementsOf(Tail(s))
  <2>1. PICK i \in 1 .. Len(s) : x = s[i]
    BY DEF ElementsOf
  <2>2. i # 1
    BY <1>1, <2>1
  <2>3. i - 1 \in 1 .. Len(s) - 1 /\ Tail(s)[i - 1] = s[i]
    BY <1>1, <1>2, <2>1, <2>2
  <2> QED
    BY <1>2, <2>1, <2>3 DEF ElementsOf
<1> QED
  BY <1>1, <1>2, <1>3, <1>4, <1>5 DEF ElementsOf

\* freerange lists each page of its range once.
LEMMA FreerangeFacts ==
  ASSUME NEW lo \in Nat, NEW hi \in Nat, lo <= hi,
         NEW S, lo .. hi - 1 \subseteq S
  PROVE  /\ freerange(lo, hi) \in Seq(S)
         /\ Len(freerange(lo, hi)) = hi - lo
         /\ NoRepeat(freerange(lo, hi))
         /\ ElementsOf(freerange(lo, hi)) = lo .. hi - 1
<1> DEFINE s == freerange(lo, hi)
<1>1. s \in Seq(S) /\ Len(s) = hi - lo
      /\ \A i \in 1 .. hi - lo : s[i] = hi - i
  BY DEF freerange
<1> HIDE DEF s
<1>2. NoRepeat(s)
  BY <1>1 DEF NoRepeat
<1>3. ASSUME NEW f \in lo .. hi - 1 PROVE f \in ElementsOf(s)
  <2>1. hi - f \in 1 .. Len(s) /\ s[hi - f] = f
    BY <1>1
  <2> QED
    BY <2>1 DEF ElementsOf
<1>4. ElementsOf(s) \subseteq lo .. hi - 1
  BY <1>1 DEF ElementsOf
<1> QED
  BY <1>1, <1>2, <1>3, <1>4 DEF s

\* A new member adds one to the size of a finite set.
LEMMA OneMore ==
  ASSUME NEW S, NEW x, IsFiniteSet(S), x \notin S
  PROVE  Cardinality(S \cup {x}) = Cardinality(S) + 1
BY FS_AddElement

\* Losing a member takes one from the size of a finite set.
LEMMA OneLess ==
  ASSUME NEW S, NEW x, IsFiniteSet(S), x \in S
  PROVE  Cardinality(S \ {x}) = Cardinality(S) - 1
BY FS_RemoveElement

\* Joining two lists with no element in common.
LEMMA ConcatFacts ==
  ASSUME NEW S, NEW s \in Seq(S), NEW t \in Seq(S), NoRepeat(s), NoRepeat(t),
         \A x \in ElementsOf(s) : x \notin ElementsOf(t)
  PROVE  /\ s \o t \in Seq(S)
         /\ NoRepeat(s \o t)
         /\ ElementsOf(s \o t) = ElementsOf(s) \cup ElementsOf(t)
<1> DEFINE u == s \o t
<1>1. /\ u \in Seq(S) /\ Len(s) \in Nat /\ Len(t) \in Nat
      /\ Len(u) = Len(s) + Len(t)
      /\ \A i \in 1 .. Len(s) : u[i] = s[i]
      /\ \A i \in Len(s) + 1 .. Len(u) : u[i] = t[i - Len(s)]
  OBVIOUS
<1> HIDE DEF u
<1>2. ASSUME NEW i \in 1 .. Len(t)
      PROVE  u[i + Len(s)] = t[i] /\ i + Len(s) \in 1 .. Len(u)
  <2>1. i + Len(s) \in Len(s) + 1 .. Len(u) /\ (i + Len(s)) - Len(s) = i
    BY <1>1
  <2> QED
    BY <1>1, <2>1
<1>3. ASSUME NEW i \in 1 .. Len(u), NEW j \in 1 .. Len(u), u[i] = u[j]
      PROVE  i = j
  <2>1. CASE i <= Len(s) /\ j <= Len(s)
    <3>1. i \in 1 .. Len(s) /\ j \in 1 .. Len(s)
      BY <1>1, <2>1
    <3>2. s[i] = s[j]
      BY <1>1, <1>3, <3>1
    <3> QED
      BY <3>1, <3>2 DEF NoRepeat
  <2>2. CASE i > Len(s) /\ j > Len(s)
    <3>1. i - Len(s) \in 1 .. Len(t) /\ j - Len(s) \in 1 .. Len(t)
          /\ t[i - Len(s)] = t[j - Len(s)]
      BY <1>1, <1>3, <2>2
    <3> QED
      BY <1>1, <3>1 DEF NoRepeat
  <2>3. CASE (i <= Len(s) /\ j > Len(s)) \/ (j <= Len(s) /\ i > Len(s))
    <3>1. ASSUME NEW k \in 1 .. Len(u), k <= Len(s)
          PROVE  u[k] \in ElementsOf(s)
      <4>1. k \in 1 .. Len(s) /\ u[k] = s[k]
        BY <1>1, <3>1
      <4> QED
        BY <4>1 DEF ElementsOf
    <3>2. ASSUME NEW k \in 1 .. Len(u), k > Len(s)
          PROVE  u[k] \in ElementsOf(t)
      <4>1. k - Len(s) \in 1 .. Len(t) /\ u[k] = t[k - Len(s)]
        BY <1>1, <3>2
      <4> QED
        BY <4>1 DEF ElementsOf
    <3> QED
      BY <1>3, <2>3, <3>1, <3>2
  <2> QED
    BY <1>1, <2>1, <2>2, <2>3
<1>4. ElementsOf(u) \subseteq ElementsOf(s) \cup ElementsOf(t)
  <2>1. ASSUME NEW k \in 1 .. Len(u)
        PROVE  u[k] \in ElementsOf(s) \cup ElementsOf(t)
    <3>1. CASE k <= Len(s)
      BY <1>1, <3>1 DEF ElementsOf
    <3>2. CASE k > Len(s)
      <4>1. k - Len(s) \in 1 .. Len(t) /\ u[k] = t[k - Len(s)]
        BY <1>1, <3>2
      <4> QED
        BY <4>1 DEF ElementsOf
    <3> QED
      BY <1>1, <3>1, <3>2
  <2> QED
    BY <2>1 DEF ElementsOf
<1>5. ElementsOf(s) \cup ElementsOf(t) \subseteq ElementsOf(u)
  BY <1>1, <1>2 DEF ElementsOf
<1> QED
  BY <1>1, <1>3, <1>4, <1>5 DEF u, NoRepeat

\* Putting a new element in front adds just that element.
LEMMA ConsFacts ==
  ASSUME NEW S, NEW s \in Seq(S), NEW x \in S, x \notin ElementsOf(s), NoRepeat(s)
  PROVE  /\ <<x>> \o s \in Seq(S)
         /\ NoRepeat(<<x>> \o s)
         /\ ElementsOf(<<x>> \o s) = ElementsOf(s) \cup {x}
<1> DEFINE u == <<x>>
<1>1. u \in Seq(S) /\ Len(u) = 1 /\ u[1] = x
  OBVIOUS
<1> HIDE DEF u
<1>2. ElementsOf(u) = {x} /\ NoRepeat(u)
  BY <1>1 DEF ElementsOf, NoRepeat
<1>3. \A y \in ElementsOf(u) : y \notin ElementsOf(s)
  BY <1>2
<1>4. /\ u \o s \in Seq(S)
      /\ NoRepeat(u \o s)
      /\ ElementsOf(u \o s) = ElementsOf(u) \cup ElementsOf(s)
  BY <1>1, <1>2, <1>3, ConcatFacts
<1> QED
  BY <1>2, <1>4 DEF u

-----------------------------------------------------------------------------
\* kinit1 leaves every early page on the list, once and unreferenced.
LEMMA InitInv == Init => KmemInv
<1> SUFFICES ASSUME Init PROVE KmemInv
  OBVIOUS
<1>2. EndPage .. SplitPage - 1 \subseteq Frames
  BY KmemAssumption DEF Frames
<1>1. /\ freelist \in Seq(Frames)
      /\ NoRepeat(freelist)
      /\ ElementsOf(freelist) = EndPage .. SplitPage - 1
  BY <1>2, KmemAssumption, FreerangeFacts DEF Init
<1>3. TypeOK
  BY <1>1 DEF Init, TypeOK
<1>4. RefsExact
  BY FS_EmptySet DEF Init, RefsExact
<1>5. FreelistExact
  BY <1>1, <1>2 DEF Init, FreelistExact, Released, ElementsOf, NoRepeat
<1>6. SoleOwnerFrees
  BY DEF Init, SoleOwnerFrees
<1>7. OccupiedExact
  <2>1. {f \in Frames : ref[f] > 0} = {}
    BY DEF Init
  <2> QED
    BY <2>1, FS_EmptySet DEF Init, OccupiedExact
<1>8. UnreleasedUnused
  BY DEF Init, UnreleasedUnused
<1> QED
  BY <1>3, <1>4, <1>5, <1>6, <1>7, <1>8 DEF KmemInv

\* The owners of a frame are finitely many, so its count is a number that is 0
\* just when there is none.
LEMMA OwnersFinite ==
  ASSUME TypeOK, NEW f \in Frames
  PROVE  /\ IsFiniteSet(owners[f])
         /\ Cardinality(owners[f]) \in Nat
         /\ Cardinality(owners[f]) = 0 <=> owners[f] = {}
<1>1. owners[f] \in SUBSET Owners
  BY DEF TypeOK
<1>2. IsFiniteSet(owners[f])
  BY <1>1, KmemAssumption, FS_Subset
<1> QED
  BY <1>2, FS_CardinalityType, FS_EmptySet

\* The used frames are a finite set.
LEMMA UsedFinite ==
  /\ IsFiniteSet(Frames)
  /\ IsFiniteSet({f \in Frames : ref[f] > 0})
<1>1. IsFiniteSet(Frames)
  BY KmemAssumption, FS_Interval DEF Frames
<1> QED
  BY <1>1, FS_Subset

\* kinit2 adds late pages, none of which was on the list or referenced.
LEMMA kinit2Inv == KmemInv /\ kinit2 => KmemInv'
<1> SUFFICES ASSUME KmemInv, kinit2 PROVE KmemInv'
  OBVIOUS
<1> DEFINE late == freerange(SplitPage, MAXPAGES)
<1>2. SplitPage .. MAXPAGES - 1 \subseteq Frames
  BY KmemAssumption DEF Frames
<1>1. /\ late \in Seq(Frames)
      /\ NoRepeat(late)
      /\ ElementsOf(late) = SplitPage .. MAXPAGES - 1
  BY <1>2, KmemAssumption, FreerangeFacts
<1> HIDE DEF late
<1>4. /\ freelist \in Seq(Frames) /\ NoRepeat(freelist)
      /\ ElementsOf(freelist) = {f \in EndPage .. SplitPage - 1 : ref[f] = 0}
  BY DEF KmemInv, TypeOK, FreelistExact, NoRepeat, ElementsOf, kinit2, Released
<1>5. \A f \in ElementsOf(late) : f \notin ElementsOf(freelist)
  BY <1>1, <1>4, KmemAssumption
<1>6. freelist' = late \o freelist
  BY DEF kinit2, late
<1>7. /\ freelist' \in Seq(Frames) /\ NoRepeat(freelist')
      /\ ElementsOf(freelist') = ElementsOf(late) \cup ElementsOf(freelist)
  <2>1. late \in Seq(Frames) /\ NoRepeat(late)
    BY <1>1
  <2>2. freelist \in Seq(Frames) /\ NoRepeat(freelist)
    BY <1>4
  <2>3. /\ late \o freelist \in Seq(Frames) /\ NoRepeat(late \o freelist)
        /\ ElementsOf(late \o freelist) = ElementsOf(late) \cup ElementsOf(freelist)
    BY <1>5, <2>1, <2>2, ConcatFacts
  <2> QED
    BY <1>6, <2>3
<1>8. Released' = Frames /\ \A f \in SplitPage .. MAXPAGES - 1 : ref[f] = 0
  BY <1>2, KmemAssumption DEF Released, kinit2, KmemInv, UnreleasedUnused
<1>9. ElementsOf(freelist') = {f \in Released' : ref'[f] = 0}
  BY <1>1, <1>4, <1>7, <1>8, KmemAssumption DEF kinit2, Frames
<1>10. FreelistExact'
  BY <1>7, <1>9 DEF FreelistExact, ElementsOf, NoRepeat
<1>11. TypeOK'
  BY <1>7 DEF KmemInv, TypeOK, kinit2
<1>12. RefsExact' /\ SoleOwnerFrees' /\ OccupiedExact'
  BY DEF KmemInv, kinit2, RefsExact, SoleOwnerFrees, OccupiedExact
<1>13. UnreleasedUnused'
  BY <1>8 DEF UnreleasedUnused
<1> QED
  BY <1>10, <1>11, <1>12, <1>13 DEF KmemInv

\* kalloc takes a frame nobody owns and makes the caller its only owner.
LEMMA kallocInv ==
  ASSUME KmemInv, NEW o \in Owners, kalloc(o)
  PROVE  KmemInv' /\ owners[Head(freelist)] = {} /\ Head(freelist) \in Released
<1> DEFINE r == Head(freelist)
<1>1. /\ freelist \in Seq(Frames) /\ freelist # <<>> /\ NoRepeat(freelist)
      /\ ElementsOf(freelist) = {f \in Released : ref[f] = 0}
  BY DEF KmemInv, TypeOK, FreelistExact, NoRepeat, ElementsOf, kalloc
<1>2. /\ r \in Frames /\ r \in Released /\ ref[r] = 0
      /\ freelist' \in Seq(Frames) /\ NoRepeat(freelist')
      /\ ElementsOf(freelist') = ElementsOf(freelist) \ {r}
  BY <1>1, TailFacts DEF kalloc
<1>3. owners[r] = {}
  BY <1>2, OwnersFinite DEF KmemInv, RefsExact
<1>4. /\ ref' = [ref EXCEPT ![r] = 1]
      /\ owners' = [owners EXCEPT ![r] = {o}]
      /\ occupiedPages' = occupiedPages + 1
      /\ UNCHANGED <<use_lock, freeing>> /\ Released' = Released
  BY <1>3 DEF kalloc, Released
<1> HIDE DEF r
<1>5. TypeOK'
  BY <1>2, <1>4 DEF KmemInv, TypeOK
<1>6. RefsExact'
  BY <1>2, <1>4, FS_Singleton DEF KmemInv, TypeOK, RefsExact
<1>7. FreelistExact'
  <2>1. {f \in Released' : ref'[f] = 0} = {f \in Released : ref[f] = 0} \ {r}
    BY <1>2, <1>4, KmemAssumption DEF KmemInv, TypeOK, Released, Frames
  <2> QED
    BY <1>1, <1>2, <2>1 DEF FreelistExact, NoRepeat, ElementsOf
<1>8. SoleOwnerFrees'
  BY <1>2, <1>3, <1>4 DEF KmemInv, TypeOK, SoleOwnerFrees
<1>9. OccupiedExact'
  <2>1. {f \in Frames : ref'[f] > 0} = {f \in Frames : ref[f] > 0} \cup {r}
    BY <1>2, <1>4 DEF KmemInv, TypeOK
  <2>2. r \notin {f \in Frames : ref[f] > 0}
    BY <1>2
  <2> QED
    BY <1>4, <2>1, <2>2, UsedFinite, FS_AddElement DEF KmemInv, OccupiedExact
<1>10. UnreleasedUnused'
  BY <1>2, <1>4 DEF KmemInv, TypeOK, UnreleasedUnused
<1> QED
  BY <1>2, <1>3, <1>5, <1>6, <1>7, <1>8, <1>9, <1>10 DEF KmemInv, r

\* incrementReferences adds one owner to a frame that already has one.
LEMMA incrementInv ==
  ASSUME KmemInv, NEW o \in Owners, NEW p \in Owners, NEW f \in Frames,
         incrementReferences(o, p, f)
  PROVE  KmemInv'
<1>1. /\ ref' = [ref EXCEPT ![f] = ref[f] + 1]
      /\ owners' = [owners EXCEPT ![f] = owners[f] \cup {p}]
      /\ UNCHANGED <<use_lock, freelist, occupiedPages, freeing>>
      /\ o \in owners[f] /\ p \notin owners[f] /\ freeing[o] = NoFrame
      /\ Released' = Released
  BY DEF incrementReferences, MayCall, Released
<1>2. ref[f] \in Nat /\ ref[f] > 0
  <2>1. ref[f] \in Nat /\ ref[f] = Cardinality(owners[f])
    BY DEF KmemInv, TypeOK, RefsExact
  <2> QED
    BY <1>1, <2>1, OwnersFinite DEF KmemInv
<1>3. TypeOK'
  BY <1>1, <1>2 DEF KmemInv, TypeOK
<1>4. RefsExact'
  <2>0. IsFiniteSet(owners[f]) /\ ref[f] = Cardinality(owners[f])
    BY OwnersFinite DEF KmemInv, RefsExact
  <2>1. Cardinality(owners[f] \cup {p}) = ref[f] + 1
    BY <1>1, <2>0, OneMore
  <2> QED
    BY <1>1, <2>1 DEF KmemInv, TypeOK, RefsExact
<1>5. FreelistExact'
  <2>1. {g \in Released' : ref'[g] = 0} = {g \in Released : ref[g] = 0}
    BY <1>1, <1>2, KmemAssumption DEF KmemInv, TypeOK, Released, Frames
  <2> QED
    BY <1>1, <2>1 DEF KmemInv, FreelistExact
<1>6. SoleOwnerFrees'
  BY <1>1 DEF KmemInv, TypeOK, SoleOwnerFrees
<1>7. OccupiedExact'
  <2>1. {g \in Frames : ref'[g] > 0} = {g \in Frames : ref[g] > 0}
    BY <1>1, <1>2 DEF KmemInv, TypeOK
  <2> QED
    BY <1>1, <2>1 DEF KmemInv, OccupiedExact
<1>8. UnreleasedUnused'
  BY <1>1, <1>2 DEF KmemInv, TypeOK, UnreleasedUnused
<1> QED
  BY <1>3, <1>4, <1>5, <1>6, <1>7, <1>8 DEF KmemInv

\* The decrement drops one of several owners, or leaves the last one, which is
\* then the one that frees.
LEMMA decrementInv ==
  ASSUME KmemInv, NEW o \in Owners, NEW f \in Frames,
         decrementReferencesAndGetPrevVal(o, f)
  PROVE  KmemInv'
<1>1. /\ o \in owners[f] /\ freeing[o] = NoFrame
      /\ UNCHANGED <<use_lock, freelist, occupiedPages>> /\ Released' = Released
  BY DEF decrementReferencesAndGetPrevVal, MayCall, Released
<1>2. ref[f] \in Nat /\ ref[f] > 0 /\ ref[f] = Cardinality(owners[f])
  <2>1. ref[f] \in Nat /\ ref[f] = Cardinality(owners[f])
    BY DEF KmemInv, TypeOK, RefsExact
  <2> QED
    BY <1>1, <2>1, OwnersFinite DEF KmemInv
<1>3. CASE ref[f] > 1
  <2>1. /\ ref' = [ref EXCEPT ![f] = ref[f] - 1]
        /\ owners' = [owners EXCEPT ![f] = owners[f] \ {o}]
        /\ UNCHANGED freeing
    BY <1>3 DEF decrementReferencesAndGetPrevVal, Shared
  <2>2. ref[f] - 1 \in Nat /\ ref[f] - 1 > 0
    BY <1>2, <1>3
  <2>3. TypeOK'
    BY <1>1, <2>1, <2>2 DEF KmemInv, TypeOK
  <2>4. RefsExact'
    <3>1. Cardinality(owners[f] \ {o}) = ref[f] - 1
      <4>1. IsFiniteSet(owners[f])
        BY OwnersFinite DEF KmemInv
      <4> QED
        BY <1>1, <1>2, <4>1, OneLess
    <3> QED
      BY <2>1, <3>1 DEF KmemInv, TypeOK, RefsExact
  <2>5. FreelistExact'
    <3>1. {g \in Released' : ref'[g] = 0} = {g \in Released : ref[g] = 0}
      BY <1>1, <1>2, <2>1, <2>2, KmemAssumption
         DEF KmemInv, TypeOK, Released, Frames
    <3> QED
      BY <1>1, <3>1 DEF KmemInv, FreelistExact
  <2>6. SoleOwnerFrees'
    <3>1. ASSUME NEW q \in Owners, freeing[q] = f PROVE FALSE
      <4>1. owners[f] = {q} /\ f # NoFrame
        BY <3>1, KmemAssumption DEF KmemInv, SoleOwnerFrees, Frames
      <4> QED
        BY <1>1, <3>1, <4>1
    <3> QED
      BY <2>1, <3>1 DEF KmemInv, TypeOK, SoleOwnerFrees
  <2>7. OccupiedExact'
    <3>1. {g \in Frames : ref'[g] > 0} = {g \in Frames : ref[g] > 0}
      BY <1>2, <2>1, <2>2 DEF KmemInv, TypeOK
    <3> QED
      BY <1>1, <3>1 DEF KmemInv, OccupiedExact
  <2>8. UnreleasedUnused'
    BY <1>1, <1>2, <2>1 DEF KmemInv, TypeOK, UnreleasedUnused
  <2> QED
    BY <2>3, <2>4, <2>5, <2>6, <2>7, <2>8 DEF KmemInv
<1>4. CASE ~(ref[f] > 1)
  <2>1. freeing' = [freeing EXCEPT ![o] = f] /\ UNCHANGED <<ref, owners>>
    BY <1>4 DEF decrementReferencesAndGetPrevVal, Shared
  <2>2. owners[f] = {o}
    <3>1. Cardinality(owners[f]) = 1
      BY <1>2, <1>4
    <3> QED
      BY <1>1, <3>1, OwnersFinite, FS_Singleton DEF KmemInv
  <2>3. TypeOK' /\ SoleOwnerFrees'
    BY <1>1, <2>1, <2>2 DEF KmemInv, TypeOK, SoleOwnerFrees
  <2>4. RefsExact' /\ FreelistExact' /\ OccupiedExact' /\ UnreleasedUnused'
    BY <1>1, <2>1 DEF KmemInv, RefsExact, FreelistExact, OccupiedExact,
                      UnreleasedUnused
  <2> QED
    BY <2>3, <2>4 DEF KmemInv
<1> QED
  BY <1>3, <1>4

\* kfree returns a frame with a single owner to the list.
LEMMA kfreeInv ==
  ASSUME KmemInv, NEW o \in Owners, kfree(o)
  PROVE  KmemInv' /\ freeing[o] \in Frames /\ o \in owners[freeing[o]]
<1> DEFINE f == freeing[o]
<1>1. f \in Frames /\ owners[f] = {o} /\ ref[f] = 1
  BY DEF KmemInv, TypeOK, SoleOwnerFrees, kfree
<1>2. /\ ref' = [ref EXCEPT ![f] = 0]
      /\ owners' = [owners EXCEPT ![f] = {}]
      /\ freeing' = [freeing EXCEPT ![o] = NoFrame]
      /\ freelist' = <<f>> \o freelist
      /\ occupiedPages' = occupiedPages - 1
      /\ UNCHANGED use_lock /\ Released' = Released
  BY <1>1 DEF kfree, Released, OccupiedAfterFree
<1> HIDE DEF f
<1>3. f \in Released
  BY <1>1 DEF KmemInv, UnreleasedUnused
<1>4. /\ freelist \in Seq(Frames) /\ NoRepeat(freelist)
      /\ ElementsOf(freelist) = {g \in Released : ref[g] = 0}
  BY DEF KmemInv, TypeOK, FreelistExact, NoRepeat, ElementsOf
<1>5. f \notin ElementsOf(freelist)
  BY <1>1, <1>4
<1>6. /\ freelist' \in Seq(Frames) /\ NoRepeat(freelist')
      /\ ElementsOf(freelist') = ElementsOf(freelist) \cup {f}
  <2>1. freelist \in Seq(Frames) /\ NoRepeat(freelist)
    BY <1>4
  <2>2. /\ <<f>> \o freelist \in Seq(Frames) /\ NoRepeat(<<f>> \o freelist)
        /\ ElementsOf(<<f>> \o freelist) = ElementsOf(freelist) \cup {f}
    BY <1>1, <1>5, <2>1, ConsFacts
  <2> QED
    BY <1>2, <2>2
<1>7. TypeOK'
  BY <1>2, <1>6 DEF KmemInv, TypeOK
<1>8. RefsExact'
  BY <1>1, <1>2, FS_EmptySet DEF KmemInv, TypeOK, RefsExact
<1>9. FreelistExact'
  <2>1. {g \in Released' : ref'[g] = 0} = {g \in Released : ref[g] = 0} \cup {f}
    BY <1>1, <1>2, <1>3, KmemAssumption DEF KmemInv, TypeOK, Released, Frames
  <2> QED
    BY <1>4, <1>6, <2>1 DEF FreelistExact, NoRepeat, ElementsOf
<1>10. SoleOwnerFrees'
  <2>1. ASSUME NEW q \in Owners, q # o, freeing[q] = f PROVE FALSE
    BY <1>1, <2>1, KmemAssumption DEF KmemInv, SoleOwnerFrees, Frames
  <2> QED
    BY <1>1, <1>2, <2>1 DEF KmemInv, TypeOK, SoleOwnerFrees
<1>11. OccupiedExact'
  <2>1. {g \in Frames : ref'[g] > 0} = {g \in Frames : ref[g] > 0} \ {f}
    BY <1>1, <1>2 DEF KmemInv, TypeOK
  <2>2. f \in {g \in Frames : ref[g] > 0}
    BY <1>1
  <2> QED
    BY <1>2, <2>1, <2>2, UsedFinite, FS_RemoveElement DEF KmemInv, OccupiedExact
<1>12. UnreleasedUnused'
  BY <1>1, <1>2 DEF KmemInv, TypeOK, UnreleasedUnused
<1> QED
  BY <1>1, <1>7, <1>8, <1>9, <1>10, <1>11, <1>12 DEF KmemInv, f

-----------------------------------------------------------------------------
\* KmemInv is preserved by every step of the allocator.
LEMMA NextInv == KmemInv /\ [Next]_vars => KmemInv'
<1> SUFFICES ASSUME KmemInv, [Next]_vars PROVE KmemInv'
  OBVIOUS
<1>1. CASE kinit2
  BY <1>1, kinit2Inv
<1>2. ASSUME NEW o \in Owners, kalloc(o) PROVE KmemInv'
  BY <1>2, kallocInv
<1>3. ASSUME NEW o \in Owners, kfree(o) PROVE KmemInv'
  BY <1>3, kfreeInv
<1>4. ASSUME NEW o \in Owners, NEW f \in Frames,
             decrementReferencesAndGetPrevVal(o, f)
      PROVE  KmemInv'
  BY <1>4, decrementInv
<1>5. ASSUME NEW o \in Owners, NEW p \in Owners, NEW f \in Frames,
             incrementReferences(o, p, f)
      PROVE  KmemInv'
  BY <1>5, incrementInv
<1>6. CASE UNCHANGED vars
  <2>1. /\ use_lock' = use_lock /\ freelist' = freelist /\ ref' = ref
        /\ occupiedPages' = occupiedPages /\ owners' = owners /\ freeing' = freeing
    BY <1>6 DEF vars
  <2>2. TypeOK'
    BY <2>1 DEF KmemInv, TypeOK
  <2>3. RefsExact'
    BY <2>1 DEF KmemInv, RefsExact
  <2>4. FreelistExact'
    <3>1. Released' = Released
      BY <2>1 DEF Released
    <3> QED
      BY <2>1, <3>1 DEF KmemInv, FreelistExact
  <2>5. SoleOwnerFrees'
    BY <2>1 DEF KmemInv, SoleOwnerFrees
  <2>6. OccupiedExact'
    BY <2>1 DEF KmemInv, OccupiedExact
  <2>7. UnreleasedUnused'
    BY <2>1 DEF KmemInv, UnreleasedUnused, Released
  <2> QED
    BY <2>2, <2>3, <2>4, <2>5, <2>6, <2>7 DEF KmemInv
<1> QED
  BY <1>1, <1>2, <1>3, <1>4, <1>5, <1>6 DEF Next

\* KmemInv holds in every reachable state of the allocator (kalloc.c).
THEOREM KmemInvariant == Spec => []KmemInv
<1>1. Init => KmemInv
  BY InitInv
<1>2. KmemInv /\ [Next]_vars => KmemInv'
  BY NextInv
<1> QED
  BY <1>1, <1>2, PTL DEF Spec

\* For every memory size and any owners, runArr[f].ref is the number of
\* references held to f (kalloc.c 114-170).
THEOREM RefsAlwaysExact == Spec => []RefsExact
<1>1. KmemInv => RefsExact
  BY DEF KmemInv
<1> QED
  BY <1>1, KmemInvariant, PTL

\* The free list holds exactly the unowned frames, each once: no frame leaks
\* and none is handed out twice (kalloc.c 63-133).
THEOREM FreelistAlwaysExact == Spec => []FreelistExact
<1>1. KmemInv => FreelistExact
  BY DEF KmemInv
<1> QED
  BY <1>1, KmemInvariant, PTL

\* Whoever is about to kfree a frame is its only owner, so kfree's reference
\* count panic is unreachable (kalloc.c 77-81).
THEOREM SoleOwnerAlwaysFrees == Spec => []SoleOwnerFrees
<1>1. KmemInv => SoleOwnerFrees
  BY DEF KmemInv
<1> QED
  BY <1>1, KmemInvariant, PTL

\* getNumberOfFreePages exceeds the unowned frames by exactly the pages of the
\* kernel image (kalloc.c 135-138).
THEOREM FreePagesReported == Spec => []FreePagesReport
<1>1. KmemInv => FreePagesReport
  <2> SUFFICES ASSUME KmemInv, use_lock = 1
               PROVE  getNumberOfFreePages =
                        Cardinality({f \in Frames : owners[f] = {}}) + EndPage
    BY DEF FreePagesReport
  <2> DEFINE used == {f \in Frames : ref[f] > 0}
             free == {f \in Frames : owners[f] = {}}
  <2>1. free = Frames \ used
    <3>1. ASSUME NEW f \in Frames PROVE owners[f] = {} <=> ~(ref[f] > 0)
      <4>1. ref[f] \in Nat /\ ref[f] = Cardinality(owners[f])
        BY DEF KmemInv, TypeOK, RefsExact
      <4>2. Cardinality(owners[f]) = 0 <=> owners[f] = {}
        BY OwnersFinite DEF KmemInv
      <4> QED
        BY <4>1, <4>2
    <3> QED
      BY <3>1
  <2>2. IsFiniteSet(Frames) /\ IsFiniteSet(used) /\ used \subseteq Frames
    BY UsedFinite
  <2>3. Cardinality(Frames) = MAXPAGES - EndPage
    <3>1. EndPage \in Int /\ MAXPAGES - 1 \in Int
      BY KmemAssumption
    <3>2. Cardinality(EndPage .. MAXPAGES - 1) =
            IF EndPage > MAXPAGES - 1 THEN 0 ELSE (MAXPAGES - 1) - EndPage + 1
      BY <3>1, FS_Interval
    <3> QED
      BY <3>2, KmemAssumption DEF Frames
  <2>4. occupiedPages = Cardinality(used)
    BY DEF KmemInv, OccupiedExact
  <2> HIDE DEF used, free
  <2>5. Cardinality(Frames \ used) = Cardinality(Frames) - Cardinality(Frames \cap used)
    BY <2>2, FS_Difference
  <2>6. Frames \cap used = used
    BY <2>2
  <2>7. Cardinality(used) \in Nat
    BY <2>2, FS_CardinalityType
  <2>8. Cardinality(free) = (MAXPAGES - EndPage) - occupiedPages
    BY <2>1, <2>3, <2>4, <2>5, <2>6
  <2>9. getNumberOfFreePages = Cardinality(free) + EndPage
    BY <2>4, <2>7, <2>8, KmemAssumption DEF getNumberOfFreePages
  <2> QED
    BY <2>9 DEF free
<1> QED
  BY <1>1, KmemInvariant, PTL

-----------------------------------------------------------------------------
\* A step of the allocator is a step of FrameOwnership or leaves who owns what
\* unchanged: kinit2 grows the pool, kalloc takes an unowned frame, the
\* decrement of a shared frame and kfree drop an owner.
LEMMA StepRefines ==
  ASSUME KmemInv, [Next]_vars
  PROVE  [Ownership!Next]_<<Released, owners>>
<1>1. CASE kinit2
  BY <1>1 DEF kinit2, Released, Ownership!Next, Ownership!Grow
<1>2. ASSUME NEW o \in Owners, kalloc(o)
      PROVE  Ownership!Next
  <2>1. /\ Head(freelist) \in Released /\ owners[Head(freelist)] = {}
        /\ Head(freelist) \in Frames
    BY <1>2, kallocInv, KmemAssumption DEF Released, Frames
  <2>2. Ownership!Take(o, Head(freelist))
    BY <1>2, <2>1 DEF kalloc, Released, Ownership!Take
  <2> QED
    BY <2>1, <2>2 DEF Ownership!Next
<1>3. ASSUME NEW o \in Owners, kfree(o)
      PROVE  Ownership!Next
  <2>1. freeing[o] \in Frames /\ o \in owners[freeing[o]]
    BY <1>3, kfreeInv
  <2>2. Ownership!Drop(o, freeing[o])
    BY <1>3, <2>1 DEF kfree, Released, Ownership!Drop
  <2> QED
    BY <2>1, <2>2 DEF Ownership!Next
<1>4. ASSUME NEW o \in Owners, NEW f \in Frames,
             decrementReferencesAndGetPrevVal(o, f)
      PROVE  [Ownership!Next]_<<Released, owners>>
  <2>1. CASE Shared(f)
    <3>1. Ownership!Drop(o, f)
      BY <1>4, <2>1 DEF decrementReferencesAndGetPrevVal, Released, Ownership!Drop
    <3> QED
      BY <3>1 DEF Ownership!Next
  <2>2. CASE ~Shared(f)
    BY <1>4, <2>2 DEF decrementReferencesAndGetPrevVal, Released
  <2> QED
    BY <2>1, <2>2
<1>5. ASSUME NEW o \in Owners, NEW p \in Owners, NEW f \in Frames,
             incrementReferences(o, p, f)
      PROVE  Ownership!Next
  <2>1. Ownership!Share(o, p, f)
    BY <1>5 DEF incrementReferences, Released, Ownership!Share
  <2> QED
    BY <2>1 DEF Ownership!Next
<1>6. CASE UNCHANGED vars
  BY <1>6 DEF vars, Released
<1> QED
  BY <1>1, <1>2, <1>3, <1>4, <1>5, <1>6 DEF Next

\* For every memory size and any owners, kalloc.c implements FrameOwnership: a
\* frame is handed out only when nobody owns it and stays with its owners
\* until each has dropped it.
THEOREM KmemImplementsOwnership == Spec => OwnershipSpec
<1>1. Init => Ownership!Init
  BY DEF Init, Released, Ownership!Init
<1>2. KmemInv /\ [Next]_vars => [Ownership!Next]_<<Released, owners>>
  BY StepRefines
<1> QED
  BY <1>1, <1>2, KmemInvariant, PTL DEF Spec, OwnershipSpec, Ownership!Spec
=============================================================================
