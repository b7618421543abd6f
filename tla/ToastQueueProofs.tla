--------------------------- MODULE ToastQueueProofs ---------------------------
(***************************************************************************)
(* What the operations of ToastQueue keep, for any number of toasts, keys  *)
(* and places on the screen.                                               *)
(***************************************************************************)
EXTENDS ToastQueue, FiniteSetTheorems, FunctionTheorems, SequenceTheorems, TLAPS

Toasts == [shown : Seq(ToastIds), activeKeys : [ToastKeys -> ToastIds \cup {NoToast}],
           keyById : [ToastIds -> ToastKeys \cup {NoKey}], timers : SUBSET ToastIds,
           cooling : SUBSET ToastKeys]

\* activeKeys and keyById are each other's inverse, a toast has a timer as long
\* as it has a key, and the toasts on the screen are different ones with timers.
KeysAndIds(t) ==
  /\ \A k \in ToastKeys : t.activeKeys[k] # NoToast => t.keyById[t.activeKeys[k]] = k
  /\ \A i \in ToastIds : t.keyById[i] # NoKey => t.activeKeys[t.keyById[i]] = i
  /\ \A i \in ToastIds : i \in t.timers <=> t.keyById[i] # NoKey

ShownOnce(t) ==
  /\ Len(t.shown) <= MaxShown
  /\ \A a \in 1..Len(t.shown) : t.shown[a] \in t.timers
  /\ \A a, b \in 1..Len(t.shown) : a # b => t.shown[a] # t.shown[b]

ToastInv(t) == t \in Toasts /\ KeysAndIds(t) /\ ShownOnce(t)

LEMMA NoToastsInv == ToastInv(NoToasts)
<1>1. NoToasts \in Toasts
  BY EmptySeq, ToastAssumption DEF NoToasts, Toasts
<1>2. KeysAndIds(NoToasts)
  BY DEF NoToasts, KeysAndIds
<1>3. ShownOnce(NoToasts)
  BY EmptySeq, ToastAssumption DEF NoToasts, ShownOnce
<1> QED BY <1>1, <1>2, <1>3 DEF ToastInv

\* A key that is not active leaves an id free: the ids in use belong to as many
\* other keys.
LEMMA FreeId ==
  ASSUME NEW t, ToastInv(t), NEW key \in ToastKeys, t.activeKeys[key] = NoToast
  PROVE  \E i \in ToastIds : t.keyById[i] = NoKey
<1> SUFFICES ASSUME \A i \in ToastIds : t.keyById[i] # NoKey PROVE FALSE
  OBVIOUS
<1> DEFINE others == ToastKeys \ {key}
<1>1. t.keyById \in [ToastIds -> ToastKeys \cup {NoKey}]
  BY DEF ToastInv, Toasts
<1>2. \A i \in ToastIds : t.keyById[i] \in ToastKeys /\ t.activeKeys[t.keyById[i]] = i
  BY <1>1 DEF ToastInv, KeysAndIds
<1>3. \A i \in ToastIds : t.keyById[i] # key
  BY <1>2, ToastAssumption
<1>4. t.keyById \in [ToastIds -> others]
  BY <1>1, <1>2, <1>3
<1>5. IsFiniteSet(others) /\ Cardinality(others) = Cardinality(ToastKeys) - 1
  BY ToastAssumption, FS_RemoveElement
<1>6. Cardinality(ToastIds) \in Nat /\ Cardinality(ToastKeys) \in Nat
  BY ToastAssumption, FS_CardinalityType
<1>7. Cardinality(others) < Cardinality(ToastIds)
  BY <1>5, <1>6, ToastAssumption
<1> HIDE DEF others
<1>8. PICK x, y \in ToastIds : x # y /\ t.keyById[x] = t.keyById[y]
  BY <1>4, <1>5, <1>7, ToastAssumption, FS_PigeonHole
<1> QED BY <1>2, <1>8

\* enqueueToast
LEMMA EnqueueKeepsToasts ==
  ASSUME NEW t, ToastInv(t), NEW key \in ToastKeys
  PROVE  ToastInv(EnqueueToast(t, key))
<1>1. CASE t.activeKeys[key] # NoToast \/ key \in t.cooling
  BY <1>1 DEF EnqueueToast
<1>2. CASE ~(t.activeKeys[key] # NoToast \/ key \in t.cooling)
  <2> DEFINE id == CHOOSE i \in ToastIds : t.keyById[i] = NoKey
             all == <<id>> \o t.shown
             sh == IF Len(all) > MaxShown THEN SubSeq(all, 1, MaxShown) ELSE all
             u == [shown |-> sh,
                   activeKeys |-> [t.activeKeys EXCEPT ![key] = id],
                   keyById |-> [t.keyById EXCEPT ![id] = key],
                   timers |-> t.timers \cup {id},
                   cooling |-> t.cooling \cup {key}]
  <2>1. EnqueueToast(t, key) = u
    BY <1>2 DEF EnqueueToast
  <2>2. id \in ToastIds /\ t.keyById[id] = NoKey
    BY <1>2, FreeId
  <2>3. /\ t.shown \in Seq(ToastIds) /\ t.activeKeys \in [ToastKeys -> ToastIds \cup {NoToast}]
        /\ t.keyById \in [ToastIds -> ToastKeys \cup {NoKey}]
        /\ t.timers \in SUBSET ToastIds /\ t.cooling \in SUBSET ToastKeys
        /\ KeysAndIds(t) /\ ShownOnce(t)
    BY DEF ToastInv, Toasts
  <2> HIDE DEF id
  <2>4. id \notin t.timers
    BY <2>2, <2>3 DEF KeysAndIds
  <2>5. <<id>> \in Seq(ToastIds) /\ Len(<<id>>) = 1 /\ <<id>>[1] = id
    BY <2>2
  <2>6. /\ all \in Seq(ToastIds) /\ Len(all) = Len(t.shown) + 1
        /\ \A a \in 1..Len(all) : all[a] = IF a = 1 THEN id ELSE t.shown[a - 1]
    <3>1. /\ all \in Seq(ToastIds)
          /\ Len(all) = 1 + Len(t.shown)
          /\ \A a \in 1..(1 + Len(t.shown)) : all[a] = IF a <= 1 THEN <<id>>[a] ELSE t.shown[a - 1]
      BY <2>3, <2>5, ConcatProperties
    <3>2. Len(t.shown) \in Nat
      BY <2>3, LenProperties
    <3> QED BY <2>5, <3>1, <3>2
  <2>7. Len(t.shown) \in Nat
    BY <2>3, LenProperties
  <2>8. /\ \A a \in 1..Len(all) : all[a] \in t.timers \cup {id}
        /\ \A a, b \in 1..Len(all) : a # b => all[a] # all[b]
    <3> HIDE DEF all
    <3>1. \A a \in 1..Len(all) : a # 1 => a - 1 \in 1..Len(t.shown)
      BY <2>6, <2>7
    <3>2. \A a \in 1..Len(t.shown) : t.shown[a] \in t.timers /\ t.shown[a] # id
      BY <2>3, <2>4 DEF ShownOnce
    <3>3. \A a \in 1..Len(all) : all[a] \in t.timers \cup {id}
      BY <2>6, <3>1, <3>2
    <3>4. ASSUME NEW a \in 1..Len(all), NEW b \in 1..Len(all), a # b PROVE all[a] # all[b]
      <4>1. CASE a = 1 \/ b = 1
        BY <4>1, <3>4, <3>1, <3>2, <2>6
      <4>2. CASE a # 1 /\ b # 1
        <5>1. a - 1 # b - 1
          BY <3>4, <2>6, <2>7
        <5> QED BY <4>2, <5>1, <3>1, <2>3, <2>6 DEF ShownOnce
      <4> QED BY <4>1, <4>2
    <3> QED BY <3>3, <3>4
  <2> HIDE DEF all
  <2>9. /\ sh \in Seq(ToastIds) /\ Len(sh) <= MaxShown /\ Len(sh) \in Nat /\ Len(sh) <= Len(all)
        /\ \A a \in 1..Len(sh) : sh[a] = all[a]
    <3>1. CASE Len(all) > MaxShown
      <4>1. \A a \in 1..MaxShown : all[a] \in ToastIds
        BY <3>1, <2>6, <2>7, ElementOfSeq, ToastAssumption
      <4>2. /\ SubSeq(all, 1, MaxShown) \in Seq(ToastIds)
            /\ Len(SubSeq(all, 1, MaxShown)) = IF 1 <= MaxShown THEN MaxShown - 1 + 1 ELSE 0
            /\ \A a \in 1..(MaxShown - 1 + 1) : SubSeq(all, 1, MaxShown)[a] = all[1 + a - 1]
        BY <4>1, ToastAssumption, SubSeqProperties
      <4>3. sh = SubSeq(all, 1, MaxShown)
        BY <3>1
      <4> HIDE DEF sh
      <4>4. Len(sh) = MaxShown
        BY <4>2, <4>3, ToastAssumption
      <4>5. \A a \in 1..MaxShown : sh[a] = all[a]
        BY <4>2, <4>3, ToastAssumption
      <4> QED BY <4>2, <4>3, <4>4, <4>5, <3>1, <2>6, <2>7, ToastAssumption
    <3>2. CASE ~(Len(all) > MaxShown)
      BY <3>2, <2>6, <2>7, ToastAssumption
    <3> QED BY <3>1, <3>2
  <2> HIDE DEF sh
  <2>10. u \in Toasts
    BY <2>2, <2>3, <2>9 DEF Toasts
  <2>11. KeysAndIds(u)
    <3>1. \A k \in ToastKeys : u.activeKeys[k] = IF k = key THEN id ELSE t.activeKeys[k]
      BY <2>3
    <3>2. \A i \in ToastIds : u.keyById[i] = IF i = id THEN key ELSE t.keyById[i]
      BY <2>3
    <3>3. u.timers = t.timers \cup {id}
      OBVIOUS
    <3> HIDE DEF u
    <3>4. ASSUME NEW k \in ToastKeys, u.activeKeys[k] # NoToast PROVE u.keyById[u.activeKeys[k]] = k
      BY <3>1, <3>2, <3>4, <2>2, <2>3, ToastAssumption DEF KeysAndIds
    <3>5. ASSUME NEW i \in ToastIds, u.keyById[i] # NoKey PROVE u.activeKeys[u.keyById[i]] = i
      <4>1. CASE i = id
        BY <4>1, <3>1, <3>2
      <4>2. CASE i # id
        <5>1. t.keyById[i] \in ToastKeys /\ t.activeKeys[t.keyById[i]] = i
          BY <4>2, <3>2, <3>5, <2>3 DEF KeysAndIds
        <5>2. t.keyById[i] # key
          BY <5>1, <1>2, ToastAssumption
        <5> QED BY <4>2, <3>1, <3>2, <5>1, <5>2
      <4> QED BY <4>1, <4>2
    <3>6. ASSUME NEW i \in ToastIds PROVE i \in u.timers <=> u.keyById[i] # NoKey
      BY <3>2, <3>3, <2>3, ToastAssumption DEF KeysAndIds
    <3> QED BY <3>4, <3>5, <3>6 DEF KeysAndIds
  <2>12. ShownOnce(u)
    <3>1. u.shown = sh /\ u.timers = t.timers \cup {id}
      OBVIOUS
    <3> HIDE DEF u
    <3>2. \A a \in 1..Len(sh) : a \in 1..Len(all)
      BY <2>9, <2>6, <2>7
    <3> QED BY <3>1, <3>2, <2>8, <2>9 DEF ShownOnce
  <2> QED BY <2>1, <2>10, <2>11, <2>12 DEF ToastInv
<1> QED BY <1>1, <1>2

\* dismissToast
LEMMA DismissKeepsToasts ==
  ASSUME NEW t, ToastInv(t), NEW id \in ToastIds
  PROVE  ToastInv(DismissToast(t, id))
<1> DEFINE sh == WithoutToast(t.shown, id)
           ks == [k \in ToastKeys |-> IF k = t.keyById[id] THEN NoToast ELSE t.activeKeys[k]]
           ids == [t.keyById EXCEPT ![id] = NoKey]
           u == [t EXCEPT !.timers = t.timers \ {id}, !.activeKeys = ks, !.keyById = ids, !.shown = sh]
<1>1. DismissToast(t, id) = u
  BY DEF DismissToast
<1>2. /\ t \in Toasts
      /\ t.shown \in Seq(ToastIds) /\ t.activeKeys \in [ToastKeys -> ToastIds \cup {NoToast}]
      /\ t.keyById \in [ToastIds -> ToastKeys \cup {NoKey}]
      /\ t.timers \in SUBSET ToastIds /\ t.cooling \in SUBSET ToastKeys
      /\ KeysAndIds(t) /\ ShownOnce(t) /\ Len(t.shown) \in Nat
      /\ \A a \in 1..Len(t.shown) : t.shown[a] \in ToastIds
  BY LenProperties, ElementOfSeq DEF ToastInv, Toasts
<1>3. Range(t.shown) = {t.shown[a] : a \in 1..Len(t.shown)}
  BY <1>2, RangeEquality
<1>4. /\ sh \in Seq(ToastIds) /\ Len(sh) \in Nat /\ Len(sh) <= Len(t.shown)
      /\ \A a \in 1..Len(sh) : sh[a] # id
      /\ \E f \in [1..Len(sh) -> 1..Len(t.shown)] :
           /\ \A a \in 1..Len(sh) : sh[a] = t.shown[f[a]]
           /\ \A a, b \in 1..Len(sh) : a # b => f[a] # f[b]
  <2>1. CASE id \notin Range(t.shown)
    <3>1. sh = t.shown
      BY <2>1 DEF WithoutToast
    <3> DEFINE f == [a \in 1..Len(t.shown) |-> a]
    <3>2. /\ f \in [1..Len(t.shown) -> 1..Len(t.shown)]
          /\ \A a \in 1..Len(t.shown) : f[a] = a
      OBVIOUS
    <3>3. \A a \in 1..Len(t.shown) : t.shown[a] # id
      BY <2>1, <1>3
    <3> HIDE DEF f, sh
    <3> QED BY <1>2, <3>1, <3>2, <3>3
  <2>2. CASE id \in Range(t.shown)
    <3> DEFINE n == Len(t.shown)
               c == CHOOSE a \in 1..Len(t.shown) : t.shown[a] = id
               left == SubSeq(t.shown, 1, c - 1)
               right == SubSeq(t.shown, c + 1, n)
    <3>1. c \in 1..n /\ t.shown[c] = id
      BY <2>2, <1>3
    <3>2. sh = left \o right
      BY <2>2 DEF WithoutToast, RemoveAt
    <3> HIDE DEF c, sh
    <3>3. /\ left \in Seq(ToastIds) /\ Len(left) = c - 1
          /\ \A a \in 1..(c - 1) : left[a] = t.shown[a]
      <4>1. \A a \in 1..(c - 1) : t.shown[a] \in ToastIds
        BY <1>2, <3>1
      <4>2. 1 \in Int /\ c - 1 \in Int
        BY <3>1
      <4>3. /\ left \in Seq(ToastIds)
            /\ Len(left) = IF 1 <= c - 1 THEN (c - 1) - 1 + 1 ELSE 0
            /\ \A a \in 1..((c - 1) - 1 + 1) : left[a] = t.shown[1 + a - 1]
        BY <4>1, <4>2, SubSeqProperties
      <4> HIDE DEF left
      <4> QED BY <4>3, <3>1
    <3>4. /\ right \in Seq(ToastIds) /\ Len(right) = n - c
          /\ \A a \in 1..(n - c) : right[a] = t.shown[c + a]
      <4>1. \A a \in (c + 1)..n : t.shown[a] \in ToastIds
        BY <1>2, <3>1
      <4>2. c + 1 \in Int /\ n \in Int
        BY <1>2, <3>1
      <4>3. /\ right \in Seq(ToastIds)
            /\ Len(right) = IF c + 1 <= n THEN n - (c + 1) + 1 ELSE 0
            /\ \A a \in 1..(n - (c + 1) + 1) : right[a] = t.shown[(c + 1) + a - 1]
        BY <4>1, <4>2, SubSeqProperties
      <4> HIDE DEF right
      <4> QED BY <4>3, <3>1, <1>2
    <3> HIDE DEF left, right
    <3>5. /\ left \o right \in Seq(ToastIds)
          /\ Len(left \o right) = Len(left) + Len(right)
          /\ \A a \in 1..(Len(left) + Len(right)) :
               (left \o right)[a] = IF a <= Len(left) THEN left[a] ELSE right[a - Len(left)]
      BY <3>3, <3>4, ConcatProperties
    <3> DEFINE f == [a \in 1..(n - 1) |-> IF a < c THEN a ELSE a + 1]
    <3>6. Len(sh) = n - 1 /\ sh \in Seq(ToastIds)
      BY <3>2, <3>3, <3>4, <3>5, <3>1, <1>2
    <3>7. ASSUME NEW a \in 1..(n - 1) PROVE sh[a] = t.shown[IF a < c THEN a ELSE a + 1]
      <4>1. a \in 1..(Len(left) + Len(right))
        BY <3>3, <3>4, <3>1, <1>2
      <4>2. CASE a < c
        <5>1. a <= Len(left) /\ a \in 1..(c - 1)
          BY <4>2, <3>3, <3>1, <1>2
        <5> QED BY <4>1, <4>2, <5>1, <3>2, <3>3, <3>5
      <4>3. CASE ~(a < c)
        <5>1. ~(a <= Len(left)) /\ a - Len(left) \in 1..(n - c) /\ c + (a - Len(left)) = a + 1
          BY <4>3, <3>3, <3>1, <1>2
        <5> QED BY <4>1, <4>3, <5>1, <3>2, <3>4, <3>5
      <4> QED BY <4>2, <4>3
    <3>8. /\ f \in [1..(n - 1) -> 1..n]
          /\ \A a \in 1..(n - 1) : f[a] = IF a < c THEN a ELSE a + 1
      BY <1>2, <3>1
    <3>9. \A a \in 1..(n - 1) : f[a] # c
      BY <3>8, <3>1, <1>2
    <3>10. \A a, b \in 1..(n - 1) : a # b => f[a] # f[b]
      BY <3>8, <3>1, <1>2
    <3>11. \A a \in 1..(n - 1) : sh[a] = t.shown[f[a]]
      BY <3>7, <3>8
    <3> HIDE DEF f
    <3>12. \A a \in 1..(n - 1) : sh[a] # id
      <4>1. \A a, b \in 1..n : a # b => t.shown[a] # t.shown[b]
        BY <1>2 DEF ShownOnce
      <4> HIDE DEF n
      <4> QED BY <4>1, <3>1, <3>8, <3>9, <3>11
    <3>13. n - 1 \in Nat /\ n - 1 <= n
      BY <1>2, <3>1
    <3> QED BY <3>6, <3>8, <3>10, <3>11, <3>12, <3>13
  <2> QED BY <2>1, <2>2
<1> HIDE DEF sh
<1>5. ks \in [ToastKeys -> ToastIds \cup {NoToast}] /\ ids \in [ToastIds -> ToastKeys \cup {NoKey}]
  BY <1>2
<1>6. /\ \A k \in ToastKeys : ks[k] = IF k = t.keyById[id] THEN NoToast ELSE t.activeKeys[k]
      /\ \A i \in ToastIds : ids[i] = IF i = id THEN NoKey ELSE t.keyById[i]
  BY <1>2
<1> HIDE DEF ks, ids
<1>7. u \in Toasts
  BY <1>2, <1>4, <1>5 DEF Toasts
<1>8. /\ u.timers = t.timers \ {id} /\ u.activeKeys = ks /\ u.keyById = ids /\ u.shown = sh
  BY <1>2 DEF Toasts
<1> HIDE DEF u
<1>9. KeysAndIds(u)
  <2>1. ASSUME NEW k \in ToastKeys, u.activeKeys[k] # NoToast PROVE u.keyById[u.activeKeys[k]] = k
    <3>1. k # t.keyById[id] /\ u.activeKeys[k] = t.activeKeys[k] /\ t.activeKeys[k] \in ToastIds
      BY <2>1, <1>2, <1>6, <1>8
    <3>2. t.keyById[t.activeKeys[k]] = k
      BY <2>1, <3>1, <1>2 DEF KeysAndIds
    <3> QED BY <3>1, <3>2, <1>6, <1>8
  <2>2. ASSUME NEW i \in ToastIds, u.keyById[i] # NoKey PROVE u.activeKeys[u.keyById[i]] = i
    <3>1. i # id /\ u.keyById[i] = t.keyById[i] /\ t.keyById[i] \in ToastKeys
      BY <2>2, <1>2, <1>6, <1>8
    <3>2. t.activeKeys[t.keyById[i]] = i
      BY <2>2, <3>1, <1>2 DEF KeysAndIds
    <3>3. t.keyById[id] # t.keyById[i]
      <4>1. t.keyById[id] # NoKey => t.activeKeys[t.keyById[id]] = id
        BY <1>2 DEF KeysAndIds
      <4> QED BY <4>1, <3>1, <3>2, ToastAssumption
    <3> QED BY <3>1, <3>2, <3>3, <1>6, <1>8
  <2>3. ASSUME NEW i \in ToastIds PROVE i \in u.timers <=> u.keyById[i] # NoKey
    BY <1>2, <1>6, <1>8 DEF KeysAndIds
  <2> QED BY <2>1, <2>2, <2>3 DEF KeysAndIds
<1>10. ShownOnce(u)
  <2>1. PICK f \in [1..Len(sh) -> 1..Len(t.shown)] :
           /\ \A a \in 1..Len(sh) : sh[a] = t.shown[f[a]]
           /\ \A a, b \in 1..Len(sh) : a # b => f[a] # f[b]
    BY <1>4
  <2>2. Len(sh) <= MaxShown
    BY <1>2, <1>4, ToastAssumption DEF ShownOnce
  <2>3. \A a \in 1..Len(sh) : sh[a] \in t.timers /\ sh[a] # id
    BY <2>1, <1>2, <1>4 DEF ShownOnce
  <2>4. \A a, b \in 1..Len(sh) : a # b => sh[a] # sh[b]
    BY <2>1, <1>2 DEF ShownOnce
  <2> QED BY <2>2, <2>3, <2>4, <1>8 DEF ShownOnce
<1> QED BY <1>1, <1>7, <1>9, <1>10 DEF ToastInv

\* A cooldown that passes
LEMMA CooldownKeepsToasts ==
  ASSUME NEW t, ToastInv(t), NEW key \in ToastKeys
  PROVE  ToastInv(CooldownEnds(t, key))
<1> DEFINE u == CooldownEnds(t, key)
<1>1. u \in Toasts
  BY DEF CooldownEnds, Toasts, ToastInv
<1>2. u.timers = t.timers /\ u.activeKeys = t.activeKeys /\ u.keyById = t.keyById /\ u.shown = t.shown
  BY DEF CooldownEnds, Toasts, ToastInv
<1> HIDE DEF u
<1>3. KeysAndIds(u) /\ ShownOnce(u)
  BY <1>2 DEF KeysAndIds, ShownOnce, ToastInv
<1> QED BY <1>1, <1>3 DEF ToastInv, u

(***************************************************************************)
(* Whatever enqueueToast and dismissToast did, toasts on the screen and    *)
(* keys that mute others have timers, and no key is on the screen twice.   *)
(***************************************************************************)
LEMMA ToastsAreTracked ==
  ASSUME NEW t, ToastInv(t)
  PROVE  Tracked(t) /\ ToastsTypeOK(t)
<1>1. /\ t.shown \in Seq(ToastIds) /\ t.activeKeys \in [ToastKeys -> ToastIds \cup {NoToast}]
      /\ t.keyById \in [ToastIds -> ToastKeys \cup {NoKey}]
      /\ t.timers \in SUBSET ToastIds /\ t.cooling \in SUBSET ToastKeys
      /\ KeysAndIds(t) /\ ShownOnce(t) /\ Len(t.shown) \in Nat
      /\ \A a \in 1..Len(t.shown) : t.shown[a] \in ToastIds
  BY LenProperties, ElementOfSeq DEF ToastInv, Toasts
<1>2. Range(t.shown) = {t.shown[a] : a \in 1..Len(t.shown)}
  BY <1>1, RangeEquality
<1>3. Range(t.shown) \subseteq t.timers
  BY <1>1, <1>2 DEF ShownOnce
<1>4. ASSUME NEW k \in ToastKeys, t.activeKeys[k] # NoToast
      PROVE  t.activeKeys[k] \in t.timers /\ t.keyById[t.activeKeys[k]] = k
  <2>1. t.activeKeys[k] \in ToastIds /\ t.keyById[t.activeKeys[k]] = k
    BY <1>1, <1>4 DEF KeysAndIds
  <2> QED BY <2>1, <1>1, ToastAssumption DEF KeysAndIds
<1>5. ASSUME NEW a \in 1..Len(t.shown), NEW b \in 1..Len(t.shown), a # b
      PROVE  t.keyById[t.shown[a]] # t.keyById[t.shown[b]]
  <2>1. \A i \in t.timers : i \in ToastIds /\ t.activeKeys[t.keyById[i]] = i
    BY <1>1 DEF KeysAndIds
  <2>2. t.shown[a] \in t.timers /\ t.shown[b] \in t.timers /\ t.shown[a] # t.shown[b]
    BY <1>1, <1>5 DEF ShownOnce
  <2> QED BY <2>1, <2>2
<1>6. Tracked(t)
  BY <1>3, <1>4, <1>5 DEF Tracked
<1>7. ToastsTypeOK(t)
  BY <1>1, <1>3 DEF ToastsTypeOK, ShownOnce
<1> QED BY <1>6, <1>7
=============================================================================
