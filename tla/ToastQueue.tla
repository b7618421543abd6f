------------------------------ MODULE ToastQueue ------------------------------
(***************************************************************************)
(* The notifications of src/hooks/useToastQueue.ts, as operators on the    *)
(* hook's state.  A toast with a key is not shown again while the first is *)
(* active nor during its cooldown; that a cooldown passes is a step of the *)
(* module that uses this one, as is a timer that fires.                    *)
(***************************************************************************)
EXTENDS Naturals, FiniteSets, Sequences, SequencesExt

CONSTANTS
  ToastKeys,
  ToastIds,   \* identifiers, at least one per key
  NoKey, NoToast,
  MaxShown    \* the viewport holds this many: 5

ASSUME ToastAssumption ==
  /\ NoToast \notin ToastIds /\ NoKey \notin ToastKeys /\ MaxShown \in Nat
  /\ IsFiniteSet(ToastIds) /\ IsFiniteSet(ToastKeys)
  /\ Cardinality(ToastKeys) <= Cardinality(ToastIds)

\* cooling: keys shown less than their cooldown ago, from lastShownAt
NoToasts == [shown |-> <<>>, activeKeys |-> [k \in ToastKeys |-> NoToast],
             keyById |-> [i \in ToastIds |-> NoKey], timers |-> {}, cooling |-> {}]

ToastsTypeOK(t) ==
  /\ Len(t.shown) <= MaxShown /\ Range(t.shown) \subseteq ToastIds
  /\ t.activeKeys \in [ToastKeys -> ToastIds \cup {NoToast}]
  /\ t.keyById \in [ToastIds -> ToastKeys \cup {NoKey}]
  /\ t.timers \subseteq ToastIds /\ t.cooling \subseteq ToastKeys

EnqueueToast(t, key) ==
  IF t.activeKeys[key] # NoToast \/ key \in t.cooling THEN t
  ELSE LET id == CHOOSE i \in ToastIds : t.keyById[i] = NoKey
           all == <<id>> \o t.shown
       IN  [shown |-> IF Len(all) > MaxShown THEN SubSeq(all, 1, MaxShown) ELSE all,
            activeKeys |-> [t.activeKeys EXCEPT ![key] = id],
            keyById |-> [t.keyById EXCEPT ![id] = key],
            timers |-> t.timers \cup {id},
            cooling |-> t.cooling \cup {key}]

\* The list without the toast id; createToastId makes each id once, so that the
\* filter finds one toast at most.
WithoutToast(shown, id) ==
  IF id \notin Range(shown) THEN shown
  ELSE RemoveAt(shown, CHOOSE a \in 1..Len(shown) : shown[a] = id)

\* Mutant: a dismissed toast stops its timer and stays the active one of its key.
DismissKeepsKey(t, id) ==
  [t EXCEPT !.timers = @ \ {id}, !.shown = WithoutToast(t.shown, id)]

\* dismissToast, by the operator or by the toast's own timer
DismissToast(t, id) ==
  [t EXCEPT !.timers = @ \ {id},
            !.activeKeys = [k \in ToastKeys |-> IF k = t.keyById[id] THEN NoToast ELSE t.activeKeys[k]],
            !.keyById[id] = NoKey,
            !.shown = WithoutToast(t.shown, id)]

CooldownEnds(t, key) == [t EXCEPT !.cooling = @ \ {key}]

\* Every toast on the screen and every key that mutes others has a timer to
\* end it, and no key is on the screen twice.
Tracked(t) ==
  /\ Range(t.shown) \subseteq t.timers
  /\ \A k \in ToastKeys : t.activeKeys[k] # NoToast =>
       t.activeKeys[k] \in t.timers /\ t.keyById[t.activeKeys[k]] = k
  /\ \A a, b \in 1..Len(t.shown) :
       a # b => t.keyById[t.shown[a]] # t.keyById[t.shown[b]]
=============================================================================
