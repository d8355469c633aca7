------------------------------ MODULE AtomicMap ------------------------------
(***************************************************************************)
(* What the callers of a coalescing map may rely on, whatever happens      *)
(* inside it: a map from keys to values that is read and written in single *)
(* steps.  A call for a key that has no value takes time; it returns a     *)
(* value that was put into the map while the call was under way, or        *)
(* nothing.  A value enters the map once: what was dropped never returns.  *)
(***************************************************************************)
CONSTANTS Caller, Key, Value, NoValue

VARIABLES
  cell,    \* per key, its value or NoValue
  made,    \* values that have been put into the map
  calls,   \* per key, the callers whose call is under way
  chosen,  \* per caller: the value its call is going to return, if any yet
  out      \* per caller: what its last call returned, NoValue for an error

vars == <<cell, made, calls, chosen, out>>

Init ==
  /\ cell = [k \in Key |-> NoValue]
  /\ made = {}
  /\ calls = [k \in Key |-> {}]
  /\ chosen = [t \in Caller |-> NoValue]
  /\ out = [t \in Caller |-> NoValue]

Idle(t) == \A k \in Key : t \notin calls[k]

\* A call that finds a value, or only looks, is over at once.
Read(t, k) ==
  /\ Idle(t)
  /\ out' = [out EXCEPT ![t] = cell[k]]
  /\ UNCHANGED <<cell, made, calls, chosen>>

Begin(t, k) ==
  /\ Idle(t)
  /\ cell[k] = NoValue
  /\ calls' = [calls EXCEPT ![k] = @ \cup {t}]
  /\ out' = [out EXCEPT ![t] = NoValue]
  /\ UNCHANGED <<cell, made, chosen>>

\* A value is computed for a key, and with it the answer to some of the calls.
Put(k, v) ==
  /\ v \in Value \ made
  /\ made' = made \cup {v}
  /\ cell' = [cell EXCEPT ![k] = v]
  /\ \E answered \in SUBSET {t \in calls[k] : chosen[t] = NoValue} :
       /\ answered # {}
       /\ chosen' = [t \in Caller |-> IF t \in answered THEN v ELSE chosen[t]]
  /\ UNCHANGED <<calls, out>>

End(t, k) ==
  /\ t \in calls[k]
  /\ calls' = [calls EXCEPT ![k] = @ \ {t}]
  /\ chosen' = [chosen EXCEPT ![t] = NoValue]

Return(t, k) ==
  /\ End(t, k)
  /\ out' = [out EXCEPT ![t] = chosen[t]]
  /\ UNCHANGED <<cell, made>>

\* The caller gives up.
Abandon(t, k) == End(t, k) /\ UNCHANGED <<cell, made, out>>

Drop(k) ==
  /\ cell' = [cell EXCEPT ![k] = NoValue]
  /\ UNCHANGED <<made, calls, chosen, out>>

Next ==
  \/ \E t \in Caller, k \in Key : Read(t, k) \/ Begin(t, k) \/ Return(t, k) \/ Abandon(t, k)
  \/ \E k \in Key : Drop(k) \/ \E v \in Value : Put(k, v)

Spec == Init /\ [][Next]_vars
=============================================================================
