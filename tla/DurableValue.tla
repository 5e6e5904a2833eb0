----------------------------- MODULE DurableValue -----------------------------
(***************************************************************************)
(* What a file of the sync stores promises to whoever loads it: it holds   *)
(* one value; a write or a delete replaces that value at one instant, or   *)
(* not at all when the app dies or the disk fails in the middle of it.     *)
(***************************************************************************)
CONSTANTS Values, Absent

VARIABLES value,   \* what a load returns
          intent   \* the values an operation under way may still install

vars == <<value, intent>>

Init == value = Absent /\ intent = {}

Begin(v) == intent = {} /\ intent' = {v} /\ UNCHANGED value

Take == \E v \in intent : value' = v /\ UNCHANGED intent

\* The operation returns: its value is in place.
End == intent = {value} /\ intent' = {} /\ UNCHANGED value

\* It throws, or the app dies.
Fail == intent # {} /\ intent' = {} /\ UNCHANGED value

Next == Take \/ End \/ Fail \/ \E v \in Values \cup {Absent} : Begin(v)

Spec == Init /\ [][Next]_vars

=============================================================================
