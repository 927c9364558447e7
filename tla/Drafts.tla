------------------------------- MODULE Drafts -------------------------------
(***************************************************************************)
(* What an editor promises its user: input leaves it only when the server  *)
(* has it, when the user gives it up, or when the session ends.            *)
(***************************************************************************)
EXTENDS Naturals

VARIABLES
  unsaved,    \* the inputs in the editor that are not saved
  accepted,   \* every input the server ever stored
  waived,     \* the user gave up input in this step
  session     \* the number of the session

vars == <<unsaved, accepted, waived, session>>

Init == unsaved = {} /\ waived = FALSE

Write == unsaved \subseteq unsaved' /\ ~waived' /\ UNCHANGED <<accepted, session>>

Store == accepted \subseteq accepted' /\ ~waived' /\ UNCHANGED <<unsaved, session>>

Forget ==
  /\ unsaved' \subseteq unsaved /\ unsaved \ unsaved' \subseteq accepted
  /\ ~waived' /\ UNCHANGED <<accepted, session>>

GiveUp == waived' /\ UNCHANGED <<accepted, session>>

(* A new password renews the session and keeps the editor.                 *)
SignOff ==
  /\ session' > session /\ unsaved' \in {unsaved, {}}
  /\ UNCHANGED accepted

Next == Write \/ Store \/ Forget \/ GiveUp \/ SignOff

Spec == Init /\ [][Next]_vars
=============================================================================
