------------------------------ MODULE SessionSlots ------------------------------
(***************************************************************************)
(* What the server promises about sessions: the abstract specification     *)
(* that Sessions implements.                                               *)
(*                                                                         *)
(* A user has one slot for a session.  A token is opened once, in an empty *)
(* slot, and may be handed to the client as it is opened.  Clearing the    *)
(* slot revokes what is in it, all at once and for good, and touches no    *)
(* other user.  A slot in which two sessions were in the making at the     *)
(* same time is crowded: it may hold several tokens from then on.          *)
(***************************************************************************)
CONSTANTS Tokens,
          Users,
          OwnerOf     \* the user of a token

VARIABLES life,       \* of a token: "none", "active" or "revoked"
          held,       \* tokens clients were given
          crowded     \* users whose sessions were made at the same time

slotVars == <<life, held, crowded>>

Init == /\ life = [t \in Tokens |-> "none"]
        /\ held = {}
        /\ crowded = {}

Slot(u) == {t \in Tokens : OwnerOf[t] = u /\ life[t] = "active"}

Open(t) == /\ life[t] = "none"
           /\ Slot(OwnerOf[t]) = {} \/ OwnerOf[t] \in crowded
           /\ life' = [life EXCEPT ![t] = "active"]
           /\ held' \in {held, held \cup {t}}
           /\ UNCHANGED crowded

Clear(u) == /\ life' = [t \in Tokens |-> IF t \in Slot(u) THEN "revoked"
                                                         ELSE life[t]]
            /\ crowded' \in {crowded, crowded \cup {u}}
            /\ UNCHANGED held

Next == \/ \E t \in Tokens : Open(t)
        \/ \E u \in Users : Clear(u)

Spec == Init /\ [][Next]_slotVars

-----------------------------------------------------------------------------
\* A slot that was never crowded holds one session at most.
OneSession ==
    \A s, t \in Tokens :
        /\ life[s] = "active"
        /\ life[t] = "active"
        /\ OwnerOf[s] = OwnerOf[t]
        /\ OwnerOf[s] \notin crowded
        => s = t

\* No client holds a token that was never opened.
HeldWereOpened == \A t \in held : life[t] # "none"
=============================================================================
