--------------------------- MODULE ScaleSettings ---------------------------
(***************************************************************************)
(* What the owner of a scale relies on: the settings in effect change one  *)
(* at a time, when an operation has saved them; a restart changes nothing, *)
(* except that one which interrupts a save may leave the factory settings. *)
(***************************************************************************)
CONSTANTS
    Fields,    \* the names of the settings
    Defaults   \* the settings of a scale that was never configured

VARIABLES
    settings,  \* the settings in effect
    busy       \* an operation is saving a setting

setvars == <<settings, busy>>

Init == settings = Defaults /\ busy = FALSE

Begin ==
    /\ ~busy
    /\ busy' = TRUE
    /\ UNCHANGED settings

\* The operation ends; no setting but one may differ.
Change ==
    /\ busy
    /\ busy' = FALSE
    /\ DOMAIN settings' = Fields
    /\ \E f \in Fields :
         \A g \in Fields \ {f} : settings'[g] = settings[g]

\* A restart in the middle of an operation.
Interrupt ==
    /\ busy
    /\ busy' = FALSE
    /\ settings' \in {settings, Defaults}

Next == Begin \/ Change \/ Interrupt

Spec == Init /\ [][Next]_setvars
=============================================================================
