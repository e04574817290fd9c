------------------------------ MODULE KegLink ------------------------------
(***************************************************************************)
(* What the rest of the firmware relies on: the scale is off line, has a   *)
(* connection whose login is pending, or is live.  It becomes live only on *)
(* a connection on which the server accepted the login, a new connection   *)
(* starts with the login pending, and a live link goes down before it is   *)
(* joined again.                                                           *)
(***************************************************************************)
VARIABLES
    link,     \* "down", "joining" or "live"
    granted   \* the server accepted the login of the latest connection

linkvars == <<link, granted>>

TypeOK ==
    /\ link \in {"down", "joining", "live"}
    /\ granted \in BOOLEAN

Init == link \in {"down", "joining"} /\ granted = FALSE

\* A connection is opened: its login is not granted yet.
Join ==
    /\ link = "down"
    /\ link' = "joining"
    /\ granted' = FALSE

\* The server accepts the login it has read.
Grant ==
    /\ ~granted
    /\ granted' = TRUE
    /\ UNCHANGED link

GoLive ==
    /\ link = "joining"
    /\ granted
    /\ link' = "live"
    /\ UNCHANGED granted

GoDown ==
    /\ link # "down"
    /\ link' = "down"
    /\ UNCHANGED granted

\* A restart: down, or with its first connection opened by setup().
Restart ==
    /\ link' \in {"down", "joining"}
    /\ granted' = FALSE

Next == Join \/ Grant \/ GoLive \/ GoDown \/ Restart

Spec == Init /\ [][Next]_linkvars
=============================================================================
