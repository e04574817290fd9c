------------------------- MODULE BlynkSessionProofs -------------------------
(***************************************************************************)
(* What holds of the session for every set of message ids, every interval  *)
(* and every bound on the buffer and the faults.                           *)
(***************************************************************************)
EXTENDS BlynkSession, TLAPS

\* A RESPONSE 200 waits only on a connection whose login was accepted.
GrantInbox == \A i \in 1 .. Len(inbox) : inbox[i] = OK => answer = "accepted"

\* A LOGIN the server has not read has no answer yet.
LoginPending == LOGIN \in unread => answer = "none"

\* The inductive invariant behind AuthSound and the refinement.
AuthInv ==
    /\ inbox \in Seq(FromServer)
    /\ GrantInbox
    /\ LoginPending
    /\ AuthSound

\* The packets of the server are told apart by their kind.
LEMMA KindsDiffer ==
    /\ OK # Refused
    /\ \A c \in Commands : c # OK /\ c # Refused
    /\ OK \in FromServer /\ Refused \in FromServer /\ Commands \subseteq FromServer
  BY DEF OK, Refused, Commands, Kinds, FromServer

\* Taking a packet out of the buffer keeps what is known of the others.
LEMMA TailGrants ==
    ASSUME AuthInv, inbox # <<>>, inbox' = Tail(inbox), UNCHANGED answer
    PROVE  inbox' \in Seq(FromServer) /\ GrantInbox'
  BY DEF AuthInv, GrantInbox

\* So does putting one in, if a RESPONSE 200 comes from a server that accepted.
LEMMA AppendGrants ==
    ASSUME AuthInv, NEW p \in FromServer, inbox' = Append(inbox, p),
           p = OK => answer' = "accepted",
           answer = "accepted" => answer' = "accepted"
    PROVE  inbox' \in Seq(FromServer) /\ GrantInbox'
  BY DEF AuthInv, GrantInbox

\* Nothing waits on a connection that was just opened or stopped.
LEMMA EmptyGrants ==
    ASSUME inbox' = <<>>
    PROVE  inbox' \in Seq(FromServer) /\ GrantInbox'
  BY DEF GrantInbox

\* The device writes LOGIN only when it opens a connection.
LEMMA NoLogin ==
    /\ LOGIN \notin {KEG, STATIC} /\ LOGIN # PING
    /\ \A id \in Ids : LOGIN # Ack(id)
  BY DEF LOGIN, KEG, STATIC, PING, Ack

LEMMA WriteKeepsLogin ==
    ASSUME NEW packets, LOGIN \notin packets, Write(packets), UNCHANGED answer,
           LoginPending
    PROVE  LoginPending'
  BY DEF Write, LoginPending

\* The first state of a device satisfies it.
LEMMA InitAuth == Init => AuthInv
  BY DEF Init, AuthInv, GrantInbox, LoginPending, AuthSound

-----------------------------------------------------------------------------
\* The steps of the device on a packet keep the invariant.
LEMMA ReceiveAuth ==
    ASSUME AuthInv, OnAccepted \/ OnResponse \/ OnCommand \/ OnOversized
    PROVE  AuthInv'
  <1>1. inbox # <<>> /\ inbox' = Tail(inbox) /\ UNCHANGED answer
    BY DEF OnAccepted, OnResponse, OnCommand, OnOversized, Received, srv_vars
  <1>2. inbox' \in Seq(FromServer) /\ GrantInbox'
    BY <1>1, TailGrants
  <1>3. AuthSound'
    <2>1. CASE OnAccepted
      <3>1. inbox[1] = OK /\ 1 \in 1 .. Len(inbox)
        BY <1>1, <2>1 DEF OnAccepted, Received, AuthInv
      <3>2. answer = "accepted"
        BY <3>1 DEF AuthInv, GrantInbox
      <3> QED
        BY <1>1, <3>2 DEF AuthSound
    <2>2. CASE OnResponse \/ OnCommand \/ OnOversized
      BY <1>1, <2>2 DEF OnResponse, OnCommand, OnOversized, AuthInv, AuthSound
    <2> QED
      BY <2>1, <2>2
  <1>4. LoginPending'
    <2>1. CASE OnAccepted
      BY <1>1, <2>1, NoLogin, WriteKeepsLogin DEF OnAccepted, AuthInv
    <2>2. CASE OnCommand
      <3>1. PICK c \in Commands, reply \in SUBSET {KEG, STATIC} :
              Write({Ack(c.id)} \cup reply)
        BY <2>2 DEF OnCommand, Commands, Kinds
      <3>2. LOGIN \notin {Ack(c.id)} \cup reply
        BY <3>1, NoLogin DEF Commands
      <3> QED
        BY <1>1, <3>1, <3>2, WriteKeepsLogin DEF AuthInv
    <2>3. CASE OnResponse \/ OnOversized
      BY <1>1, <2>3 DEF OnResponse, OnOversized, LoginPending, AuthInv
    <2> QED
      BY <2>1, <2>2, <2>3
  <1> QED
    BY <1>2, <1>3, <1>4 DEF AuthInv

\* Opening or stopping a connection keeps it.
LEMMA OpenAuth ==
    ASSUME AuthInv, authed' = FALSE, Open
    PROVE  AuthInv'
  BY EmptyGrants DEF Open, AuthInv, AuthSound, LoginPending

LEMMA StopAuth ==
    ASSUME AuthInv, authed' = FALSE, Stop
    PROVE  AuthInv'
  BY EmptyGrants DEF Stop, AuthInv, AuthSound, LoginPending

\* Every step of the device, the server and the network keeps it.
LEMMA NextAuth == AuthInv /\ [Next]_vars => AuthInv'
  <1> SUFFICES ASSUME AuthInv, [Next]_vars
               PROVE  AuthInv'
    OBVIOUS
  <1>1. CASE WifiDown \/ OtaStart
    BY <1>1, StopAuth DEF WifiDown, OtaStart
  <1>2. CASE Reconnect
    <2>1. CASE Open
      BY <1>2, <2>1, OpenAuth DEF Reconnect
    <2>2. CASE Fail
      BY <1>2, <2>2, StopAuth DEF Reconnect, Fail
    <2> QED
      BY <1>2, <2>1, <2>2 DEF Reconnect
  <1>3. CASE Reboot
    <2>1. CASE Open
      BY <1>3, <2>1, OpenAuth DEF Reboot
    <2>2. CASE ~Open
      BY <1>3, <2>2, EmptyGrants DEF Reboot, AuthInv, AuthSound, LoginPending
    <2> QED
      BY <2>1, <2>2
  <1>4. CASE OnAccepted \/ OnResponse \/ OnCommand \/ OnOversized
    BY <1>4, ReceiveAuth
  <1>5. CASE Report
    <2>1. PICK packets : Write(packets) /\ packets \subseteq {KEG, PING}
      BY <1>5 DEF Report
    <2>2. LoginPending'
      BY <1>5, <2>1, NoLogin, WriteKeepsLogin DEF Report, AuthInv, srv_vars
    <2> QED
      BY <1>5, <2>2 DEF Report, AuthInv, AuthSound, GrantInbox, srv_vars
  <1>6. CASE AwaitRetry
    BY <1>6 DEF AwaitRetry, AuthInv, AuthSound, GrantInbox, LoginPending, srv_vars
  <1>7. CASE LinkUp \/ EndIncoming \/ OtaError
    BY <1>7 DEF LinkUp, EndIncoming, OtaError, AuthInv, AuthSound, GrantInbox,
                LoginPending, srv_vars
  <1>8. CASE SrvRead
    <2>1. CASE LOGIN \in unread
      <3>1. answer = "none" /\ ~authed
        BY <2>1 DEF AuthInv, LoginPending, AuthSound
      <3>2. PICK p \in FromServer :
              inbox' = Append(inbox, p) /\ (p = OK => answer' = "accepted")
        BY <1>8, <2>1, KindsDiffer DEF SrvRead
      <3> QED
        BY <1>8, <3>1, <3>2, AppendGrants
        DEF SrvRead, AuthInv, AuthSound, LoginPending
    <2>2. CASE LOGIN \notin unread
      BY <1>8, <2>2 DEF SrvRead, AuthInv, AuthSound, GrantInbox, LoginPending
    <2> QED
      BY <2>1, <2>2
  <1>9. CASE SrvReply
    <2>1. PICK p \in FromServer :
            inbox' = Append(inbox, p) /\ (p = OK => answer = "accepted")
      BY <1>9, KindsDiffer DEF SrvReply
    <2> QED
      BY <1>9, <2>1, AppendGrants
      DEF SrvReply, AuthInv, AuthSound, LoginPending, srv_vars
  <1>10. CASE SrvCommand
    <2>1. PICK p \in FromServer : inbox' = Append(inbox, p) /\ p # OK
      BY <1>10, KindsDiffer DEF SrvCommand
    <2> QED
      BY <1>10, <2>1, AppendGrants DEF SrvCommand, AuthInv, AuthSound, LoginPending
  <1>11. CASE SrvClose \/ SrvVanish \/ NetAbort \/ WifiLost \/ WifiBack \/ Tick
    BY <1>11 DEF SrvClose, SrvVanish, NetAbort, WifiLost, WifiBack, Tick, AuthInv,
                 AuthSound, GrantInbox, LoginPending, srv_vars
  <1>12. CASE UNCHANGED vars
    BY <1>12 DEF vars, AuthInv, AuthSound, GrantInbox, LoginPending, srv_vars
  <1> QED
    BY <1>1, <1>2, <1>3, <1>4, <1>5, <1>6, <1>7, <1>8, <1>9, <1>10, <1>11, <1>12
    DEF Next, Loop

\* ino:1006-1015, 1135, 1321: blynk_authed is set only on a connection whose
\* login the server accepted, for any number of commands and faults.
THEOREM AuthenticationSound == Spec => []AuthSound
  <1>1. AuthInv => AuthSound
    BY DEF AuthInv
  <1> QED
    BY InitAuth, NextAuth, <1>1, PTL DEF Spec

-----------------------------------------------------------------------------
(***************************************************************************)
(* The session implements the contract of KegLink.                         *)
(***************************************************************************)

\* The state of the link and the grant, as KegLink sees them.
granted == answer = "accepted"

\* A step that leaves the connection, blynk_authed and the answer alone leaves
\* the link alone.
LEMMA SameLink ==
    ASSUME UNCHANGED <<tcp, authed, answer, inbox>>
    PROVE  UNCHANGED Contract!linkvars
  BY DEF Contract!linkvars, link, Connected

\* A step that may only lose the connection is a GoDown or leaves the link alone.
LEMMA LoseLink ==
    ASSUME UNCHANGED <<authed, answer>>, Connected' => Connected
    PROVE  [Contract!Next]_(Contract!linkvars)
  <1>1. link' = link \/ (link # "down" /\ link' = "down")
    BY DEF link
  <1> QED
    BY <1>1 DEF Contract!Next, Contract!GoDown, Contract!linkvars

\* A step that leaves no connection is a GoDown or leaves the link alone.
LEMMA DropLink ==
    ASSUME UNCHANGED answer, ~Connected'
    PROVE  [Contract!Next]_(Contract!linkvars)
  <1>1. link' = "down"
    BY DEF link
  <1> QED
    BY <1>1 DEF Contract!Next, Contract!GoDown, Contract!linkvars

\* Every step of the session is a step of the contract.
LEMMA NextLink == AuthInv /\ [Next]_vars => [Contract!Next]_(Contract!linkvars)
  <1> SUFFICES ASSUME AuthInv, [Next]_vars
               PROVE  [Contract!Next]_(Contract!linkvars)
    OBVIOUS
  <1>1. CASE WifiDown \/ OtaStart
    <2>1. UNCHANGED answer /\ ~Connected'
      BY <1>1 DEF WifiDown, OtaStart, Stop, Connected
    <2> QED
      BY <2>1, DropLink
  <1>2. CASE AwaitRetry
    <2>1. UNCHANGED answer /\ ~Connected'
      BY <1>2 DEF AwaitRetry, Connected, srv_vars
    <2> QED
      BY <2>1, DropLink
  <1>3. CASE Reconnect
    <2>1. CASE Open
      <3>1. link = "down" /\ link' = "joining" /\ answer' = "none"
        BY <1>3, <2>1 DEF Reconnect, Open, link, Connected
      <3> QED
        BY <3>1 DEF Contract!Next, Contract!Join
    <2>2. CASE Fail
      <3>1. UNCHANGED answer /\ ~Connected'
        BY <2>2 DEF Fail, Stop, Connected
      <3> QED
        BY <3>1, DropLink
    <2> QED
      BY <1>3, <2>1, <2>2 DEF Reconnect
  <1>4. CASE OnAccepted
    <2>1. /\ Connected /\ Connected' => link = "joining" /\ link' = "live"
          /\ Connected' => Connected
      BY <1>4 DEF OnAccepted, Received, Connected, link
    <2>2. UNCHANGED answer
      BY <1>4 DEF OnAccepted, Received, srv_vars
    <2>3. answer = "accepted"
      <3>1. AuthInv' /\ authed'
        BY <1>4, ReceiveAuth DEF OnAccepted
      <3> QED
        BY <2>2, <3>1 DEF AuthInv, AuthSound
    <2>4. CASE Connected'
      BY <2>1, <2>2, <2>3, <2>4 DEF Contract!Next, Contract!GoLive
    <2>5. CASE ~Connected'
      BY <2>2, <2>5, DropLink
    <2> QED
      BY <2>4, <2>5
  <1>5. CASE OnResponse \/ OnCommand \/ OnOversized
    <2>1. UNCHANGED <<authed, answer>> /\ (Connected' => Connected)
      BY <1>5
      DEF OnResponse, OnCommand, OnOversized, Received, Connected, srv_vars
    <2> QED
      BY <2>1, LoseLink
  <1>6. CASE LinkUp \/ EndIncoming \/ OtaError \/ Report
    <2>1. UNCHANGED <<tcp, authed, answer, inbox>>
      BY <1>6 DEF LinkUp, EndIncoming, OtaError, Report, srv_vars
    <2> QED
      BY <2>1, SameLink
  <1>7. CASE Reboot
    <2>1. link' \in {"down", "joining"} /\ answer' = "none"
      BY <1>7 DEF Reboot, Open, link, Connected
    <2> QED
      BY <2>1 DEF Contract!Next, Contract!Restart
  <1>8. CASE SrvRead
    <2>1. UNCHANGED link
      BY <1>8 DEF SrvRead, Reachable, link, Connected
    <2>2. UNCHANGED granted \/ (~granted /\ granted')
      BY <1>8 DEF SrvRead, AuthInv, LoginPending, granted
    <2> QED
      BY <2>1, <2>2 DEF Contract!Next, Contract!Grant, Contract!linkvars, granted
  <1>9. CASE SrvReply \/ SrvCommand
    <2>1. UNCHANGED link /\ UNCHANGED answer
      BY <1>9 DEF SrvReply, SrvCommand, Reachable, link, Connected, srv_vars
    <2> QED
      BY <2>1 DEF Contract!linkvars
  <1>10. CASE SrvClose \/ NetAbort
    <2>1. UNCHANGED <<authed, answer>> /\ (Connected' => Connected)
      BY <1>10 DEF SrvClose, NetAbort, Reachable, Connected, srv_vars
    <2> QED
      BY <2>1, LoseLink
  <1>11. CASE SrvVanish \/ WifiLost \/ WifiBack \/ Tick
    <2>1. UNCHANGED <<tcp, authed, answer, inbox>>
      BY <1>11 DEF SrvVanish, WifiLost, WifiBack, Tick, srv_vars
    <2> QED
      BY <2>1, SameLink
  <1>12. CASE UNCHANGED vars
    <2>1. UNCHANGED <<tcp, authed, answer, inbox>>
      BY <1>12 DEF vars, srv_vars
    <2> QED
      BY <2>1, SameLink
  <1> QED
    BY <1>1, <1>2, <1>3, <1>4, <1>5, <1>6, <1>7, <1>8, <1>9, <1>10, <1>11, <1>12
    DEF Next, Loop

\* Every behaviour of the session is one of the link it promises: a link is live
\* only after its login was granted, and goes down before it is joined again.
THEOREM SessionImplementsLink == Spec => ImplementsKegLink
  <1>1. Init => Contract!Init
    BY DEF Init, Contract!Init, link, Connected
  <1> QED
    BY InitAuth, NextAuth, NextLink, <1>1, PTL
    DEF Spec, ImplementsKegLink, Contract!Spec
-----------------------------------------------------------------------------
(***************************************************************************)
(* Types of the session.                                                   *)
(***************************************************************************)

\* The parts of TypeOK: what the device knows, the clock, and the connection.
DeviceTypes ==
    /\ wifi \in BOOLEAN
    /\ authed \in BOOLEAN
    /\ ota \in BOOLEAN
    /\ pc \in {"link", "incoming", "report"}

ClockTypes ==
    /\ reconnect \in 0 .. Period - 1
    /\ ping \in 0 .. Period - 1
    /\ gap \in 0 .. MaxGap
    /\ quiet \in 0 .. Period
    /\ faults \in 0 .. MaxFaults

LinkTypes ==
    /\ tcp \in {"closed", "established", "closing"}
    /\ inbox \in Seq(FromServer)
    /\ unread \subseteq FromDevice
    /\ srv \in {"none", "live", "gone"}
    /\ answer \in {"none", "accepted", "refused"}
    /\ owed \subseteq Ids
    /\ sent \subseteq {KEG, STATIC}

LEMMA TypeParts == TypeOK <=> DeviceTypes /\ ClockTypes /\ LinkTypes
  BY DEF TypeOK, DeviceTypes, ClockTypes, LinkTypes

LEMMA InitSessionTypes == Init => DeviceTypes /\ ClockTypes /\ LinkTypes
  <1>1. Init => DeviceTypes
    BY DEF Init, DeviceTypes
  <1>2. Init => ClockTypes
    BY SessionAssumption DEF Init, ClockTypes
  <1>3. Init => LinkTypes
    BY DEF Init, LinkTypes
  <1> QED
    BY <1>1, <1>2, <1>3

\* What a pass decides keeps its type.
LEMMA NextDevice == DeviceTypes /\ [Next]_vars => DeviceTypes'
  <1> SUFFICES ASSUME DeviceTypes, [Next]_vars
               PROVE  DeviceTypes'
    OBVIOUS
  <1> USE DEF DeviceTypes
  <1>1. CASE WifiDown \/ AwaitRetry \/ Reconnect \/ LinkUp
    BY <1>1 DEF WifiDown, AwaitRetry, Reconnect, LinkUp
  <1>2. CASE OnAccepted \/ OnResponse \/ OnCommand \/ OnOversized
    BY <1>2 DEF OnAccepted, OnResponse, OnCommand, OnOversized, Received
  <1>3. CASE EndIncoming \/ Report
    BY <1>3 DEF EndIncoming, Report
  <1>4. CASE OtaStart \/ OtaError \/ Reboot
    BY <1>4 DEF OtaStart, OtaError, Reboot
  <1>5. CASE SrvRead \/ SrvReply \/ SrvCommand \/ SrvClose \/ SrvVanish
    BY <1>5 DEF SrvRead, SrvReply, SrvCommand, SrvClose, SrvVanish
  <1>6. CASE NetAbort \/ WifiLost \/ WifiBack \/ Tick \/ UNCHANGED vars
    BY <1>6 DEF NetAbort, WifiLost, WifiBack, Tick, vars
  <1> QED
    BY <1>1, <1>2, <1>3, <1>4, <1>5, <1>6 DEF Next, Loop

\* A difference of two times stays below the period of the clock.
LEMMA AdvanceTypes ==
    ASSUME NEW elapsed \in 0 .. Period - 1
    PROVE  Advance(elapsed) \in 0 .. Period - 1
  BY SessionAssumption DEF Advance

\* The timers keep their width, and the bounds of the instance hold.
LEMMA NextClock == ClockTypes /\ [Next]_vars => ClockTypes'
  <1> SUFFICES ASSUME ClockTypes, [Next]_vars
               PROVE  ClockTypes'
    OBVIOUS
  <1> USE SessionAssumption DEF ClockTypes, timer_vars, Fault
  <1>1. CASE WifiDown \/ AwaitRetry \/ LinkUp \/ EndIncoming \/ OtaError
    BY <1>1 DEF WifiDown, AwaitRetry, LinkUp, EndIncoming, OtaError
  <1>2. CASE Reconnect
    BY <1>2 DEF Reconnect, Fail
  <1>3. CASE OnAccepted \/ OnResponse \/ OnCommand \/ OnOversized
    <2>1. UNCHANGED <<reconnect, ping, gap, faults>>
      BY <1>3 DEF OnAccepted, OnResponse, OnCommand, OnOversized, Received
    <2>2. quiet' = 0 \/ UNCHANGED quiet
      BY <1>3 DEF OnAccepted, OnResponse, OnCommand, OnOversized
    <2> QED
      BY <2>1, <2>2
  <1>4. CASE Report
    BY <1>4 DEF Report
  <1>5. CASE OtaStart \/ Reboot
    BY <1>5 DEF OtaStart, Reboot
  <1>6. CASE SrvRead
    BY <1>6 DEF SrvRead
  <1>7. CASE SrvReply \/ SrvCommand \/ SrvClose \/ SrvVanish
    <2>1. CASE SrvReply \/ SrvCommand
      BY <2>1 DEF SrvReply, SrvCommand
    <2>2. CASE SrvClose \/ SrvVanish
      BY <2>2 DEF SrvClose, SrvVanish
    <2> QED
      BY <1>7, <2>1, <2>2
  <1>8. CASE NetAbort \/ WifiLost \/ WifiBack \/ UNCHANGED vars
    BY <1>8 DEF NetAbort, WifiLost, WifiBack, vars
  <1>9. CASE Tick
    BY <1>9, AdvanceTypes DEF Tick
  <1> QED
    BY <1>1, <1>2, <1>3, <1>4, <1>5, <1>6, <1>7, <1>8, <1>9 DEF Next, Loop

\* A write adds packets of the device, and only the two snapshots to the history.
LEMMA WriteTypes ==
    ASSUME LinkTypes, NEW packets, packets \subseteq FromDevice, Write(packets)
    PROVE  unread' \subseteq FromDevice /\ sent' \subseteq {KEG, STATIC}
  BY DEF Write, LinkTypes

\* A connection that was opened, and one that was stopped.
LEMMA OpenTypes == Open => LinkTypes'
  BY DEF Open, LinkTypes, FromDevice

LEMMA StopTypes == LinkTypes /\ Stop => LinkTypes'
  BY DEF Stop, LinkTypes

\* What the device writes on a packet.
LEMMA ReceiveWrites ==
    ASSUME OnAccepted \/ OnResponse \/ OnCommand \/ OnOversized
    PROVE  \/ UNCHANGED <<unread, sent>>
           \/ OnAccepted /\ Write({KEG, STATIC})
           \/ \E c \in Commands, reply \in SUBSET {KEG, STATIC} :
                /\ c.kind # "big" /\ c = Head(inbox)
                /\ Write({Ack(c.id)} \cup reply)
  BY DEF OnAccepted, OnResponse, OnCommand, OnOversized, Received, Commands, Kinds

\* The connection holds the packets of its two ends.
LEMMA NextLinkTypes == LinkTypes /\ [Next]_vars => LinkTypes'
  <1> SUFFICES ASSUME LinkTypes, [Next]_vars
               PROVE  LinkTypes'
    OBVIOUS
  <1> USE DEF srv_vars
  <1>1. CASE WifiDown \/ OtaStart
    BY <1>1, StopTypes DEF WifiDown, OtaStart
  <1>2. CASE Reconnect
    BY <1>2, OpenTypes, StopTypes DEF Reconnect, Fail
  <1>3. CASE Reboot
    <2>1. CASE Open
      BY <2>1, OpenTypes
    <2>2. CASE /\ tcp' = "closed" /\ inbox' = <<>> /\ unread' = {} /\ sent' = {}
               /\ srv' = "none" /\ answer' = "none" /\ owed' = {}
      BY <2>2 DEF LinkTypes
    <2> QED
      BY <1>3, <2>1, <2>2 DEF Reboot
  <1>4. CASE OnAccepted \/ OnResponse \/ OnCommand \/ OnOversized
    <2>1. inbox # <<>> /\ inbox' = Tail(inbox) /\ UNCHANGED <<tcp, srv, answer, owed>>
      BY <1>4 DEF OnAccepted, OnResponse, OnCommand, OnOversized, Received
    <2>2. inbox' \in Seq(FromServer)
      BY <2>1 DEF LinkTypes
    <2>3. unread' \subseteq FromDevice /\ sent' \subseteq {KEG, STATIC}
      <3>1. {KEG, STATIC} \subseteq FromDevice
        BY DEF FromDevice
      <3>2. \A c \in Commands, reply \in SUBSET {KEG, STATIC} :
              {Ack(c.id)} \cup reply \subseteq FromDevice
        BY DEF Commands, FromDevice
      <3>3. CASE UNCHANGED <<unread, sent>>
        BY <3>3 DEF LinkTypes
      <3> QED
        BY <1>4, <3>1, <3>2, <3>3, ReceiveWrites, WriteTypes
    <2> QED
      BY <2>1, <2>2, <2>3 DEF LinkTypes
  <1>5. CASE Report
    <2>1. PICK packets : Write(packets) /\ packets \subseteq {KEG, PING}
      BY <1>5 DEF Report
    <2>2. unread' \subseteq FromDevice /\ sent' \subseteq {KEG, STATIC}
      BY <2>1, WriteTypes DEF FromDevice
    <2> QED
      BY <1>5, <2>2 DEF Report, LinkTypes
  <1>6. CASE AwaitRetry \/ LinkUp \/ EndIncoming \/ OtaError
    BY <1>6 DEF AwaitRetry, LinkUp, EndIncoming, OtaError, LinkTypes
  <1>7. CASE SrvRead
    <2>1. inbox' \in Seq(FromServer)
      BY <1>7, KindsDiffer DEF SrvRead, LinkTypes
    <2>2. answer' \in {"none", "accepted", "refused"}
      BY <1>7 DEF SrvRead, LinkTypes
    <2> QED
      BY <1>7, <2>1, <2>2 DEF SrvRead, LinkTypes
  <1>8. CASE SrvReply
    BY <1>8, KindsDiffer DEF SrvReply, LinkTypes
  <1>9. CASE SrvCommand
    <2>1. PICK c \in Commands :
            /\ inbox' = Append(inbox, c)
            /\ owed' = IF c.kind = "big" THEN owed ELSE owed \cup {c.id}
      BY <1>9 DEF SrvCommand
    <2>2. c \in FromServer /\ c.id \in Ids
      BY KindsDiffer DEF Commands
    <2> QED
      BY <1>9, <2>1, <2>2 DEF SrvCommand, LinkTypes
  <1>10. CASE SrvClose \/ SrvVanish \/ NetAbort \/ WifiLost \/ WifiBack \/ Tick
    BY <1>10 DEF SrvClose, SrvVanish, NetAbort, WifiLost, WifiBack, Tick, LinkTypes
  <1>11. CASE UNCHANGED vars
    BY <1>11 DEF vars, LinkTypes
  <1> QED
    BY <1>1, <1>2, <1>3, <1>4, <1>5, <1>6, <1>7, <1>8, <1>9, <1>10, <1>11
    DEF Next, Loop

\* The timers keep their width and the connection holds packets of its two ends,
\* for every set of message ids, every interval and every bound.
THEOREM SessionTypes == Spec => []TypeOK
  <1>1. DeviceTypes /\ ClockTypes /\ LinkTypes => TypeOK
    BY TypeParts
  <1> QED
    BY InitSessionTypes, NextDevice, NextClock, NextLinkTypes, <1>1, PTL DEF Spec

-----------------------------------------------------------------------------
(***************************************************************************)
(* What was sent on the connection.                                        *)
(***************************************************************************)

\* The device has an open connection only if it had it, or has just opened it.
LEMMA StillOpen ==
    ASSUME [Next]_vars, tcp' = "established"
    PROVE  \/ tcp = "established"
           \/ Open /\ authed' = FALSE
  <1> USE DEF srv_vars
  <1>1. CASE WifiDown \/ OtaStart
    BY <1>1 DEF WifiDown, OtaStart, Stop
  <1>2. CASE Reconnect
    BY <1>2 DEF Reconnect, Fail, Stop
  <1>3. CASE Reboot
    BY <1>3 DEF Reboot
  <1>4. CASE AwaitRetry \/ LinkUp \/ EndIncoming \/ OtaError \/ Report
    BY <1>4 DEF AwaitRetry, LinkUp, EndIncoming, OtaError, Report
  <1>5. CASE OnAccepted \/ OnResponse \/ OnCommand \/ OnOversized
    BY <1>5 DEF OnAccepted, OnResponse, OnCommand, OnOversized, Received
  <1>6. CASE SrvRead \/ SrvReply \/ SrvCommand \/ SrvClose \/ SrvVanish
    BY <1>6 DEF SrvRead, SrvReply, SrvCommand, SrvClose, SrvVanish, Reachable
  <1>7. CASE NetAbort \/ WifiLost \/ WifiBack \/ Tick \/ UNCHANGED vars
    BY <1>7 DEF NetAbort, WifiLost, WifiBack, Tick, vars
  <1> QED
    BY <1>1, <1>2, <1>3, <1>4, <1>5, <1>6, <1>7 DEF Next, Loop

\* On a connection that stays open nothing that was sent is taken back.
LEMMA SentGrows ==
    ASSUME [Next]_vars, tcp = "established", tcp' = "established"
    PROVE  sent \subseteq sent' \/ (Open /\ authed' = FALSE)
  <1> USE DEF srv_vars
  <1>1. CASE WifiDown \/ OtaStart \/ NetAbort \/ SrvClose
    BY <1>1 DEF WifiDown, OtaStart, Stop, NetAbort, SrvClose
  <1>2. CASE Reconnect \/ Reboot
    BY <1>2 DEF Reconnect, Reboot, Fail, Stop
  <1>3. CASE AwaitRetry \/ LinkUp \/ EndIncoming \/ OtaError
    BY <1>3 DEF AwaitRetry, LinkUp, EndIncoming, OtaError
  <1>4. CASE OnAccepted \/ OnResponse \/ OnCommand \/ OnOversized
    BY <1>4, ReceiveWrites DEF Write
  <1>5. CASE Report
    BY <1>5 DEF Report, Write
  <1>6. CASE SrvRead \/ SrvReply \/ SrvCommand \/ SrvVanish
    BY <1>6 DEF SrvRead, SrvReply, SrvCommand, SrvVanish
  <1>7. CASE WifiLost \/ WifiBack \/ Tick \/ UNCHANGED vars
    BY <1>7 DEF WifiLost, WifiBack, Tick, vars
  <1> QED
    BY <1>1, <1>2, <1>3, <1>4, <1>5, <1>6, <1>7 DEF Next, Loop

\* blynk_authed is set by the grant of the login alone.
LEMMA AuthedBy ==
    ASSUME [Next]_vars, authed'
    PROVE  authed \/ OnAccepted
  <1>1. CASE WifiDown \/ AwaitRetry \/ Reconnect \/ OtaStart \/ Reboot
    BY <1>1 DEF WifiDown, AwaitRetry, Reconnect, OtaStart, Reboot
  <1>2. CASE LinkUp \/ EndIncoming \/ OtaError \/ Report
    BY <1>2 DEF LinkUp, EndIncoming, OtaError, Report
  <1>3. CASE OnResponse \/ OnCommand \/ OnOversized
    BY <1>3 DEF OnResponse, OnCommand, OnOversized
  <1>4. CASE SrvRead \/ SrvReply \/ SrvCommand \/ SrvClose \/ SrvVanish
    BY <1>4 DEF SrvRead, SrvReply, SrvCommand, SrvClose, SrvVanish
  <1>5. CASE NetAbort \/ WifiLost \/ WifiBack \/ Tick \/ UNCHANGED vars
    BY <1>5 DEF NetAbort, WifiLost, WifiBack, Tick, vars
  <1> QED
    BY <1>1, <1>2, <1>3, <1>4, <1>5 DEF Next, Loop

\* The grant is followed by both snapshots, and they are never taken back.
LEMMA NextSnapshot ==
    LinkTypes /\ LinkTypes' /\ SnapshotSent /\ [Next]_vars => SnapshotSent'
  <1> SUFFICES ASSUME LinkTypes, LinkTypes', SnapshotSent, [Next]_vars,
                      authed', tcp' = "established"
               PROVE  sent' = {KEG, STATIC}
    BY DEF SnapshotSent
  <1>1. tcp = "established" /\ sent \subseteq sent'
    BY StillOpen, SentGrows
  <1>2. CASE OnAccepted
    <2>1. {KEG, STATIC} \subseteq sent'
      BY <1>1, <1>2 DEF OnAccepted, Write
    <2> QED
      BY <2>1 DEF LinkTypes
  <1>3. CASE authed
    BY <1>1, <1>3 DEF SnapshotSent, LinkTypes
  <1> QED
    BY <1>2, <1>3, AuthedBy

\* ino:1008-1012: whatever happened to earlier connections, one that is live was
\* sent the keg data and the static pins.
THEOREM SnapshotsSent == Spec => []SnapshotSent
  <1>1. Init => SnapshotSent
    BY DEF Init, SnapshotSent
  <1> QED
    BY InitSessionTypes, NextLinkTypes, NextSnapshot, <1>1, PTL DEF Spec

-----------------------------------------------------------------------------
(***************************************************************************)
(* Every command is acknowledged once.                                     *)
(***************************************************************************)

\* A packet that waits for an acknowledgement, and the ids of those in a buffer.
Asks(p, id) == p.kind \in {"ping", "sync", "write"} /\ p.id = id

Asked(q) == {id \in Ids : \E i \in 1 .. Len(q) : Asks(q[i], id)}

\* No two of them have one id.
AskedOnce(q) ==
    \A id \in Ids : \A i, j \in 1 .. Len(q) :
       Asks(q[i], id) /\ Asks(q[j], id) => i = j

Acked(packets) == {id \in Ids : Ack(id) \in packets}

\* The inductive invariant behind AckAccounting: a command that was read out must
\* not be one of two with its id.
AckInv ==
    tcp = "established" =>
      /\ AskedOnce(inbox)
      /\ owed = Asked(inbox) \cup Acked(unread)
      /\ Asked(inbox) \cap Acked(unread) = {}

\* What AckAccounting collects from the buffer.
LEMMA AskedRange ==
    ASSUME NEW q \in Seq(FromServer)
    PROVE  Asked(q) = {c.id : c \in {x \in Range(q) :
                                       x.kind \in {"ping", "sync", "write"}}}
  <1> DEFINE asking == {x \in Range(q) : x.kind \in {"ping", "sync", "write"}}
  <1>1. \A i \in 1 .. Len(q) : q[i] \in Range(q)
    BY DEF Range
  <1>2. \A x \in Range(q) : \E i \in 1 .. Len(q) : x = q[i]
    BY DEF Range
  <1>3. \A x \in asking : x.id \in Ids
    BY <1>2 DEF FromServer, Commands, OK, Refused
  <1>4. ASSUME NEW id \in Asked(q)
        PROVE  \E x \in asking : x.id = id
    BY <1>1 DEF Asked, Asks
  <1>5. ASSUME NEW x \in asking
        PROVE  x.id \in Asked(q)
    BY <1>2, <1>3 DEF Asked, Asks
  <1> QED
    BY <1>4, <1>5

\* Reading the first packet out.
LEMMA TailAsked ==
    ASSUME NEW q \in Seq(FromServer), q # <<>>, AskedOnce(q)
    PROVE  /\ AskedOnce(Tail(q))
           /\ Asked(Tail(q)) = Asked(q) \ {id \in Ids : Asks(Head(q), id)}
  <1>1. /\ Len(q) \in Nat \ {0} /\ Head(q) = q[1]
        /\ Len(Tail(q)) = Len(q) - 1
        /\ \A i \in 1 .. Len(Tail(q)) : Tail(q)[i] = q[i + 1]
    OBVIOUS
  <1>2. \A i \in 1 .. Len(Tail(q)) : i + 1 \in 1 .. Len(q) /\ i + 1 # 1
    BY <1>1
  <1>3. AskedOnce(Tail(q))
    <2> SUFFICES ASSUME NEW id \in Ids,
                        NEW i \in 1 .. Len(Tail(q)), NEW j \in 1 .. Len(Tail(q)),
                        Asks(Tail(q)[i], id), Asks(Tail(q)[j], id)
                 PROVE  i = j
      BY DEF AskedOnce
    <2>1. i + 1 = j + 1
      BY <1>1, <1>2 DEF AskedOnce
    <2> QED
      BY <1>1, <2>1
  <1>4. ASSUME NEW id \in Asked(Tail(q))
        PROVE  id \in Asked(q) /\ ~Asks(Head(q), id)
    <2>1. PICK i \in 1 .. Len(Tail(q)) : Asks(q[i + 1], id)
      BY <1>1, <1>4 DEF Asked
    <2>2. id \in Ids /\ i + 1 \in 1 .. Len(q) /\ 1 \in 1 .. Len(q) /\ i + 1 # 1
      BY <1>1, <1>2, <1>4 DEF Asked
    <2> QED
      BY <1>1, <2>1, <2>2 DEF Asked, AskedOnce
  <1>5. ASSUME NEW id \in Asked(q), ~Asks(Head(q), id)
        PROVE  id \in Asked(Tail(q))
    <2>1. PICK i \in 1 .. Len(q) : Asks(q[i], id)
      BY DEF Asked
    <2>2. i # 1
      BY <1>1, <1>5, <2>1
    <2>3. i - 1 \in 1 .. Len(Tail(q)) /\ Tail(q)[i - 1] = q[i]
      BY <1>1, <2>2
    <2> QED
      BY <2>1, <2>3 DEF Asked
  <1> QED
    BY <1>3, <1>4, <1>5 DEF Asked

\* Putting a packet in, whose id is not in the buffer.
LEMMA AppendAsked ==
    ASSUME NEW q \in Seq(FromServer), NEW p \in FromServer, AskedOnce(q),
           \A id \in Asked(q) : ~Asks(p, id)
    PROVE  /\ AskedOnce(Append(q, p))
           /\ Asked(Append(q, p)) = Asked(q) \cup {id \in Ids : Asks(p, id)}
  <1>1. /\ Len(q) \in Nat /\ Len(Append(q, p)) = Len(q) + 1
        /\ \A i \in 1 .. Len(q) : Append(q, p)[i] = q[i]
        /\ Append(q, p)[Len(q) + 1] = p
    OBVIOUS
  <1>2. 1 .. Len(Append(q, p)) = 1 .. Len(q) \cup {Len(q) + 1}
    BY <1>1
  <1>3. AskedOnce(Append(q, p))
    BY <1>1, <1>2 DEF AskedOnce, Asked
  <1>4. Asked(Append(q, p)) = Asked(q) \cup {id \in Ids : Asks(p, id)}
    BY <1>1, <1>2 DEF Asked
  <1> QED
    BY <1>3, <1>4

\* Only commands ask, and none that is too big.
LEMMA WhoAsks ==
    /\ \A id \in Ids : ~Asks(OK, id) /\ ~Asks(Refused, id)
    /\ \A c \in Commands : {id \in Ids : Asks(c, id)} =
                              IF c.kind = "big" THEN {} ELSE {c.id}
  BY DEF Asks, OK, Refused, Commands, Kinds

\* A RESPONSE in the buffer asks for nothing.
LEMMA ResponseAsked ==
    ASSUME NEW q \in Seq(FromServer), NEW p \in {OK, Refused}, AskedOnce(q)
    PROVE  AskedOnce(Append(q, p)) /\ Asked(Append(q, p)) = Asked(q)
  <1>1. p \in FromServer /\ \A id \in Ids : ~Asks(p, id)
    BY WhoAsks, KindsDiffer
  <1>2. {id \in Ids : Asks(p, id)} = {} /\ \A id \in Asked(q) : ~Asks(p, id)
    BY <1>1 DEF Asked
  <1> QED
    BY <1>1, <1>2, AppendAsked

\* The acknowledgements among the packets of the device.
LEMMA AcksDiffer ==
    /\ Acked({KEG, STATIC, PING, LOGIN}) = {}
    /\ \A id \in Ids : Acked({Ack(id)}) = {id}
    /\ \A a, b : Acked(a \cup b) = Acked(a) \cup Acked(b)
    /\ \A a, b : a \subseteq b => Acked(a) \subseteq Acked(b)
  BY DEF Acked, Ack, KEG, STATIC, PING, LOGIN

\* A write on an open connection adds its acknowledgements.
LEMMA WriteAcks ==
    ASSUME NEW packets, Write(packets), tcp = "established"
    PROVE  Acked(unread') = Acked(unread) \cup Acked(packets)
  BY AcksDiffer DEF Write

\* The steps of the device on a packet.
LEMMA ReceiveAcks ==
    ASSUME LinkTypes, AckInv, OnAccepted \/ OnResponse \/ OnCommand \/ OnOversized
    PROVE  AckInv'
  <1> SUFFICES ASSUME tcp = "established"
               PROVE  AckInv'
    BY DEF AckInv, OnAccepted, OnResponse, OnCommand, OnOversized, Received
  <1> DEFINE done == {id \in Ids : Asks(Head(inbox), id)}
  <1>1. inbox # <<>> /\ inbox' = Tail(inbox) /\ owed' = owed /\ tcp' = tcp
    BY DEF OnAccepted, OnResponse, OnCommand, OnOversized, Received, srv_vars
  <1>2. AskedOnce(inbox') /\ Asked(inbox') = Asked(inbox) \ done
    BY <1>1, TailAsked DEF AckInv, LinkTypes
  <1>3. /\ owed = Asked(inbox) \cup Acked(unread)
        /\ Asked(inbox) \cap Acked(unread) = {}
    BY DEF AckInv
  <1>4. done \subseteq Asked(inbox)
    BY <1>1 DEF Asked, LinkTypes
  <1>5. Acked(unread') = Acked(unread) \cup done
    <2>1. CASE OnAccepted
      <3>1. done = {}
        BY <2>1, WhoAsks DEF OnAccepted, Received
      <3>2. Acked({KEG, STATIC}) = {}
        BY AcksDiffer DEF Acked
      <3> QED
        BY <2>1, <3>1, <3>2, WriteAcks DEF OnAccepted
    <2>2. CASE OnCommand
      <3>1. PICK c \in Commands, reply \in SUBSET {KEG, STATIC} :
              /\ c.kind # "big" /\ c = Head(inbox)
              /\ Write({Ack(c.id)} \cup reply)
        BY <2>2 DEF OnCommand, Received, Commands, Kinds
      <3>2. done = {c.id} /\ c.id \in Ids
        BY <3>1, WhoAsks DEF Commands
      <3>3. Acked(reply) = {}
        BY AcksDiffer DEF Acked
      <3>4. Acked({Ack(c.id)} \cup reply) = Acked({Ack(c.id)}) \cup Acked(reply)
        BY AcksDiffer
      <3>5. Acked({Ack(c.id)} \cup reply) = {c.id}
        BY <3>2, <3>3, <3>4, AcksDiffer
      <3> QED
        BY <3>1, <3>2, <3>5, WriteAcks
    <2>3. CASE OnResponse \/ OnOversized
      <3>1. UNCHANGED unread
        BY <2>3 DEF OnResponse, OnOversized
      <3>2. done = {}
        BY <2>3, WhoAsks DEF OnResponse, OnOversized, Received
      <3> QED
        BY <3>1, <3>2
    <2> QED
      BY <2>1, <2>2, <2>3
  <1> HIDE DEF done
  <1> QED
    BY <1>1, <1>2, <1>3, <1>4, <1>5 DEF AckInv

\* A connection that was just opened is owed nothing.
LEMMA OpenAcks == Open => AckInv'
  <1> SUFFICES ASSUME Open
               PROVE  AckInv'
    OBVIOUS
  <1>1. Acked(unread') = {}
    BY AcksDiffer DEF Open, Acked
  <1>2. Asked(inbox') = {} /\ AskedOnce(inbox')
    BY DEF Open, Asked, AskedOnce
  <1> QED
    BY <1>1, <1>2 DEF Open, AckInv

\* A step that leaves the packets alone, or adds no acknowledgement to them.
LEMMA SameAcks ==
    ASSUME AckInv, tcp' = "established" => tcp = "established",
           UNCHANGED <<inbox, owed>>,
           UNCHANGED unread \/ \E packets \in SUBSET {KEG, PING} : Write(packets)
    PROVE  AckInv'
  <1> SUFFICES ASSUME tcp = "established"
               PROVE  AckInv'
    BY DEF AckInv
  <1>1. Acked(unread') = Acked(unread)
    <2>1. ASSUME NEW packets \in SUBSET {KEG, PING}, Write(packets)
          PROVE  Acked(unread') = Acked(unread)
      <3>1. Acked(packets) = {}
        BY AcksDiffer DEF Acked
      <3> QED
        BY <2>1, <3>1, WriteAcks
    <2> QED
      BY <2>1
  <1> QED
    BY <1>1 DEF AckInv

\* Every step keeps the account.
LEMMA NextAcks == LinkTypes /\ AckInv /\ [Next]_vars => AckInv'
  <1> SUFFICES ASSUME LinkTypes, AckInv, [Next]_vars
               PROVE  AckInv'
    OBVIOUS
  <1>0. CASE tcp' # "established"
    BY <1>0 DEF AckInv
  <1>1. CASE Open
    BY <1>1, OpenAcks
  <1> SUFFICES ASSUME tcp = "established", tcp' = "established", ~Open
               PROVE  AckInv'
    BY <1>0, <1>1, StillOpen
  <1> USE DEF srv_vars
  <1>2. CASE WifiDown \/ OtaStart \/ Reconnect \/ Reboot \/ SrvClose \/ NetAbort
    BY <1>2 DEF WifiDown, OtaStart, Reconnect, Reboot, Fail, Stop, SrvClose, NetAbort
  <1>3. CASE OnAccepted \/ OnResponse \/ OnCommand \/ OnOversized
    BY <1>3, ReceiveAcks
  <1>4. CASE AwaitRetry \/ LinkUp \/ EndIncoming \/ OtaError
    BY <1>4, SameAcks DEF AwaitRetry, LinkUp, EndIncoming, OtaError
  <1>5. CASE Report
    BY <1>5, SameAcks DEF Report
  <1>6. CASE SrvRead
    <2>1. owed' = owed \ Acked(unread) /\ Acked(unread') = {}
      BY <1>6 DEF SrvRead, Acked, LinkTypes
    <2>2. AskedOnce(inbox') /\ Asked(inbox') = Asked(inbox)
      <3>1. UNCHANGED inbox \/ \E p \in {OK, Refused} : inbox' = Append(inbox, p)
        BY <1>6 DEF SrvRead
      <3> QED
        BY <3>1, ResponseAsked DEF AckInv, LinkTypes
    <2> QED
      BY <2>1, <2>2 DEF AckInv
  <1>7. CASE SrvReply
    <2>1. \E p \in {OK, Refused} : inbox' = Append(inbox, p)
      BY <1>7 DEF SrvReply
    <2>2. AskedOnce(inbox') /\ Asked(inbox') = Asked(inbox)
      BY <2>1, ResponseAsked DEF AckInv, LinkTypes
    <2> QED
      BY <1>7, <2>2 DEF SrvReply, AckInv
  <1>8. CASE SrvCommand
    <2>1. PICK c \in Commands :
            /\ c.id \notin owed
            /\ inbox' = Append(inbox, c)
            /\ owed' = IF c.kind = "big" THEN owed ELSE owed \cup {c.id}
      BY <1>8 DEF SrvCommand
    <2>2. {id \in Ids : Asks(c, id)} = IF c.kind = "big" THEN {} ELSE {c.id}
      BY WhoAsks
    <2>3. c.id \notin Asked(inbox) /\ c.id \notin Acked(unread)
      BY <2>1 DEF AckInv
    <2>4. \A id \in Asked(inbox) : ~Asks(c, id)
      BY <2>3 DEF Asks
    <2>5. /\ AskedOnce(inbox')
          /\ Asked(inbox') = Asked(inbox) \cup {id \in Ids : Asks(c, id)}
      BY <2>1, <2>4, AppendAsked, KindsDiffer DEF AckInv, LinkTypes
    <2> QED
      BY <1>8, <2>1, <2>2, <2>3, <2>5 DEF SrvCommand, AckInv
  <1>9. CASE SrvVanish \/ WifiLost \/ WifiBack \/ Tick
    BY <1>9, SameAcks DEF SrvVanish, WifiLost, WifiBack, Tick
  <1>10. CASE UNCHANGED vars
    BY <1>10, SameAcks DEF vars
  <1> QED
    BY <1>2, <1>3, <1>4, <1>5, <1>6, <1>7, <1>8, <1>9, <1>10 DEF Next, Loop

\* ino:920, 1030, 1037, 1043: what the server waits for is a command the device has
\* not read or an acknowledgement the server has not read, for any number of ids
\* and any buffer.
THEOREM CommandsAcknowledged == Spec => []AckAccounting
  <1>1. Init => AckInv
    BY DEF Init, AckInv
  <1>2. LinkTypes /\ AckInv => AckAccounting
    BY AskedRange DEF LinkTypes, AckInv, AckAccounting, Acked
  <1> QED
    BY InitSessionTypes, NextLinkTypes, NextAcks, <1>1, <1>2, PTL DEF Spec

-----------------------------------------------------------------------------
(***************************************************************************)
(* An authenticated connection is not silent for long.                     *)
(***************************************************************************)

\* An update runs between two passes, and has ended the session.
OtaIdle == ota => pc = "link" /\ ~authed

\* The login was granted in the pass that is under way.
JustGranted == pc \in {"incoming", "report"} /\ quiet <= gap

\* Report has found ping below the interval in the pass before, or in this one,
\* since when the clock has not wrapped; and since the login it has wrapped at
\* most once, in the pass of the login.
Tested ==
    /\ quiet <= ping + MaxGap
    /\ ping < PingInterval + gap + (IF pc = "link" THEN 0 ELSE MaxGap)

\* The inductive invariant behind KeepAlive.
PingInv == authed /\ tcp = "established" => JustGranted \/ Tested

\* An update never meets a session.
LEMMA NextOta == DeviceTypes /\ OtaIdle /\ [Next]_vars => OtaIdle'
  <1> SUFFICES ASSUME DeviceTypes, OtaIdle, [Next]_vars
               PROVE  OtaIdle'
    OBVIOUS
  <1> USE DEF OtaIdle, DeviceTypes
  <1>1. CASE WifiDown \/ AwaitRetry \/ Reconnect \/ LinkUp
    BY <1>1 DEF WifiDown, AwaitRetry, Reconnect, LinkUp, AtLink
  <1>2. CASE OnAccepted \/ OnResponse \/ OnCommand \/ OnOversized
    BY <1>2 DEF OnAccepted, OnResponse, OnCommand, OnOversized, Received
  <1>3. CASE EndIncoming \/ Report
    BY <1>3 DEF EndIncoming, Report
  <1>4. CASE OtaStart \/ OtaError \/ Reboot
    BY <1>4 DEF OtaStart, OtaError, Reboot, AtLink
  <1>5. CASE SrvRead \/ SrvReply \/ SrvCommand \/ SrvClose \/ SrvVanish
    BY <1>5 DEF SrvRead, SrvReply, SrvCommand, SrvClose, SrvVanish
  <1>6. CASE NetAbort \/ WifiLost \/ WifiBack \/ Tick \/ UNCHANGED vars
    BY <1>6 DEF NetAbort, WifiLost, WifiBack, Tick, vars
  <1> QED
    BY <1>1, <1>2, <1>3, <1>4, <1>5, <1>6 DEF Next, Loop

\* A step that leaves the stage and the timers alone.
LEMMA SamePing ==
    ASSUME PingInv, UNCHANGED <<pc, ping, gap, quiet>>, authed, tcp = "established"
    PROVE  PingInv'
  BY DEF PingInv, JustGranted, Tested

\* A pass that begins: what the one before it tested still holds.
LEMMA PassBegins ==
    ASSUME ClockTypes, PingInv, LinkUp
    PROVE  PingInv'
  BY SessionAssumption
  DEF ClockTypes, PingInv, JustGranted, Tested, LinkUp, AtLink, timer_vars

\* The test at the end of a pass.
LEMMA PassTests ==
    ASSUME ClockTypes, PingInv, Report
    PROVE  PingInv'
  <1> SUFFICES ASSUME authed, tcp = "established"
               PROVE  Tested'
    BY DEF PingInv, Report
  <1>1. /\ ping \in Nat /\ gap \in 0 .. MaxGap /\ quiet \in Nat
        /\ PingInterval \in Nat \ {0} /\ MaxGap \in Nat
    BY SessionAssumption DEF ClockTypes
  <1>2. pc' = "link" /\ gap' = gap
    BY DEF Report
  <1>3. CASE ping >= PingInterval
    <2>1. ping' = 0 /\ quiet' = 0
      BY <1>3 DEF Report
    <2> QED
      BY <1>1, <1>2, <2>1 DEF Tested
  <1>4. CASE ~(ping >= PingInterval)
    <2>1. ping' = ping /\ quiet' = quiet
      BY <1>4 DEF Report
    <2>2. quiet <= ping + MaxGap
      BY <1>1 DEF PingInv, JustGranted, Tested
    <2> QED
      BY <1>1, <1>2, <1>4, <2>1, <2>2 DEF Tested
  <1> QED
    BY <1>3, <1>4

\* Time passes: ping does not wrap once it was tested.
LEMMA PassWaits ==
    ASSUME ClockTypes, OtaIdle, PingInv, Tick
    PROVE  PingInv'
  <1> SUFFICES ASSUME authed, tcp = "established"
               PROVE  JustGranted' \/ Tested'
    BY DEF PingInv, Tick
  <1>1. /\ ping \in 0 .. Period - 1 /\ gap \in Nat /\ quiet \in Nat
        /\ PingInterval \in Nat \ {0} /\ MaxGap \in Nat /\ Period \in Nat
    BY SessionAssumption DEF ClockTypes
  <1>2. ~ota /\ pc' = pc /\ gap < MaxGap /\ gap' = gap + 1
    BY DEF Tick, OtaIdle
  <1>3. quiet' <= quiet + 1
    BY <1>1 DEF Tick
  <1>4. quiet' \in Nat
    BY <1>1 DEF Tick
  <1>5. CASE JustGranted
    BY <1>1, <1>2, <1>3, <1>4, <1>5 DEF JustGranted
  <1>6. CASE Tested
    <2>1. ping + 1 < PingInterval + 2 * MaxGap
      BY <1>1, <1>2, <1>6 DEF Tested
    <2>2. ping + 1 < Period
      BY <1>1, <2>1, PassAssumption
    <2>3. ping' = ping + 1
      BY <1>1, <2>2 DEF Tick, Advance
    <2> QED
      BY <1>1, <1>2, <1>3, <1>4, <1>6, <2>3 DEF Tested
  <1> QED
    BY <1>5, <1>6 DEF PingInv

\* Every step keeps the bound on the silence.
LEMMA NextPing ==
    DeviceTypes /\ ClockTypes /\ OtaIdle /\ PingInv /\ [Next]_vars => PingInv'
  <1> SUFFICES ASSUME DeviceTypes, ClockTypes, OtaIdle, PingInv, [Next]_vars,
                      authed', tcp' = "established"
               PROVE  PingInv'
    BY DEF PingInv
  <1>0. tcp = "established" /\ (authed \/ OnAccepted)
    BY StillOpen, AuthedBy
  <1>1. CASE OnAccepted
    <2>1. pc' = "incoming" /\ quiet' = 0 /\ gap' = gap
      BY <1>1 DEF OnAccepted, Received
    <2> QED
      BY <2>1, SessionAssumption DEF PingInv, JustGranted, ClockTypes
  <1> SUFFICES ASSUME authed
               PROVE  PingInv'
    BY <1>0, <1>1
  <1> USE DEF timer_vars
  <1>2. CASE WifiDown \/ AwaitRetry \/ Reconnect \/ OtaStart \/ Reboot
    BY <1>2 DEF WifiDown, AwaitRetry, Reconnect, OtaStart, Reboot
  <1>3. CASE LinkUp
    BY <1>3, PassBegins
  <1>4. CASE OnResponse \/ OnCommand \/ OnOversized
    BY <1>0, <1>4, SamePing DEF OnResponse, OnCommand, OnOversized, Received
  <1>5. CASE EndIncoming
    BY <1>5 DEF EndIncoming, PingInv, JustGranted, Tested
  <1>6. CASE Report
    BY <1>6, PassTests
  <1>7. CASE OtaError
    BY <1>7 DEF OtaError, OtaIdle
  <1>8. CASE SrvRead \/ SrvReply \/ SrvCommand \/ SrvClose \/ SrvVanish
    BY <1>0, <1>8, SamePing DEF SrvRead, SrvReply, SrvCommand, SrvClose, SrvVanish
  <1>9. CASE NetAbort \/ WifiLost \/ WifiBack \/ UNCHANGED vars
    BY <1>0, <1>9, SamePing DEF NetAbort, WifiLost, WifiBack, vars
  <1>10. CASE Tick
    BY <1>10, PassWaits
  <1> QED
    BY <1>1, <1>2, <1>3, <1>4, <1>5, <1>6, <1>7, <1>8, <1>9, <1>10 DEF Next, Loop

\* ino:1353-1357: an authenticated device writes within the interval and three
\* passes, for every interval and every length of a pass below half the period of
\* the clock.
THEOREM KeptAlive == Spec => []KeepAlive
  <1>1. Init => PingInv /\ OtaIdle
    BY DEF Init, PingInv, OtaIdle
  <1>2. ClockTypes /\ PingInv => KeepAlive
    BY SessionAssumption DEF ClockTypes, PingInv, JustGranted, Tested, KeepAlive
  <1> QED
    BY InitSessionTypes, NextDevice, NextClock, NextOta, NextPing, <1>1, <1>2, PTL
    DEF Spec

=============================================================================
