---------------------------- MODULE BlynkSession ----------------------------
(***************************************************************************)
(* The Blynk session of the Open Keg Scale firmware: connectBlynk(),       *)
(* blynkProcessIncoming() and the link handling of loop() in               *)
(* open_keg_scale.ino, with the TCP connection underneath (WiFiClient) and *)
(* the server at the other end, which is external.                         *)
(*                                                                         *)
(* A pass of loop() goes through three stages, between which the network   *)
(* and the server act: "link" (the WiFi watchdog and the reconnection),    *)
(* "incoming" (one step per packet) and "report" (push and keep-alive).    *)
(* A packet is whole or absent here.  What the device wrote and the server *)
(* did not read yet is a set of packets; their order is not used.          *)
(***************************************************************************)
EXTENDS Naturals, Sequences, Functions

CONSTANTS
    Ids,               \* message ids the server uses for its commands
    ReconnectInterval, \* RECONNECT_INTERVAL
    PingInterval,      \* PING_INTERVAL_MS
    Period,            \* 2^32, the number of values of millis()
    MaxGap,            \* bound: longest time between two passes of loop()
    MaxInbox,          \* bound: packets waiting in the receive buffer
    MaxFaults          \* bound: faults of the network, the server and the power

ASSUME SessionAssumption ==
    /\ ReconnectInterval \in Nat
    /\ PingInterval \in Nat \ {0}
    /\ Period \in Nat \ {0}
    /\ MaxGap \in Nat
    /\ MaxInbox \in Nat
    /\ MaxFaults \in Nat

\* The clock wraps after 49 days; a pass that blocks for half of that is left out.
ASSUME PassAssumption == PingInterval + 2 * MaxGap <= Period

VARIABLES
    wifi,       \* WiFi.status() == WL_CONNECTED
    tcp,        \* WiFiClient: "closed", "established", "closing" (FIN received)
    authed,     \* blynk_authed
    ota,        \* ota_in_progress
    pc,         \* stage of loop()
    inbox,      \* packets of the connection the device has not read
    unread,     \* packets of the connection the server has not read
    reconnect,  \* millis() - last_reconnect
    ping,       \* millis() - last_ping_ms
    srv,        \* the server's end of the connection: "none", "live", "gone"
    answer,     \* its answer to the login: "none", "accepted", "refused"
    owed,       \* ids of the commands it sent on the connection and saw no ack of
    gap,        \* time since the last pass began
    quiet,      \* history: time since the connection, the login or a PING
    sent,       \* history: kinds of pins written on the connection
    faults

timer_vars == <<reconnect, ping>>
srv_vars   == <<srv, answer, owed>>
vars == <<wifi, tcp, authed, ota, pc, inbox, unread, timer_vars, srv_vars, gap,
          quiet, sent, faults>>

Kinds == {"ping", "sync", "write", "big"}

Commands == [kind : Kinds, id : Ids]

OK      == [kind |-> "ok"]       \* RESPONSE, status 200
Refused == [kind |-> "refused"]  \* RESPONSE, any other status

FromServer == Commands \cup {OK, Refused}

LOGIN  == [kind |-> "LOGIN"]
PING   == [kind |-> "PING"]
KEG    == [kind |-> "KEG"]       \* publishKegData()
STATIC == [kind |-> "STATIC"]    \* publishStaticPins()
Ack(id) == [kind |-> "ACK", id |-> id]

FromDevice == {LOGIN, PING, KEG, STATIC} \cup {Ack(id) : id \in Ids}

\* WiFiClient::connected()
Connected ==
    \/ tcp = "established"
    \/ tcp = "closing" /\ inbox # <<>>

\* Mutant of Advance: the difference is not truncated to 32 bits.
AdvanceWide(elapsed) == elapsed + 1

Advance(elapsed) == IF elapsed + 1 = Period THEN 0 ELSE elapsed + 1

\* client.write() on a connection that is no longer open is lost.
Write(packets) ==
    IF tcp = "established"
    THEN /\ unread' = unread \cup packets
         /\ sent' = sent \cup (packets \cap {KEG, STATIC})
    ELSE UNCHANGED <<unread, sent>>

\* client.stop()
Stop ==
    /\ tcp' = "closed"
    /\ inbox' = <<>>
    /\ unread' = {}
    /\ srv' = "none"
    /\ owed' = {}
    /\ UNCHANGED <<answer, sent>>

\* client.connect() succeeded, and connectBlynk() wrote the LOGIN.
Open ==
    /\ tcp' = "established"
    /\ inbox' = <<>>
    /\ unread' = {LOGIN}
    /\ sent' = {}
    /\ srv' = "live"
    /\ answer' = "none"
    /\ owed' = {}

\* client.connect() stops the previous connection and then fails.
Fail == Stop /\ quiet' = 0

Init ==
    /\ wifi = TRUE
    /\ tcp = "closed"
    /\ authed = FALSE
    /\ ota = FALSE
    /\ pc = "link"
    /\ inbox = <<>>
    /\ unread = {}
    /\ reconnect = 0
    /\ ping = 0
    /\ srv = "none"
    /\ answer = "none"
    /\ owed = {}
    /\ gap = 0
    /\ quiet = 0
    /\ sent = {}
    /\ faults = 0

Fault == faults < MaxFaults /\ faults' = faults + 1

-----------------------------------------------------------------------------
(***************************************************************************)
(* The device.                                                             *)
(***************************************************************************)
AtLink == pc = "link" /\ ~ota

\* The WiFi watchdog: stop the client and start over.
WifiDown ==
    /\ AtLink
    /\ ~wifi
    /\ authed' = FALSE
    /\ Stop
    /\ gap' = 0
    /\ quiet' = 0
    /\ UNCHANGED <<wifi, ota, pc, timer_vars, faults>>

\* Mutant of AwaitRetry: last_reconnect is set on every pass without a link.
AwaitRetryRestarts ==
    /\ AtLink
    /\ wifi
    /\ ~Connected
    /\ reconnect < ReconnectInterval
    /\ authed' = FALSE
    /\ reconnect' = 0
    /\ gap' = 0
    /\ UNCHANGED <<wifi, tcp, ota, pc, inbox, unread, ping, srv_vars, quiet, sent,
                   faults>>

\* Not connected, and the retry interval is not over.
AwaitRetry ==
    /\ AtLink
    /\ wifi
    /\ ~Connected
    /\ reconnect < ReconnectInterval
    /\ authed' = FALSE
    /\ gap' = 0
    /\ UNCHANGED <<wifi, tcp, ota, pc, inbox, unread, timer_vars, srv_vars, quiet,
                   sent, faults>>

\* Mutant of Reconnect: blynk_authed is not cleared.
ReconnectAuthed ==
    /\ AtLink
    /\ wifi
    /\ ~Connected
    /\ reconnect >= ReconnectInterval
    /\ reconnect' = 0
    /\ \/ Open /\ quiet' = 0 /\ UNCHANGED faults
       \/ Fail /\ Fault
    /\ gap' = 0
    /\ UNCHANGED <<wifi, authed, ota, pc, ping>>

\* Not connected: connectBlynk(), which opens a connection or fails.
Reconnect ==
    /\ AtLink
    /\ wifi
    /\ ~Connected
    /\ reconnect >= ReconnectInterval
    /\ reconnect' = 0
    /\ authed' = FALSE
    /\ \/ Open /\ quiet' = 0 /\ UNCHANGED faults
       \/ Fail /\ Fault
    /\ gap' = 0
    /\ UNCHANGED <<wifi, ota, pc, ping>>

LinkUp ==
    /\ AtLink
    /\ wifi
    /\ Connected
    /\ pc' = "incoming"
    /\ gap' = 0
    /\ UNCHANGED <<wifi, tcp, authed, ota, inbox, unread, timer_vars, srv_vars,
                   quiet, sent, faults>>

Received(packet) ==
    /\ pc = "incoming"
    /\ inbox # <<>>
    /\ packet = Head(inbox)
    /\ inbox' = Tail(inbox)
    /\ UNCHANGED <<wifi, tcp, ota, pc, timer_vars, srv_vars, gap, faults>>

\* Mutants of OnAccepted: any RESPONSE is taken for the grant of the login; the
\* static pins are not published.
OnAnyResponse ==
    /\ Received(OK) \/ Received(Refused)
    /\ ~authed
    /\ authed' = TRUE
    /\ Write({KEG, STATIC})
    /\ quiet' = 0

OnAcceptedNoStatic ==
    /\ Received(OK)
    /\ ~authed
    /\ authed' = TRUE
    /\ Write({KEG})
    /\ quiet' = 0

\* RESPONSE 200 while not authenticated: the login is accepted.  The message id
\* of the RESPONSE is not looked at.
OnAccepted ==
    /\ Received(OK)
    /\ ~authed
    /\ authed' = TRUE
    /\ Write({KEG, STATIC})
    /\ quiet' = 0

\* Any other RESPONSE is ignored.
OnResponse ==
    /\ Received(Refused) \/ (Received(OK) /\ authed)
    /\ UNCHANGED <<authed, unread, quiet, sent>>

\* Mutant of OnCommand: a HARDWARE_SYNC is answered by the pins alone.
OnCommandSyncUnacked ==
    /\ \E c \in Commands :
         /\ c.kind # "big"
         /\ Received(c)
         /\ Write(IF c.kind = "sync" THEN {KEG, STATIC} ELSE {Ack(c.id)})
    /\ UNCHANGED <<authed, quiet>>

\* PING, HARDWARE_SYNC, and HARDWARE or an unknown command: acknowledged first.
\* A HARDWARE write may publish the static pins (units); its effect on the scale
\* is not modelled here.
OnCommand ==
    /\ \E c \in Commands :
         /\ c.kind # "big"
         /\ Received(c)
         /\ \E reply \in CASE c.kind = "ping"  -> {{}}
                           [] c.kind = "sync"  -> {{KEG, STATIC}}
                           [] c.kind = "write" -> {{}, {STATIC}} :
              Write({Ack(c.id)} \cup reply)
    /\ UNCHANGED <<authed, quiet>>

\* A body of 128 bytes or more is discarded, without an acknowledgement.
OnOversized ==
    /\ \E c \in Commands : c.kind = "big" /\ Received(c)
    /\ UNCHANGED <<authed, unread, quiet, sent>>

EndIncoming ==
    /\ pc = "incoming"
    /\ inbox = <<>>
    /\ pc' = IF authed THEN "report" ELSE "link"
    /\ UNCHANGED <<wifi, tcp, authed, ota, inbox, unread, timer_vars, srv_vars, gap,
                   quiet, sent, faults>>

\* Mutants of Report: last_ping_ms is set on every pass; no PING is sent.
ReportRestarts ==
    /\ pc = "report"
    /\ \E push \in {{}, {KEG}} :
         IF ping >= PingInterval
         THEN Write(push \cup {PING}) /\ quiet' = 0
         ELSE Write(push) /\ UNCHANGED quiet
    /\ ping' = 0
    /\ pc' = "link"
    /\ UNCHANGED <<wifi, tcp, authed, ota, inbox, reconnect, srv_vars, gap, faults>>

ReportNoPing ==
    /\ pc = "report"
    /\ \E push \in {{}, {KEG}} : Write(push)
    /\ pc' = "link"
    /\ UNCHANGED <<wifi, tcp, authed, ota, inbox, timer_vars, srv_vars, gap, quiet,
                   faults>>

\* The end of loop(): a push that may be due, and the keep-alive PING.
Report ==
    /\ pc = "report"
    /\ \E push \in {{}, {KEG}} :
         IF ping >= PingInterval
         THEN Write(push \cup {PING}) /\ ping' = 0 /\ quiet' = 0
         ELSE Write(push) /\ UNCHANGED <<ping, quiet>>
    /\ pc' = "link"
    /\ UNCHANGED <<wifi, tcp, authed, ota, inbox, reconnect, srv_vars, gap, faults>>

\* ArduinoOTA's onStart and onError callbacks, from the head of loop().
OtaStart ==
    /\ AtLink
    /\ Fault
    /\ ota' = TRUE
    /\ authed' = FALSE
    /\ Stop
    /\ quiet' = 0
    /\ UNCHANGED <<wifi, pc, timer_vars, gap>>

OtaError ==
    /\ ota
    /\ ota' = FALSE
    /\ gap' = 0
    /\ UNCHANGED <<wifi, tcp, authed, pc, inbox, unread, timer_vars, srv_vars,
                   quiet, sent, faults>>

\* A restart: the globals are lost, and setup() joins the WiFi and calls
\* connectBlynk() once, whatever the result, without setting last_reconnect.
Reboot ==
    /\ Fault
    /\ wifi' = TRUE
    /\ authed' = FALSE
    /\ ota' = FALSE
    /\ pc' = "link"
    /\ reconnect' = 0
    /\ ping' = 0
    /\ gap' = 0
    /\ quiet' = 0
    /\ \/ Open
       \/ /\ tcp' = "closed" /\ inbox' = <<>> /\ unread' = {} /\ sent' = {}
          /\ srv' = "none" /\ answer' = "none" /\ owed' = {}

Loop ==
    \/ WifiDown
    \/ AwaitRetry
    \/ Reconnect
    \/ LinkUp
    \/ OnAccepted
    \/ OnResponse
    \/ OnCommand
    \/ OnOversized
    \/ EndIncoming
    \/ Report

-----------------------------------------------------------------------------
(***************************************************************************)
(* The server, the network and the clock: external.                        *)
(***************************************************************************)
Reachable == wifi /\ srv = "live" /\ tcp = "established"

\* The server reads what there is: acknowledgements, and the LOGIN, to which it
\* answers once.
SrvRead ==
    /\ Reachable
    /\ unread # {}
    /\ unread' = {}
    /\ owed' = {id \in owed : Ack(id) \notin unread}
    /\ IF LOGIN \in unread
       THEN \/ answer' = "accepted" /\ inbox' = Append(inbox, OK) /\ UNCHANGED faults
            \/ answer' = "refused" /\ inbox' = Append(inbox, Refused) /\ Fault
       ELSE UNCHANGED <<answer, inbox, faults>>
    /\ UNCHANGED <<wifi, tcp, authed, ota, pc, timer_vars, srv, gap, quiet, sent>>

\* It answers a PING or a pin write of a client it accepted.
SrvReply ==
    /\ Reachable
    /\ answer # "none"
    /\ Len(inbox) < MaxInbox
    /\ inbox' = Append(inbox, IF answer = "accepted" THEN OK ELSE Refused)
    /\ UNCHANGED <<wifi, tcp, authed, ota, pc, unread, timer_vars, srv_vars, gap,
                   quiet, sent, faults>>

\* It sends a command, before or after the login.
SrvCommand ==
    /\ Reachable
    /\ Len(inbox) < MaxInbox
    /\ \E c \in Commands :
         /\ c.id \notin owed
         /\ inbox' = Append(inbox, c)
         /\ owed' = IF c.kind = "big" THEN owed ELSE owed \cup {c.id}
    /\ UNCHANGED <<wifi, tcp, authed, ota, pc, unread, timer_vars, srv, answer, gap,
                   quiet, sent, faults>>

\* It closes the connection; whether the device still sees what it had received
\* depends on the TCP stack.
SrvClose ==
    /\ Reachable
    /\ Fault
    /\ srv' = "gone"
    /\ tcp' \in {"closing", "closed"}
    /\ unread' = {}
    /\ UNCHANGED <<wifi, authed, ota, pc, inbox, timer_vars, answer, owed, gap, quiet,
                   sent>>

\* It disappears without a word.
SrvVanish ==
    /\ srv = "live"
    /\ Fault
    /\ srv' = "gone"
    /\ UNCHANGED <<wifi, tcp, authed, ota, pc, inbox, unread, timer_vars, answer,
                   owed, gap, quiet, sent>>

\* TCP gives up on data that nobody acknowledges.
NetAbort ==
    /\ tcp = "established"
    /\ srv = "gone"
    /\ unread # {}
    /\ tcp' = "closed"
    /\ UNCHANGED <<wifi, authed, ota, pc, inbox, unread, timer_vars, srv_vars, gap,
                   quiet, sent, faults>>

WifiLost ==
    /\ wifi
    /\ Fault
    /\ wifi' = FALSE
    /\ UNCHANGED <<tcp, authed, ota, pc, inbox, unread, timer_vars, srv_vars, gap,
                   quiet, sent>>

WifiBack ==
    /\ ~wifi
    /\ wifi' = TRUE
    /\ UNCHANGED <<tcp, authed, ota, pc, inbox, unread, timer_vars, srv_vars, gap,
                   quiet, sent, faults>>

Tick ==
    /\ gap < MaxGap \/ ota
    /\ gap' = IF ota THEN gap ELSE gap + 1
    /\ reconnect' = Advance(reconnect)
    /\ ping' = Advance(ping)
    /\ quiet' = IF tcp = "established" /\ quiet < Period THEN quiet + 1 ELSE quiet
    /\ UNCHANGED <<wifi, tcp, authed, ota, pc, inbox, unread, srv_vars, sent, faults>>

Next ==
    \/ Loop
    \/ OtaStart
    \/ OtaError
    \/ Reboot
    \/ SrvRead
    \/ SrvReply
    \/ SrvCommand
    \/ SrvClose
    \/ SrvVanish
    \/ NetAbort
    \/ WifiLost
    \/ WifiBack
    \/ Tick

Spec == Init /\ [][Next]_vars

\* loop() is called for ever; an update ends; the server reads, the network
\* comes back and TCP gives up; time passes.
Fairness ==
    /\ WF_vars(Loop)
    /\ WF_vars(OtaError)
    /\ WF_vars(SrvRead)
    /\ WF_vars(NetAbort)
    /\ WF_vars(WifiBack)
    /\ WF_vars(Tick)

FairSpec == Spec /\ Fairness

-----------------------------------------------------------------------------
\* Type correctness of blynk_authed, the timers and the connection.
TypeOK ==
    /\ wifi \in BOOLEAN
    /\ tcp \in {"closed", "established", "closing"}
    /\ authed \in BOOLEAN
    /\ ota \in BOOLEAN
    /\ pc \in {"link", "incoming", "report"}
    /\ inbox \in Seq(FromServer)
    /\ unread \subseteq FromDevice
    /\ reconnect \in 0 .. Period - 1
    /\ ping \in 0 .. Period - 1
    /\ srv \in {"none", "live", "gone"}
    /\ answer \in {"none", "accepted", "refused"}
    /\ owed \subseteq Ids
    /\ gap \in 0 .. MaxGap
    /\ quiet \in 0 .. Period
    /\ sent \subseteq {KEG, STATIC}
    /\ faults \in 0 .. MaxFaults

\* The device takes itself for authenticated only when the server accepted the
\* login of this connection, although it matches no message id (ino:1006-1015)
\* and blynk_authed outlives the connection until the next pass (ino:1321).
AuthSound == authed => answer = "accepted"

\* On a live connection that is authenticated, the server was sent the keg data
\* and the static pins of this connection (ino:1008-1012), not of an earlier one.
SnapshotSent == authed /\ tcp = "established" => sent = {KEG, STATIC}

\* Every command that fits the buffer is acknowledged exactly once (ino:920,
\* 1030, 1037, 1043): what the server waits for is either a command the device
\* has not read or an acknowledgement the server has not read, never both.
AckAccounting ==
    tcp = "established" =>
      LET asked == {c.id : c \in {x \in Range(inbox) :
                                    x.kind \in {"ping", "sync", "write"}}}
          acked == {id \in Ids : Ack(id) \in unread}
      IN owed = asked \cup acked /\ asked \cap acked = {}

\* While authenticated the device stays silent for less than the PING interval and
\* three passes (ino:1353-1357), whatever last_ping_ms was at the login: two for
\* the passes around the test, and a third when the difference of the times wraps
\* between the login and the end of its pass.
KeepAlive ==
    authed /\ tcp = "established" => quiet < PingInterval + 3 * MaxGap

\* A server that disappears from an authenticated connection is noticed.
DeadPeerNoticed == (authed /\ srv = "gone") ~> ~authed

\* Once the faults end, the device logs in again and stays logged in, unless the
\* login was refused or the server disappeared while the connection was open.
Recovers == <>[](answer # "refused" /\ srv # "gone") => <>[]authed

\* The session implements the contract of KegLink.
link == IF ~Connected THEN "down" ELSE IF authed THEN "live" ELSE "joining"

Contract == INSTANCE KegLink WITH link <- link, granted <- (answer = "accepted")

\* Every step of the session is a step of the link's contract: no connection is
\* live before its login is granted, and none is joined while live.
ImplementsKegLink == Contract!Spec

\* README.md:208, "Device sends PING (cmd=6) every 30 s to keep the connection
\* alive": of every open connection.
OpenConnectionPinged ==
    tcp = "established" => quiet < PingInterval + 3 * MaxGap
=============================================================================
