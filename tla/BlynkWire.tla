------------------------------ MODULE BlynkWire ------------------------------
(***************************************************************************)
(* The Blynk connection of open_keg_scale.ino byte by byte: how            *)
(* blynkProcessIncoming() finds the packets in what WiFiClient received,   *)
(* and what the app shows and types while the units change.  BlynkSession  *)
(* has whole packets, timers and the WiFi; they are left out here.         *)
(*                                                                         *)
(* The numbers of bytes are scaled down; only their order matters: header, *)
(* body buffer, receive window, 2^16.  One weight stands for all: 1 kg is  *)
(* 2 lb.  A command's id is 0 when the server has forgotten it.            *)
(***************************************************************************)
EXTENDS Integers, Sequences, SequencesExt

CONSTANTS
    Header, Buffer, Window, Modulus,  \* 5, sizeof(body), TCP_WND, 2^16
    Lengths,     \* lengths of the other commands of the server
    Ids,         \* message ids of the server
    MaxPackets, MaxOut,  \* bounds: packets under way to the device, from it
    PushEvery,   \* SEND_INTERVAL_MS, in passes of loop()
    MaxFaults    \* bound: ends of the server's connection, power failures

ASSUME WireAssumption ==
    /\ Header \in Nat \ {0}
    /\ Buffer \in Nat \ {0}
    /\ {Window, Modulus} \subseteq Nat
    /\ Header + Buffer <= Window /\ Window < Modulus
    /\ Lengths \subseteq 0..(Modulus - 1)
    /\ Ids \subseteq Nat \ {0}
    /\ {MaxPackets, MaxOut, PushEvery} \subseteq Nat \ {0}
    /\ MaxFaults \in Nat

VARIABLES
    pc,     \* "link", "incoming", "execute" (after the ack), "report"
    tcp,    \* WiFiClient: "none" (no context), "established", "closing", "closed"
    in,     \* stream: the packets not wholly read; taken: bytes read of the first;
            \* arrived: bytes available()
    dev,    \* blynk_authed, cfg.unit_system, passes since the last push
    rom,    \* unit_system in EEPROM
    todo,   \* the command being executed
    out,    \* what the server has not read of what was written
    app,    \* live: the server's end is open; unit and value as shown; fresh: the
            \* unit was sent on this connection; owed: ids it waits for
    seen,   \* history: a length that wraps was sent on this connection; the unit
            \* acknowledged last; the power failed before it was set; a weight was
            \* taken for another
    faults

vars == <<pc, tcp, in, dev, rom, todo, out, app, seen, faults>>

Units == {1, 2}   \* metric, US

\* gramsToDisplayWeight() of the one weight; volume and temperature go the same way.
Displayed(unit) == IF unit = 2 THEN 2 ELSE 1

\* Mutant of Taken: the value is taken for kg.
TakenKg(value, unit) == value = 1

\* displayWeightToGrams(value) is the one weight.
Taken(value, unit) == value = Displayed(unit)

\* Packets of the server: RESPONSE 200, and commands.
OK == [kind |-> "ok", len |-> 0, id |-> 0]
SetUnit(unit, id) == [kind |-> "unit", len |-> 1, id |-> id, unit |-> unit]
Calibrate(value, sure, id) ==
    [kind |-> "weight", len |-> 1, id |-> id, value |-> value, sure |-> sure]
Other(len, id) == [kind |-> "other", len |-> len, id |-> id]

Size(p) == Header + p.len

\* Upto(s)[k]: the bytes of the first k packets of s.
Upto(s) ==
    LET sum[k \in 0..Len(s)] == IF k = 0 THEN 0 ELSE sum[k - 1] + Size(s[k])
    IN sum
Bytes(s) == Upto(s)[Len(s)]

\* Mutant of PacketLen: only the header is waited for.
PacketLenHeader(p) == Header

\* "(uint16_t)(5 + length)"
PacketLen(p) == Size(p) % Modulus

Connected == tcp = "established" \/ (tcp = "closing" /\ in.arrived > 0)

\* A client that has received nothing.
NoInput == [stream |-> <<>>, taken |-> 0, arrived |-> 0]

\* The number of whole packets in the first n bytes of s.
Whole(s, n) ==
    CHOOSE k \in 0..Len(s) :
        /\ Upto(s)[k] <= n
        /\ k = Len(s) \/ n < Upto(s)[k + 1]

\* The input after n more bytes were read.
After(n) ==
    LET k == Whole(in.stream, in.taken + n)
    IN [stream  |-> SubSeq(in.stream, k + 1, Len(in.stream)),
        taken   |-> in.taken + n - Upto(in.stream)[k],
        arrived |-> in.arrived - n]

\* Mutant of Write: it looks at status().
WriteEstablished(messages) ==
    IF tcp = "established"
    THEN /\ Len(out) + Len(messages) <= MaxOut
         /\ out' = out \o messages
    ELSE UNCHANGED out

\* client.write(): lost when the connection is gone; waits for room otherwise.
Write(messages) ==
    IF tcp \in {"established", "closing"}
    THEN /\ Len(out) + Len(messages) <= MaxOut
         /\ out' = out \o messages
    ELSE UNCHANGED out

\* blynkSendPin(): each pin in a HARDWARE command of its own.
SendPins(pins) == Write(pins)

Login == [kind |-> "login"]
Ack(id) == [kind |-> "ack", id |-> id]
Pins(kind, value) == [kind |-> kind, value |-> value]
Keg(unit) == Pins("keg", Displayed(unit))   \* publishKegData()
Static(unit) == Pins("static", unit)        \* publishStaticPins()

Init ==
    /\ pc = "link"
    /\ tcp = "none"
    /\ in = NoInput
    /\ dev = [authed |-> FALSE, unit |-> 1, push |-> 0]
    /\ rom = 1
    /\ todo = OK
    /\ out = <<>>
    /\ app = [live |-> FALSE, unit |-> 1, value |-> 1, fresh |-> FALSE, owed |-> <<>>]
    /\ seen = [wrap |-> FALSE, acked |-> 1, cut |-> FALSE, misread |-> FALSE]
    /\ faults = 0

-----------------------------------------------------------------------------
(***************************************************************************)
(* loop() and connectBlynk()                                               *)
(***************************************************************************)

\* client.connect() stops and releases the old context, and makes a new one,
\* which is released again when the connection fails.
Connect ==
    /\ pc = "link"
    /\ ~Connected
    /\ dev' = [dev EXCEPT !.authed = FALSE]
    /\ in' = NoInput
    /\ \/ tcp' = "none" /\ out' = <<>> /\ UNCHANGED seen
          /\ app' = [app EXCEPT !.live = FALSE, !.fresh = FALSE, !.owed = <<>>]
       \/ tcp' = "established" /\ out' = <<Login>> /\ seen' = [seen EXCEPT !.wrap = FALSE]
          /\ app' = [app EXCEPT !.live = TRUE, !.fresh = FALSE, !.owed = <<>>]
    /\ UNCHANGED <<pc, rom, todo, faults>>

Proceed ==
    /\ pc = "link"
    /\ Connected
    /\ pc' = "incoming"
    /\ UNCHANGED <<tcp, in, dev, rom, todo, out, app, seen, faults>>

\* packet_len; in the midst of a packet it may be anything.
Needed == IF in.arrived >= Header /\ in.taken = 0
          THEN PacketLen(Head(in.stream)) ELSE Header

\* Mutant of Waits: one byte more is waited for.
WaitsForMore == in.arrived < Header \/ in.arrived <= Needed

\* The loop ends: no header, or no whole packet by its reckoning.
Waits == in.arrived < Header \/ in.arrived < Needed

\* The packet the loop stands at.
AtPacket(p) ==
    /\ pc = "incoming"
    /\ ~Waits
    /\ in.taken = 0
    /\ p = Head(in.stream)

EndIncoming ==
    /\ pc = "incoming"
    /\ Waits
    /\ pc' = IF dev.authed THEN "report" ELSE "link"
    /\ UNCHANGED <<tcp, in, dev, rom, todo, out, app, seen, faults>>

\* A RESPONSE, the first one: the values and the units are sent.
Response ==
    /\ AtPacket(OK)
    /\ in' = After(Header)
    /\ IF dev.authed THEN UNCHANGED <<dev, out>>
       ELSE /\ dev' = [dev EXCEPT !.authed = TRUE]
            /\ SendPins(<<Keg(dev.unit), Static(dev.unit)>>)
    /\ UNCHANGED <<pc, tcp, rom, todo, app, seen, faults>>

\* Bytes of p that the loop reads: readBytes() and read() do not wait for long.
Readable(p) == IF in.arrived < Size(p) THEN in.arrived ELSE Size(p)

\* Mutant of Command: only what changes a setting is acknowledged.
CommandUnacked ==
    /\ \E p \in Range(in.stream) :
         /\ AtPacket(p)
         /\ p.kind # "ok" /\ p.len < Buffer
         /\ in' = After(Readable(p))
         /\ Write(IF p.kind = "unit" THEN <<Ack(p.id)>> ELSE <<>>)
         /\ todo' = p
         /\ seen' = IF p.kind = "unit"
                    THEN [seen EXCEPT !.acked = p.unit, !.cut = FALSE] ELSE seen
    /\ pc' = "execute"
    /\ UNCHANGED <<tcp, dev, rom, app, faults>>

\* A command that fits into body[] is acknowledged first.
Command ==
    /\ \E p \in Range(in.stream) :
         /\ AtPacket(p)
         /\ p.kind # "ok" /\ p.len < Buffer
         /\ in' = After(Readable(p))
         /\ Write(<<Ack(p.id)>>)
         /\ todo' = p
         /\ seen' = IF p.kind = "unit"
                    THEN [seen EXCEPT !.acked = p.unit, !.cut = FALSE] ELSE seen
    /\ pc' = "execute"
    /\ UNCHANGED <<tcp, dev, rom, app, faults>>

\* Another one is read away, as far as it has arrived, and not acknowledged.
Discard ==
    /\ \E p \in Range(in.stream) :
         AtPacket(p) /\ p.len >= Buffer /\ in' = After(Readable(p))
    /\ UNCHANGED <<pc, tcp, dev, rom, todo, out, app, seen, faults>>

\* In the midst of a packet five bytes of its body are taken for a header, and any
\* number after them for a body: external data, of which we assume only that it
\* does not look like a setting.
Garbage ==
    /\ pc = "incoming"
    /\ in.taken > 0 /\ in.arrived >= Header
    /\ \/ /\ pc' = IF dev.authed THEN "report" ELSE "link"
          /\ UNCHANGED <<in, out>>
       \/ /\ \E n \in Header..in.arrived : in' = After(n)
          /\ pc' = pc
          /\ UNCHANGED out
    /\ UNCHANGED <<tcp, dev, rom, todo, app, seen, faults>>

\* parseHardwareBody() and the chain of strcmp(): what is not a write of a known
\* pin does nothing.
IsWrite(p) == p.kind \in {"unit", "weight"}

\* Mutant of Execute: the unit is not saved.
ExecuteUnsaved ==
    /\ pc = "execute"
    /\ pc' = "incoming"
    /\ todo' = OK
    /\ \/ /\ todo.kind = "unit"
          /\ dev' = [dev EXCEPT !.unit = todo.unit]
          /\ SendPins(<<Static(todo.unit)>>)
          /\ UNCHANGED <<rom, seen>>
       \/ todo.kind # "unit" /\ UNCHANGED <<dev, rom, out, seen>>
    /\ UNCHANGED <<tcp, in, app, faults>>

\* handleIncomingHardware() after its acknowledgement.
Execute ==
    /\ pc = "execute"
    /\ pc' = "incoming"
    /\ todo' = OK
    /\ \/ /\ todo.kind = "unit"
          /\ dev' = [dev EXCEPT !.unit = todo.unit]
          /\ rom' = todo.unit
          /\ SendPins(<<Static(todo.unit)>>)
          /\ UNCHANGED seen
       \/ /\ todo.kind = "weight"
          /\ seen' = [seen EXCEPT !.misread =
                        @ \/ (todo.sure /\ ~Taken(todo.value, dev.unit))]
          /\ UNCHANGED <<dev, rom, out>>
       \/ ~IsWrite(todo) /\ UNCHANGED <<dev, rom, out, seen>>
    /\ UNCHANGED <<tcp, in, app, faults>>

\* Mutants of Report: the count goes one too far; only a pour pushes the values.
ReportLate ==
    /\ pc = "report"
    /\ pc' = "link"
    /\ \/ /\ dev.push < PushEvery
          /\ dev' = [dev EXCEPT !.push = @ + 1]
          /\ UNCHANGED out
       \/ /\ dev' = [dev EXCEPT !.push = 0]
          /\ SendPins(<<Keg(dev.unit)>>)
    /\ UNCHANGED <<tcp, in, rom, todo, app, seen, faults>>

ReportPours ==
    /\ pc = "report"
    /\ pc' = "link"
    /\ dev' = [dev EXCEPT !.push = IF @ + 1 < PushEvery THEN @ + 1 ELSE PushEvery - 1]
    /\ UNCHANGED <<tcp, in, rom, todo, out, app, seen, faults>>

\* The end of loop(); a pour may push the values at any time.
Report ==
    /\ pc = "report"
    /\ pc' = "link"
    /\ \/ /\ dev.push + 1 < PushEvery
          /\ dev' = [dev EXCEPT !.push = @ + 1]
          /\ UNCHANGED out
       \/ /\ dev' = [dev EXCEPT !.push = 0]
          /\ SendPins(<<Keg(dev.unit)>>)
    /\ UNCHANGED <<tcp, in, rom, todo, app, seen, faults>>

PowerFail ==
    /\ faults < MaxFaults
    /\ faults' = faults + 1
    /\ pc' = "link"
    /\ tcp' = "none"
    /\ in' = NoInput
    /\ dev' = [authed |-> FALSE, unit |-> rom, push |-> 0]
    /\ todo' = OK
    /\ out' = <<>>
    /\ app' = [app EXCEPT !.live = FALSE, !.fresh = FALSE, !.owed = <<>>]
    /\ seen' = [seen EXCEPT !.cut = @ \/ (pc = "execute" /\ todo.kind = "unit")]
    /\ UNCHANGED rom

-----------------------------------------------------------------------------
(***************************************************************************)
(* The server, the app behind it and the network: external                 *)
(***************************************************************************)

\* A unit is on its way, so that the app may show the other one.
UnitUnderWay ==
    \/ \E p \in Range(in.stream) : p.kind = "unit"
    \/ pc = "execute" /\ todo.kind = "unit"
    \/ \E m \in Range(out) : m.kind = "static"

UsedIds == Range(app.owed) \cup {p.id : p \in Range(in.stream)}

\* The app sends a command, after the login.  Bound: it does so between two passes,
\* so that the loop of blynkProcessIncoming() ends.
Send ==
    /\ app.live /\ pc = "link"
    /\ Login \notin Range(out)
    /\ ~seen.wrap
    /\ Len(in.stream) < MaxPackets
    /\ \E id \in Ids :
         /\ id \notin UsedIds /\ 1..(id - 1) \subseteq UsedIds
         /\ \E p \in {SetUnit(unit, id) : unit \in Units \ {app.unit}}
                     \cup {Calibrate(Displayed(app.unit), app.fresh /\ ~UnitUnderWay, id)}
                     \cup {Other(len, id) : len \in Lengths} :
              /\ in' = [in EXCEPT !.stream = Append(@, p)]
              /\ app' = IF p.len < Buffer THEN [app EXCEPT !.owed = Append(@, id)]
                                          ELSE app
              /\ seen' = [seen EXCEPT !.wrap = @ \/ Size(p) >= Modulus]
    /\ UNCHANGED <<pc, tcp, dev, rom, todo, out, faults>>

\* The ids in s but this one.
Without(s, id) ==
    FlattenSeq([i \in 1..Len(s) |-> IF s[i] = id THEN <<>> ELSE <<s[i]>>])

\* The server reads a message.
Receive ==
    /\ app.live
    /\ out # <<>>
    /\ LET m == Head(out)
       IN /\ in' = IF m.kind = "login" THEN [in EXCEPT !.stream = <<OK>>] ELSE in
          /\ app' = CASE m.kind = "ack"    -> [app EXCEPT !.owed = Without(@, m.id)]
                      [] m.kind = "keg"    -> [app EXCEPT !.value = m.value]
                      [] m.kind = "static" -> [app EXCEPT !.unit = m.value, !.fresh = TRUE]
                      [] OTHER             -> app
    /\ out' = Tail(out)
    /\ UNCHANGED <<pc, tcp, dev, rom, todo, seen, faults>>

\* Bytes arrive, as far as the receive window allows; it makes a difference only
\* when the loop waits for them.
Arrive ==
    /\ tcp = "established"
    /\ pc = "incoming" /\ Waits
    /\ \E n \in (in.arrived + 1)..Window :
         /\ n + in.taken <= Bytes(in.stream)
         /\ in' = [in EXCEPT !.arrived = n]
    /\ UNCHANGED <<pc, tcp, dev, rom, todo, out, app, seen, faults>>

\* The server ends; its FIN comes after what has arrived, perhaps half a packet.
Close ==
    /\ app.live
    /\ faults < MaxFaults
    /\ faults' = faults + 1
    /\ app' = [app EXCEPT !.live = FALSE]
    /\ tcp' = "closing"
    /\ UNCHANGED <<pc, in, dev, rom, todo, out, seen>>

\* It answers what is written to the closed end with a RST.
Rst ==
    /\ tcp = "closing"
    /\ out # <<>>
    /\ tcp' = "closed"
    /\ out' = <<>>
    /\ UNCHANGED <<pc, in, dev, rom, todo, app, seen, faults>>

Loop == Connect \/ Proceed \/ EndIncoming \/ Response \/ Command \/ Discard \/ Garbage
        \/ Execute \/ Report

Next == Loop \/ PowerFail \/ Send \/ Receive \/ Arrive \/ Close \/ Rst

\* loop() is called for ever; the network delivers what was sent.
Fairness == WF_vars(Loop) /\ SF_vars(Arrive) /\ WF_vars(Receive) /\ WF_vars(Rst)

Spec == Init /\ [][Next]_vars /\ Fairness

-----------------------------------------------------------------------------
TypeOK ==
    /\ pc \in {"link", "incoming", "execute", "report"}
    /\ tcp \in {"none", "established", "closing", "closed"}
    /\ in.taken \in Nat
    /\ in.arrived \in 0..Window
    /\ in.arrived + in.taken <= Bytes(in.stream)
    /\ dev \in [authed : BOOLEAN, unit : Units, push : 0..(PushEvery - 1)]
    /\ rom \in Units
    /\ Len(out) <= MaxOut
    /\ app.unit \in Units /\ app.value \in {1, 2}
    /\ seen \in [wrap : BOOLEAN, acked : Units, cut : BOOLEAN, misread : BOOLEAN]
    /\ faults \in 0..MaxFaults

\* blynkProcessIncoming() takes the bytes at the start of a packet for a header,
\* unless the server has sent a length that wraps in uint16_t (ino:998).
AlignedUnlessWrapped == in.taken > 0 => seen.wrap

\* The ids that the messages in s acknowledge, and those of the packets in s that are
\* to be acknowledged.
AckIds(s) ==
    FlattenSeq([i \in 1..Len(s) |-> IF s[i].kind = "ack" THEN <<s[i].id>> ELSE <<>>])
WaitingIds(s) ==
    FlattenSeq([i \in 1..Len(s) |-> IF s[i].kind # "ok" /\ s[i].len < Buffer
                                    THEN <<s[i].id>> ELSE <<>>])

\* Every command the server waits for is still under way to the device or its
\* acknowledgement is under way back, once and in the order sent (ino:920, 1023).
AnswersInOrder ==
    app.live /\ ~seen.wrap => app.owed = AckIds(out) \o WaitingIds(in.stream)

\* A unit that was acknowledged is the stored one, unless it is just being set or
\* the power failed right between the two (ino:920, 975).
AckedUnitKept ==
    rom = seen.acked \/ seen.cut \/ (pc = "execute" /\ todo.kind = "unit")

\* A weight that was typed while the app showed the units of this connection and
\* none was under way is the weight the user saw (ino:934, 971).
WeightAsTyped == ~seen.misread

\* A packet that fits into the receive window is dealt with while the connection
\* lasts, whatever the pieces it arrives in (ino:999).
Waiting(id) ==
    /\ tcp = "established"
    /\ in.stream # <<>> /\ in.taken = 0
    /\ Head(in.stream).id = id
    /\ Size(Head(in.stream)) <= Window
StallsOnlyTooLong == \A id \in Ids \cup {0} : []<>~Waiting(id)

\* A connection that the server closed with half a packet sent, which connected()
\* takes for open, is given up once the device writes (WiFiClient.cpp:332).
HalfClosedNoticed == tcp = "closing" /\ dev.authed ~> tcp # "closing"

\* When the units stay and the connection too, the app comes to show the values in
\* the units it shows (ino:855, 974).
ValuesFollow ==
    \A unit \in Units :
        <>[](tcp = "established" /\ dev.unit = unit /\ dev.authed) =>
            <>[](app.unit = unit /\ app.value = Displayed(unit))
=============================================================================
