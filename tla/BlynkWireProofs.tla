-------------------------- MODULE BlynkWireProofs --------------------------
(***************************************************************************)
(* What holds of the connection for every number of bytes, packet length,  *)
(* number of faults and order of the messages: an acknowledged unit is     *)
(* stored, the loop stands at the start of a packet, a weight is taken in  *)
(* the unit it was typed in, and the commands are answered in order.       *)
(***************************************************************************)
EXTENDS BlynkWireBytes

\* The history variable has the four fields it starts with.
SeenFields ==
    seen = [wrap |-> seen.wrap, acked |-> seen.acked, cut |-> seen.cut,
            misread |-> seen.misread]

\* What is about to be set is what was acknowledged last.
Setting == pc = "execute" /\ todo.kind = "unit"
AckInv == AckedUnitKept /\ SeenFields /\ (Setting => todo.unit = seen.acked)

-----------------------------------------------------------------------------
LEMMA InitAck == Init => AckInv
  BY DEF Init, AckInv, AckedUnitKept, SeenFields, Setting

LEMMA NextAck == AckInv /\ [Next]_vars => AckInv'
  <1> SUFFICES ASSUME AckInv, [Next]_vars PROVE AckInv'
    OBVIOUS
  <1> USE DEF AckInv, AckedUnitKept, SeenFields, Setting
  <1>1. CASE Connect
    BY <1>1 DEF Connect
  <1>2. CASE Command
    <2>1. PICK p : /\ todo' = p
                   /\ seen' = IF p.kind = "unit"
                              THEN [seen EXCEPT !.acked = p.unit, !.cut = FALSE] ELSE seen
      BY <1>2 DEF Command
    <2>2. pc = "incoming" /\ pc' = "execute" /\ rom' = rom
      BY <1>2 DEF Command, AtPacket
    <2>3. CASE p.kind = "unit"
      <3>1. seen' = [wrap |-> seen.wrap, acked |-> p.unit, cut |-> FALSE,
                     misread |-> seen.misread]
        BY <2>1, <2>3
      <3> QED
        BY <2>1, <2>2, <2>3, <3>1
    <2>4. CASE p.kind # "unit"
      BY <2>1, <2>2, <2>4
    <2> QED
      BY <2>3, <2>4
  <1>3. CASE Execute
    <2>1. CASE todo.kind = "unit"
      BY <1>3, <2>1 DEF Execute, IsWrite, OK
    <2>2. CASE todo.kind # "unit"
      <3>1. rom' = rom /\ pc' = "incoming"
        BY <1>3, <2>2 DEF Execute
      <3>2. SeenFields' /\ seen'.acked = seen.acked /\ seen'.cut = seen.cut
        BY <1>3, <2>2 DEF Execute
      <3> QED
        BY <2>2, <3>1, <3>2
    <2> QED
      BY <2>1, <2>2
  <1>4. CASE PowerFail
    <2>1. pc' = "link" /\ rom' = rom
      BY <1>4 DEF PowerFail
    <2>2. /\ SeenFields' /\ seen'.acked = seen.acked
          /\ seen'.cut = (seen.cut \/ Setting)
      BY <1>4 DEF PowerFail
    <2> QED
      BY <2>1, <2>2
  <1>5. CASE Send
    <2>1. SeenFields' /\ seen'.acked = seen.acked /\ seen'.cut = seen.cut
      BY <1>5 DEF Send
    <2> QED
      BY <1>5, <2>1 DEF Send
  <1>6. CASE Proceed \/ EndIncoming \/ Response \/ Discard \/ Garbage \/ Report
    BY <1>6 DEF Proceed, EndIncoming, Response, AtPacket, Discard, Garbage, Report
  <1>7. CASE Receive \/ Arrive \/ Close \/ Rst \/ UNCHANGED vars
    BY <1>7 DEF Receive, Arrive, Close, Rst, vars
  <1> QED
    BY <1>1, <1>2, <1>3, <1>4, <1>5, <1>6, <1>7 DEF Next, Loop

\* An acknowledged unit is stored, except for a power failure just before.
THEOREM AcknowledgedIsStored == Spec => []AckedUnitKept
  <1>1. AckInv => AckedUnitKept
    BY DEF AckInv
  <1> QED
    BY <1>1, InitAck, NextAck, PTL DEF Spec

-----------------------------------------------------------------------------
(***************************************************************************)
(* Types                                                                   *)
(***************************************************************************)

\* What the device sends.
Messages ==
    {Login} \cup {Ack(id) : id \in Ids} \cup {Pins("keg", value) : value \in {1, 2}}
    \cup {Pins("static", unit) : unit \in Units}

\* The app's record, with the ids it waits for.
AppTypes ==
    app \in [live : BOOLEAN, unit : Units, value : {1, 2}, fresh : BOOLEAN, owed : Seq(Ids)]

CodeTypes ==
    /\ pc \in {"link", "incoming", "execute", "report"}
    /\ tcp \in {"none", "established", "closing", "closed"}
    /\ dev \in [authed : BOOLEAN, unit : Units, push : 0..(PushEvery - 1)]
    /\ rom \in Units
    /\ todo \in Packets
    /\ seen \in [wrap : BOOLEAN, acked : Units, cut : BOOLEAN, misread : BOOLEAN]
    /\ faults \in 0..MaxFaults

OutTypes == out \in Seq(Messages) /\ Len(out) <= MaxOut

\* Before the server has read the login it has sent nothing.
LoginFirst ==
    \A i \in 1..Len(out) : out[i].kind = "login" => i = 1 /\ in = NoInput

WireInv == CodeTypes /\ OutTypes /\ AppTypes /\ InputOK(in) /\ LoginFirst

-----------------------------------------------------------------------------
LEMMA Bounds ==
  /\ Header \in Nat \ {0} /\ Buffer \in Nat \ {0} /\ Window \in Nat /\ Modulus \in Nat
  /\ Header <= Window /\ Window < Modulus
  /\ MaxPackets \in Nat \ {0} /\ MaxOut \in Nat \ {0} /\ PushEvery \in Nat \ {0}
  /\ MaxFaults \in Nat
  BY WireAssumption DEF WireAssumption

LEMMA PacketKinds ==
  ASSUME NEW p \in Packets
  PROVE  /\ p.kind \in {"ok", "unit", "weight", "other"}
         /\ p.kind = "ok" => p = OK
         /\ p.kind # "ok" => p.id \in Ids
         /\ p.kind = "unit" => p.unit \in Units
  BY DEF Packets, OK, SetUnit, Calibrate, Other

LEMMA NoInputOK == InputOK(NoInput) /\ Bytes(<<>>) = 0
  <1>1. <<>> \in Seq(Packets)
    OBVIOUS
  <1>2. Bytes(<<>>) = 0
    BY <1>1, BytesNat
  <1> QED
    BY <1>1, <1>2, Bounds DEF InputOK, NoInput

\* What the device writes.
LEMMA MessageTypes ==
  /\ Login \in Messages
  /\ \A id \in Ids : Ack(id) \in Messages /\ Ack(id).kind = "ack" /\ Ack(id).id = id
  /\ \A unit \in Units :
       /\ Keg(unit) \in Messages /\ Keg(unit).kind = "keg"
       /\ Static(unit) \in Messages /\ Static(unit).kind = "static"
       /\ Static(unit).value = unit
  BY DEF Messages, Login, Ack, Keg, Static, Pins, Displayed, Units

LEMMA WriteTypes ==
  ASSUME OutTypes, NEW messages \in Seq(Messages), Write(messages),
         \A i \in 1..Len(messages) : messages[i].kind # "login", LoginFirst, in' = in \/ in # NoInput
  PROVE  OutTypes' /\ LoginFirst'
  <1>1. CASE out' = out
    <2>1. ASSUME NEW i \in 1..Len(out), out[i].kind = "login" PROVE i = 1 /\ in' = NoInput
      BY <2>1 DEF LoginFirst
    <2> QED
      BY <1>1, <2>1 DEF OutTypes, LoginFirst
  <1>2. CASE out' = out \o messages /\ Len(out) + Len(messages) <= MaxOut
    <2>1. /\ out' \in Seq(Messages) /\ Len(out') = Len(out) + Len(messages)
          /\ \A i \in 1..Len(out') :
               out'[i] = IF i <= Len(out) THEN out[i] ELSE messages[i - Len(out)]
      BY <1>2, ConcatProperties DEF OutTypes
    <2>2. Len(out) \in Nat /\ Len(messages) \in Nat
      BY DEF OutTypes
    <2>3. ASSUME NEW i \in 1..Len(out'), out'[i].kind = "login" PROVE i = 1 /\ in' = NoInput
      <3>1. CASE i <= Len(out)
        BY <2>1, <2>2, <2>3, <3>1 DEF LoginFirst
      <3>2. CASE ~(i <= Len(out))
        <4>1. i - Len(out) \in 1..Len(messages)
          BY <2>1, <2>2, <3>2
        <4> QED
          BY <2>1, <2>3, <3>2, <4>1
      <3> QED
        BY <3>1, <3>2
    <2> QED
      BY <1>2, <2>1, <2>3 DEF OutTypes, LoginFirst
  <1> QED
    BY <1>1, <1>2 DEF Write

\* At the start of a packet the packet is in the stream.
LEMMA PacketThere ==
  ASSUME InputOK(in), NEW p, AtPacket(p)
  PROVE  /\ pc = "incoming" /\ in.taken = 0 /\ in # NoInput
         /\ in.stream # <<>> /\ p = Head(in.stream) /\ p \in Packets
         /\ Header <= in.arrived /\ Needed <= in.arrived
         /\ Needed = PacketLen(p)
         /\ Readable(p) \in 0..in.arrived
  <1>1. /\ in.stream \in Seq(Packets) /\ in.taken \in Nat /\ in.arrived \in 0..Window
        /\ in.arrived + in.taken <= Bytes(in.stream)
    BY DEF InputOK
  <1>2. /\ pc = "incoming" /\ in.taken = 0 /\ p = Head(in.stream)
        /\ ~(in.arrived < Header) /\ ~(in.arrived < Needed)
    BY DEF AtPacket, Waits
  <1>3. in.arrived \in Nat /\ Header <= in.arrived /\ in.arrived > 0
    BY <1>1, <1>2, Bounds
  <1>4. in.stream # <<>>
    <2>1. Bytes(in.stream) # 0
      BY <1>1, <1>2, <1>3, BytesNat
    <2> QED
      BY <2>1, NoInputOK
  <1>5. p \in Packets
    BY <1>1, <1>2, <1>4
  <1>6. Needed = PacketLen(p)
    BY <1>2, <1>3, Bounds DEF Needed
  <1>7. PacketLen(p) \in Nat
    BY <1>5, PacketSize, Bounds DEF PacketLen
  <1>8. Readable(p) \in 0..in.arrived
    BY <1>3, <1>5, PacketSize DEF Readable
  <1>9. in # NoInput
    BY <1>3 DEF NoInput
  <1> QED
    BY <1>2, <1>3, <1>4, <1>5, <1>6, <1>7, <1>8, <1>9

LEMMA InitTypes == Init => WireInv
  <1> SUFFICES ASSUME Init PROVE WireInv
    OBVIOUS
  <1>1. CodeTypes
    BY Bounds DEF Init, CodeTypes, Units, Packets
  <1>2. OutTypes /\ LoginFirst
    BY Bounds DEF Init, OutTypes, LoginFirst
  <1>3. AppTypes
    BY DEF Init, AppTypes, Units
  <1>4. InputOK(in)
    BY NoInputOK DEF Init
  <1> QED
    BY <1>1, <1>2, <1>3, <1>4 DEF WireInv

\* The packets that the loop takes off the input, and what it answers.
LEMMA ReadTypes ==
  ASSUME WireInv, Response \/ Command \/ Discard \/ Garbage
  PROVE  WireInv'
  <1> USE DEF WireInv
  <1>1. CASE Response
    <2>1. Header \in 0..in.arrived /\ in' = After(Header) /\ in # NoInput
      BY <1>1, PacketThere, Bounds DEF Response, InputOK
    <2>2. InputOK(in)'
      BY <2>1, AfterOK
    <2>3. CASE dev.authed
      BY <1>1, <2>1, <2>2, <2>3 DEF Response, CodeTypes, OutTypes, LoginFirst, AppTypes
    <2>4. CASE ~dev.authed
      <3>1. dev' = [dev EXCEPT !.authed = TRUE] /\ Write(<<Keg(dev.unit), Static(dev.unit)>>)
        BY <1>1, <2>4 DEF Response, SendPins
      <3>2. /\ <<Keg(dev.unit), Static(dev.unit)>> \in Seq(Messages)
            /\ \A i \in 1..Len(<<Keg(dev.unit), Static(dev.unit)>>) :
                  <<Keg(dev.unit), Static(dev.unit)>>[i].kind # "login"
        BY MessageTypes DEF CodeTypes
      <3>3. OutTypes' /\ LoginFirst'
        BY <2>1, <3>1, <3>2, WriteTypes
      <3>4. CodeTypes' /\ AppTypes'
        BY <1>1, <3>1 DEF Response, CodeTypes, AppTypes
      <3> QED
        BY <2>2, <3>3, <3>4
    <2> QED
      BY <2>3, <2>4
  <1>2. CASE Command
    <2>1. PICK p : /\ AtPacket(p) /\ p.kind # "ok"
                   /\ in' = After(Readable(p)) /\ Write(<<Ack(p.id)>>) /\ todo' = p
                   /\ seen' = IF p.kind = "unit"
                              THEN [seen EXCEPT !.acked = p.unit, !.cut = FALSE] ELSE seen
      BY <1>2 DEF Command
    <2>2. p \in Packets /\ Readable(p) \in 0..in.arrived /\ in # NoInput
      BY <2>1, PacketThere
    <2>3. InputOK(in)'
      BY <2>1, <2>2, AfterOK
    <2>4. p.id \in Ids /\ (p.kind = "unit" => p.unit \in Units)
      BY <2>1, <2>2, PacketKinds
    <2>5. /\ <<Ack(p.id)>> \in Seq(Messages)
          /\ \A i \in 1..Len(<<Ack(p.id)>>) : <<Ack(p.id)>>[i].kind # "login"
      BY <2>4, MessageTypes
    <2>6. OutTypes' /\ LoginFirst'
      BY <2>1, <2>2, <2>5, WriteTypes
    <2>7. seen' \in [wrap : BOOLEAN, acked : Units, cut : BOOLEAN, misread : BOOLEAN]
      BY <2>1, <2>4 DEF CodeTypes
    <2>8. CodeTypes' /\ AppTypes'
      BY <1>2, <2>1, <2>2, <2>7 DEF Command, CodeTypes, AppTypes
    <2> QED
      BY <2>3, <2>6, <2>8
  <1>3. CASE Discard
    <2>1. PICK p : AtPacket(p) /\ in' = After(Readable(p))
      BY <1>3 DEF Discard
    <2>2. InputOK(in)' /\ in # NoInput
      BY <2>1, PacketThere, AfterOK
    <2>3. OutTypes' /\ LoginFirst' /\ CodeTypes' /\ AppTypes'
      BY <1>3, <2>2 DEF Discard, OutTypes, LoginFirst, CodeTypes, AppTypes
    <2> QED
      BY <2>2, <2>3
  <1>4. CASE Garbage
    <2>1. in # NoInput
      BY <1>4, Bounds DEF Garbage, NoInput
    <2>2. InputOK(in)'
      <3>1. CASE in' = in
        BY <3>1
      <3>2. CASE \E n \in Header..in.arrived : in' = After(n)
        BY <3>2, AfterOK, Bounds DEF InputOK
      <3> QED
        BY <1>4, <3>1, <3>2 DEF Garbage
    <2>3. OutTypes' /\ LoginFirst' /\ CodeTypes' /\ AppTypes'
      BY <1>4, <2>1 DEF Garbage, OutTypes, LoginFirst, CodeTypes, AppTypes
    <2> QED
      BY <2>2, <2>3
  <1> QED
    BY <1>1, <1>2, <1>3, <1>4

LEMMA WithoutType ==
  ASSUME NEW s \in Seq(Ids), NEW id
  PROVE  Without(s, id) \in Seq(Ids)
  <1> DEFINE f == [i \in 1..Len(s) |-> IF s[i] = id THEN <<>> ELSE <<s[i]>>]
  <1>1. \A i \in 1..Len(s) : f[i] \in Seq(Ids)
    OBVIOUS
  <1>2. f \in Seq(Seq(Ids))
    BY <1>1
  <1> QED
    BY <1>2, FlattenType DEF Without

\* A connection that begins or ends.
LEMMA AppReset ==
  ASSUME AppTypes, NEW live \in BOOLEAN,
         app' = [app EXCEPT !.live = live, !.fresh = FALSE, !.owed = <<>>]
  PROVE  AppTypes'
  <1>1. <<>> \in Seq(Ids)
    OBVIOUS
  <1>2. app.unit \in Units /\ app.value \in {1, 2}
    BY DEF AppTypes
  <1>3. \A unit \in Units, value \in {1, 2}, owed \in Seq(Ids) :
          [live |-> live, unit |-> unit, value |-> value, fresh |-> FALSE, owed |-> owed]
            \in [live : BOOLEAN, unit : Units, value : {1, 2}, fresh : BOOLEAN,
                 owed : Seq(Ids)]
    OBVIOUS
  <1>4. app' = [live |-> live, unit |-> app.unit, value |-> app.value,
                fresh |-> FALSE, owed |-> <<>>]
    BY DEF AppTypes
  <1> QED
    BY <1>1, <1>2, <1>3, <1>4, Zenon DEF AppTypes

\* The other steps of the device.
LEMMA LoopTypes ==
  ASSUME WireInv, Connect \/ Proceed \/ EndIncoming \/ Execute \/ Report
  PROVE  WireInv'
  <1> USE DEF WireInv
  <1>1. CASE Connect
    <2>1. InputOK(in)'
      BY <1>1, NoInputOK DEF Connect
    <2>2. out' \in {<<>>, <<Login>>} /\ in' = NoInput
      BY <1>1 DEF Connect
    <2>3. OutTypes' /\ LoginFirst'
      <3>1. CASE out' = <<>>
        BY <3>1, Bounds DEF OutTypes, LoginFirst
      <3>2. CASE out' = <<Login>>
        <4>1. <<Login>> \in Seq(Messages) /\ Len(<<Login>>) = 1 /\ 1 <= MaxOut
          BY MessageTypes, Bounds
        <4> QED
          BY <2>2, <3>2, <4>1 DEF OutTypes, LoginFirst
      <3> QED
        BY <2>2, <3>1, <3>2
    <2>4. AppTypes'
      <3>1. PICK live \in BOOLEAN :
               app' = [app EXCEPT !.live = live, !.fresh = FALSE, !.owed = <<>>]
        BY <1>1 DEF Connect
      <3> QED
        BY <3>1, AppReset
    <2>5. dev' \in [authed : BOOLEAN, unit : Units, push : 0..(PushEvery - 1)]
      BY <1>1 DEF Connect, CodeTypes
    <2>6. seen' \in [wrap : BOOLEAN, acked : Units, cut : BOOLEAN, misread : BOOLEAN]
      BY <1>1 DEF Connect, CodeTypes
    <2>7. CodeTypes'
      BY <1>1, <2>5, <2>6 DEF Connect, CodeTypes
    <2> QED
      BY <2>1, <2>3, <2>4, <2>7
  <1>2. CASE Proceed \/ EndIncoming
    BY <1>2 DEF Proceed, EndIncoming, CodeTypes, OutTypes, AppTypes, LoginFirst
  <1>3. CASE Execute
    <2>1. OK \in Packets /\ in' = in
      BY <1>3 DEF Execute, Packets
    <2>2. OutTypes' /\ LoginFirst' /\ dev' \in [authed : BOOLEAN, unit : Units, push : 0..(PushEvery - 1)]
          /\ rom' \in Units
      <3>1. CASE todo.kind = "unit" /\ dev' = [dev EXCEPT !.unit = todo.unit]
                 /\ rom' = todo.unit /\ SendPins(<<Static(todo.unit)>>)
        <4>1. todo.unit \in Units
          BY <3>1, PacketKinds DEF CodeTypes
        <4>2. /\ <<Static(todo.unit)>> \in Seq(Messages)
              /\ \A i \in 1..Len(<<Static(todo.unit)>>) :
                    <<Static(todo.unit)>>[i].kind # "login"
          BY <4>1, MessageTypes
        <4>3. OutTypes' /\ LoginFirst'
          BY <2>1, <3>1, <4>2, WriteTypes DEF SendPins
        <4> QED
          BY <3>1, <4>1, <4>3 DEF CodeTypes
      <3>2. CASE dev' = dev /\ rom' = rom /\ out' = out
        BY <2>1, <3>2 DEF OutTypes, LoginFirst, CodeTypes
      <3> QED
        BY <1>3, <3>1, <3>2 DEF Execute
    <2>3. seen' \in [wrap : BOOLEAN, acked : Units, cut : BOOLEAN, misread : BOOLEAN]
      BY <1>3 DEF Execute, CodeTypes
    <2>4. CodeTypes' /\ AppTypes' /\ InputOK(in)'
      BY <1>3, <2>1, <2>2, <2>3 DEF Execute, CodeTypes, AppTypes
    <2> QED
      BY <2>2, <2>4
  <1>4. CASE Report
    <2>1. OutTypes' /\ LoginFirst' /\ in' = in
      <3>1. CASE out' = out
        BY <1>4, <3>1 DEF Report, OutTypes, LoginFirst
      <3>2. CASE SendPins(<<Keg(dev.unit)>>)
        <4>1. /\ <<Keg(dev.unit)>> \in Seq(Messages)
              /\ \A i \in 1..Len(<<Keg(dev.unit)>>) : <<Keg(dev.unit)>>[i].kind # "login"
          BY MessageTypes DEF CodeTypes
        <4>2. in' = in
          BY <1>4 DEF Report
        <4> QED
          BY <3>2, <4>1, <4>2, WriteTypes DEF SendPins
      <3> QED
        BY <1>4, <3>1, <3>2 DEF Report
    <2>2. dev' \in [authed : BOOLEAN, unit : Units, push : 0..(PushEvery - 1)]
      <3>1. dev.push + 1 < PushEvery => dev.push + 1 \in 0..(PushEvery - 1)
        BY Bounds DEF CodeTypes
      <3>2. 0 \in 0..(PushEvery - 1)
        BY Bounds
      <3> QED
        BY <1>4, <3>1, <3>2 DEF Report, CodeTypes
    <2>3. CodeTypes' /\ AppTypes'
      BY <1>4, <2>2 DEF Report, CodeTypes, AppTypes
    <2> QED
      BY <2>1, <2>3
  <1> QED
    BY <1>1, <1>2, <1>3, <1>4

\* A command of the app: a weight is sure when its unit is known.
LEMMA Sends ==
  ASSUME WireInv, Send
  PROVE  \E id \in Ids, p \in Packets :
            /\ p.id = id /\ p.kind # "ok" /\ id \notin UsedIds
            /\ p.kind = "weight" =>
                 p.value = Displayed(app.unit) /\ p.sure = (app.fresh /\ ~UnitUnderWay)
            /\ in' = [in EXCEPT !.stream = Append(in.stream, p)]
            /\ app' = IF p.len < Buffer THEN [app EXCEPT !.owed = Append(app.owed, id)]
                                        ELSE app
            /\ seen' = [seen EXCEPT !.wrap = seen.wrap \/ Size(p) >= Modulus]
  <1> DEFINE sure == app.fresh /\ ~UnitUnderWay
             Sent(p, id) ==
               /\ in' = [in EXCEPT !.stream = Append(in.stream, p)]
               /\ app' = IF p.len < Buffer THEN [app EXCEPT !.owed = Append(app.owed, id)]
                                           ELSE app
               /\ seen' = [seen EXCEPT !.wrap = seen.wrap \/ Size(p) >= Modulus]
  <1>1. PICK id \in Ids :
          /\ id \notin UsedIds
          /\ \E p \in {SetUnit(unit, id) : unit \in Units \ {app.unit}}
                      \cup {Calibrate(Displayed(app.unit), sure, id)}
                      \cup {Other(len, id) : len \in Lengths} : Sent(p, id)
    BY DEF Send
  <1>2. PICK p \in {SetUnit(unit, id) : unit \in Units \ {app.unit}}
                   \cup {Calibrate(Displayed(app.unit), sure, id)}
                   \cup {Other(len, id) : len \in Lengths} : Sent(p, id)
    BY <1>1
  <1>3. sure \in BOOLEAN /\ Displayed(app.unit) \in {1, 2}
    BY DEF Displayed
  <1> HIDE DEF sure, Sent
  <1>4. /\ p \in Packets /\ p.id = id /\ p.kind # "ok"
        /\ p.kind = "weight" => p.value = Displayed(app.unit) /\ p.sure = sure
    <2>1. CASE p \in {SetUnit(unit, id) : unit \in Units \ {app.unit}}
      BY <2>1 DEF Packets, SetUnit
    <2>2. CASE p = Calibrate(Displayed(app.unit), sure, id)
      BY <1>3, <2>2 DEF Packets, Calibrate
    <2>3. CASE p \in {Other(len, id) : len \in Lengths}
      BY <2>3 DEF Packets, Other
    <2> QED
      BY <1>2, <2>1, <2>2, <2>3
  <1> QED
    BY <1>1, <1>2, <1>4 DEF sure, Sent

\* The environment.
LEMMA OutsideTypes ==
  ASSUME WireInv, PowerFail \/ Send \/ Receive \/ Arrive \/ Close \/ Rst
  PROVE  WireInv'
  <1> USE DEF WireInv
  <1>1. CASE PowerFail
    <2>1. InputOK(in)'
      BY <1>1, NoInputOK DEF PowerFail
    <2>2. OutTypes' /\ LoginFirst'
      BY <1>1, Bounds DEF PowerFail, OutTypes, LoginFirst
    <2>3. AppTypes'
      BY <1>1, AppReset DEF PowerFail
    <2>4. dev' \in [authed : BOOLEAN, unit : Units, push : 0..(PushEvery - 1)]
      <3>1. 0 \in 0..(PushEvery - 1)
        BY Bounds
      <3>2. dev' = [authed |-> FALSE, unit |-> rom, push |-> 0]
        BY <1>1 DEF PowerFail
      <3> QED
        BY <3>1, <3>2 DEF CodeTypes
    <2>5. seen' \in [wrap : BOOLEAN, acked : Units, cut : BOOLEAN, misread : BOOLEAN]
      BY <1>1 DEF PowerFail, CodeTypes
    <2>6. todo' \in Packets /\ faults' \in 0..MaxFaults
      BY <1>1, Bounds DEF PowerFail, CodeTypes, Packets
    <2>7. CodeTypes'
      BY <1>1, <2>4, <2>5, <2>6 DEF PowerFail, CodeTypes
    <2> QED
      BY <2>1, <2>2, <2>3, <2>7
  <1>2. CASE Send
    <2>1. PICK id \in Ids, p \in Packets :
              /\ in' = [in EXCEPT !.stream = Append(in.stream, p)]
              /\ app' = IF p.len < Buffer THEN [app EXCEPT !.owed = Append(app.owed, id)]
                                          ELSE app
              /\ seen' = [seen EXCEPT !.wrap = seen.wrap \/ Size(p) >= Modulus]
      BY <1>2, Sends
    <2>2. p \in Packets
      OBVIOUS
    <2>3. InputOK(in)'
      <3>1. Bytes(Append(in.stream, p)) = Bytes(in.stream) + Size(p)
        BY <2>2, BytesAppend DEF InputOK
      <3>2. Bytes(in.stream) \in Nat /\ Size(p) \in Nat
        BY <2>2, BytesNat, PacketSize DEF InputOK
      <3>3. in'.stream = Append(in.stream, p) /\ in'.taken = in.taken /\ in'.arrived = in.arrived
            /\ in' \in [stream : Seq(Packets), taken : Nat, arrived : 0..Window]
        <4>1. Append(in.stream, p) \in Seq(Packets)
          BY <2>2, AppendProperties DEF InputOK
        <4> HIDE DEF Packets
        <4> QED
          BY <2>1, <4>1 DEF InputOK
      <3>4. in.arrived \in Nat /\ in.taken \in Nat /\ in.arrived + in.taken <= Bytes(in.stream)
        BY Bounds DEF InputOK
      <3> QED
        BY <3>1, <3>2, <3>3, <3>4 DEF InputOK
    <2>4. OutTypes' /\ LoginFirst'
      <3>1. Login \notin Range(out) /\ out' = out
        BY <1>2 DEF Send
      <3>2. \A m \in Messages : m.kind = "login" => m = Login
        BY DEF Messages, Login, Ack, Pins
      <3>3. \A i \in 1..Len(out) : out[i].kind # "login"
        BY <3>1, <3>2 DEF OutTypes, Range
      <3> QED
        BY <3>1, <3>3 DEF OutTypes, LoginFirst
    <2>5. AppTypes'
      <3>1. Append(app.owed, id) \in Seq(Ids)
        BY <2>1, AppendProperties DEF AppTypes
      <3> QED
        BY <2>1, <3>1 DEF AppTypes
    <2>6. CodeTypes'
      BY <1>2, <2>1 DEF Send, CodeTypes
    <2> QED
      BY <2>3, <2>4, <2>5, <2>6
  <1>3. CASE Receive
    <2> DEFINE m == Head(out)
    <2>1. m \in Messages /\ out' = Tail(out) /\ m = out[1] /\ out # <<>>
      BY <1>3 DEF Receive, OutTypes
    <2>2. m.kind = "login" => in = NoInput
      BY <2>1 DEF OutTypes, LoginFirst
    <2>3. /\ OutTypes' /\ \A i \in 1..Len(out') : out'[i] = out[i + 1] /\ i + 1 \in 1..Len(out)
      BY <2>1, Bounds DEF OutTypes
    <2>4. \A i \in 1..Len(out') : out'[i].kind # "login"
      BY <2>3 DEF LoginFirst
    <2>5. InputOK(in)'
      <3>1. CASE m.kind = "login"
        <4>1. in' = [stream |-> <<OK>>, taken |-> 0, arrived |-> 0]
          BY <1>3, <2>2, <3>1 DEF Receive, NoInput
        <4>2. <<OK>> \in Seq(Packets)
          BY DEF Packets
        <4>3. Bytes(<<OK>>) \in Nat
          BY <4>2, BytesNat
        <4> QED
          BY <4>1, <4>2, <4>3, Bounds DEF InputOK
      <3>2. CASE m.kind # "login"
        BY <1>3, <3>2 DEF Receive
      <3> QED
        BY <3>1, <3>2
    <2>6. AppTypes'
      <3>1. m.kind \in {"keg", "static"} => m.value \in {1, 2}
        BY <2>1 DEF Messages, Login, Ack, Pins, Units
      <3>2. Without(app.owed, m.id) \in Seq(Ids)
        BY WithoutType DEF AppTypes
      <3>3. app' = CASE m.kind = "ack"    -> [app EXCEPT !.owed = Without(@, m.id)]
                      [] m.kind = "keg"    -> [app EXCEPT !.value = m.value]
                      [] m.kind = "static" -> [app EXCEPT !.unit = m.value, !.fresh = TRUE]
                      [] OTHER             -> app
        BY <1>3 DEF Receive
      <3> HIDE DEF m
      <3>4. CASE m.kind = "ack"
        BY <3>2, <3>3, <3>4 DEF AppTypes
      <3>5. CASE m.kind = "keg"
        BY <3>1, <3>3, <3>5 DEF AppTypes
      <3>6. CASE m.kind = "static"
        BY <3>1, <3>3, <3>6 DEF AppTypes, Units
      <3>7. CASE m.kind # "ack" /\ m.kind # "keg" /\ m.kind # "static"
        <4>1. app' = app
          BY <3>3, <3>7
        <4> QED
          BY <4>1 DEF AppTypes
      <3> QED
        BY <3>4, <3>5, <3>6, <3>7
    <2>7. CodeTypes'
      BY <1>3 DEF Receive, CodeTypes
    <2> QED
      BY <2>3, <2>4, <2>5, <2>6, <2>7 DEF LoginFirst
  <1>4. CASE Arrive
    <2>1. PICK n \in (in.arrived + 1)..Window :
             n + in.taken <= Bytes(in.stream) /\ in' = [in EXCEPT !.arrived = n]
      BY <1>4 DEF Arrive
    <2>2. in.arrived \in Nat /\ in.taken \in Nat /\ n \in 1..Window
      BY Bounds DEF InputOK
    <2>3. InputOK(in)'
      BY <2>1, <2>2 DEF InputOK
    <2>4. in # NoInput
      BY <2>1, <2>2, NoInputOK, Bounds DEF NoInput
    <2> QED
      BY <1>4, <2>3, <2>4 DEF Arrive, OutTypes, LoginFirst, CodeTypes, AppTypes
  <1>5. CASE Close
    <2>1. AppTypes'
      BY <1>5 DEF Close, AppTypes
    <2>2. CodeTypes'
      BY <1>5, Bounds DEF Close, CodeTypes
    <2> QED
      BY <1>5, <2>1, <2>2 DEF Close, OutTypes, LoginFirst
  <1>6. CASE Rst
    <2>1. OutTypes' /\ LoginFirst'
      BY <1>6, Bounds DEF Rst, OutTypes, LoginFirst
    <2> QED
      BY <1>6, <2>1 DEF Rst, CodeTypes, AppTypes
  <1> QED
    BY <1>1, <1>2, <1>3, <1>4, <1>5, <1>6

LEMMA NextTypes == WireInv /\ [Next]_vars => WireInv'
  <1> SUFFICES ASSUME WireInv, [Next]_vars PROVE WireInv'
    OBVIOUS
  <1>1. CASE UNCHANGED vars
    BY <1>1 DEF vars, WireInv, CodeTypes, OutTypes, AppTypes, LoginFirst
  <1>2. CASE Next
    BY <1>2, ReadTypes, LoopTypes, OutsideTypes DEF Next, Loop
  <1> QED
    BY <1>1, <1>2

\* The types, and that what the device reads was sent.
THEOREM WireTypes == Spec => []TypeOK
  <1>1. WireInv => TypeOK
    BY DEF WireInv, TypeOK, CodeTypes, OutTypes, AppTypes, InputOK
  <1> QED
    BY <1>1, InitTypes, NextTypes, PTL DEF Spec

-----------------------------------------------------------------------------
(***************************************************************************)
(* The loop stays at the starts of the packets                             *)
(***************************************************************************)

\* No length wraps and no packet is read in part.
Aligned ==
    ~seen.wrap => /\ in.taken = 0
                  /\ \A i \in 1..Len(in.stream) : Size(in.stream[i]) < Modulus

LEMMA SmallRemainder ==
  ASSUME NEW n \in Nat, NEW m \in Nat, n < m
  PROVE  n % m = n
  OBVIOUS

\* A packet whose length does not wrap has wholly arrived when the loop goes on.
LEMMA PacketArrived ==
  ASSUME WireInv, Aligned, ~seen.wrap, NEW p, AtPacket(p)
  PROVE  /\ Readable(p) = Size(p)
         /\ After(Size(p)) = [stream  |-> Tail(in.stream), taken |-> 0,
                              arrived |-> in.arrived - Size(p)]
  <1>1. /\ InputOK(in) /\ in.taken = 0 /\ in.stream # <<>> /\ p = Head(in.stream)
        /\ p \in Packets /\ PacketLen(p) <= in.arrived
    BY PacketThere DEF WireInv
  <1>2. Size(p) < Modulus /\ Size(p) \in Nat
    <2>1. in.stream \in Seq(Packets)
      BY <1>1 DEF InputOK
    <2>2. 1 \in 1..Len(in.stream) /\ p = in.stream[1]
      BY <1>1, <2>1
    <2> QED
      BY <1>1, <2>2, PacketSize DEF Aligned
  <1>3. PacketLen(p) = Size(p)
    BY <1>2, SmallRemainder, Bounds DEF PacketLen
  <1>4. Readable(p) = Size(p)
    <2>1. in.arrived \in Nat
      BY <1>1, Bounds DEF InputOK
    <2> QED
      BY <1>1, <1>2, <1>3, <2>1 DEF Readable
  <1> QED
    BY <1>1, <1>4, AfterHead

\* What the loop leaves when it has read a packet.
LEMMA AlignedTail ==
  ASSUME WireInv, Aligned, in.stream # <<>>, ~seen.wrap,
         in'.stream = Tail(in.stream), in'.taken = 0
  PROVE  Aligned'
  <1>1. in.stream \in Seq(Packets)
    BY DEF WireInv, InputOK
  <1>2. \A i \in 1..Len(Tail(in.stream)) :
           i + 1 \in 1..Len(in.stream) /\ Tail(in.stream)[i] = in.stream[i + 1]
    BY <1>1
  <1> QED
    BY <1>2 DEF Aligned

LEMMA InitAligned == Init => Aligned
  BY DEF Init, Aligned, NoInput

LEMMA NextAligned == WireInv /\ Aligned /\ [Next]_vars => Aligned'
  <1> SUFFICES ASSUME WireInv, Aligned, [Next]_vars PROVE Aligned'
    OBVIOUS
  <1>0. InputOK(in) /\ in.stream \in Seq(Packets)
    BY DEF WireInv, InputOK
  <1>s. seen.wrap \in BOOLEAN
    BY DEF WireInv, CodeTypes
  <1>1. CASE Connect \/ PowerFail
    <2>1. in' = NoInput
      BY <1>1 DEF Connect, PowerFail
    <2> QED
      BY <2>1 DEF Aligned, NoInput
  <1>2. CASE Response \/ Command \/ Discard
    <2>1. PICK p : AtPacket(p) /\ in' = After(Readable(p))
      <3>1. CASE Response
        <4>1. AtPacket(OK) /\ in' = After(Header)
          BY <3>1 DEF Response
        <4>2. Header <= in.arrived /\ in.arrived \in Nat
          BY <1>0, <4>1, PacketThere, Bounds DEF InputOK
        <4>3. Size(OK) = Header
          BY Bounds DEF Size, OK
        <4>4. Readable(OK) = Header
          BY <4>2, <4>3, Bounds DEF Readable
        <4> QED
          BY <4>1, <4>4
      <3>2. CASE Command
        BY <3>2 DEF Command
      <3>3. CASE Discard
        BY <3>3 DEF Discard
      <3> QED
        BY <1>2, <3>1, <3>2, <3>3
    <2>2. seen'.wrap = seen.wrap
      BY <1>2 DEF Response, Command, Discard, WireInv, CodeTypes
    <2>3. CASE seen.wrap
      BY <2>2, <2>3 DEF Aligned
    <2>4. CASE ~seen.wrap
      <3>1. in.stream # <<>>
        BY <1>0, <2>1, PacketThere
      <3>2. in' = [stream |-> Tail(in.stream), taken |-> 0,
                   arrived |-> in.arrived - Size(p)]
        BY <2>1, <2>4, PacketArrived
      <3> QED
        BY <2>4, <3>1, <3>2, AlignedTail
    <2> QED
      BY <2>3, <2>4
  <1>3. CASE Garbage
    <2>1. seen.wrap /\ seen' = seen
      BY <1>3, <1>0, <1>s, Bounds DEF Garbage, Aligned, InputOK
    <2> QED
      BY <2>1 DEF Aligned
  <1>4. CASE Send
    <2>1. PICK p \in Packets :
              /\ in' = [in EXCEPT !.stream = Append(in.stream, p)]
              /\ seen' = [seen EXCEPT !.wrap = seen.wrap \/ Size(p) >= Modulus]
      BY <1>4, Sends
    <2>2. seen'.wrap = (seen.wrap \/ Size(p) >= Modulus)
      BY <2>1 DEF WireInv, CodeTypes
    <2>3. in'.stream = Append(in.stream, p) /\ in'.taken = in.taken
      BY <2>1 DEF WireInv, InputOK
    <2>4. Size(p) \in Nat
      BY PacketSize
    <2> SUFFICES ASSUME ~seen'.wrap PROVE Aligned'
      BY DEF Aligned
    <2>5. ~seen.wrap /\ Size(p) < Modulus
      <3>1. ~seen.wrap /\ ~(Size(p) >= Modulus)
        BY <2>2
      <3> QED
        BY <2>4, <3>1, Bounds
    <2>6. ASSUME NEW i \in 1..Len(Append(in.stream, p))
          PROVE  Size(Append(in.stream, p)[i]) < Modulus
      <3>1. CASE i \in 1..Len(in.stream)
        <4>1. Append(in.stream, p)[i] = in.stream[i]
          BY <1>0, <3>1
        <4> QED
          BY <2>5, <3>1, <4>1 DEF Aligned
      <3>2. CASE i \notin 1..Len(in.stream)
        <4>1. Append(in.stream, p)[i] = p
          BY <1>0, <3>2
        <4> QED
          BY <2>5, <4>1
      <3> QED
        BY <3>1, <3>2
    <2> QED
      BY <2>3, <2>5, <2>6 DEF Aligned
  <1>5. CASE Receive
    <2>1. seen' = seen /\ (in' = in \/ in' = [in EXCEPT !.stream = <<OK>>])
      BY <1>5 DEF Receive
    <2>2. CASE in' = in
      BY <2>1, <2>2 DEF Aligned
    <2>3. CASE in' = [in EXCEPT !.stream = <<OK>>]
      <3>1. in'.stream = <<OK>> /\ in'.taken = in.taken
        BY <2>3 DEF WireInv, InputOK
      <3>2. Size(OK) < Modulus
        BY Bounds DEF Size, OK
      <3>3. \A i \in 1..Len(<<OK>>) : <<OK>>[i] = OK
        OBVIOUS
      <3> QED
        BY <2>1, <3>1, <3>2, <3>3 DEF Aligned
    <2> QED
      BY <2>1, <2>2, <2>3
  <1>6. CASE Arrive
    <2>1. seen' = seen /\ in'.stream = in.stream /\ in'.taken = in.taken
      BY <1>6 DEF Arrive, WireInv, InputOK
    <2> QED
      BY <2>1 DEF Aligned
  <1>7. CASE Execute
    <2>1. in' = in /\ seen'.wrap = seen.wrap
      BY <1>7 DEF Execute, WireInv, CodeTypes
    <2> QED
      BY <2>1 DEF Aligned
  <1>8. CASE Proceed \/ EndIncoming \/ Report \/ Close \/ Rst \/ UNCHANGED vars
    <2>1. in' = in /\ seen' = seen
      BY <1>8 DEF Proceed, EndIncoming, Report, Close, Rst, vars
    <2> QED
      BY <2>1 DEF Aligned
  <1> QED
    BY <1>1, <1>2, <1>3, <1>4, <1>5, <1>6, <1>7, <1>8 DEF Next, Loop

\* The loop takes the start of a packet for a header, unless a length wrapped.
THEOREM HeadersFound == Spec => []AlignedUnlessWrapped
  <1>1. WireInv /\ Aligned => AlignedUnlessWrapped
    BY DEF WireInv, CodeTypes, InputOK, Aligned, AlignedUnlessWrapped
  <1> QED
    BY <1>1, InitTypes, NextTypes, InitAligned, NextAligned, PTL DEF Spec

-----------------------------------------------------------------------------
(***************************************************************************)
(* A weight is taken in the unit it was typed in                           *)
(***************************************************************************)

\* While the server's end is open, so is the device's.
Joined == app.live => tcp = "established"

\* No unit that the device has set is on its way to the app.
NoneShown == \A i \in 1..Len(out) : out[i].kind # "static"

\* The last unit on its way to the app is the device's.
LastShown ==
    \A i \in 1..Len(out) :
        out[i].kind = "static" /\ (\A j \in (i + 1)..Len(out) : out[j].kind # "static")
          => out[i].value = dev.unit

\* If none is, the app that has been sent one on this connection shows the device's.
UnitShown == app.live => LastShown /\ (app.fresh /\ NoneShown => app.unit = dev.unit)

\* p is a weight typed when the unit was known.
Sure(p) == p.kind = "weight" /\ p.sure

\* Such a weight is in the device's unit, and no unit comes before it.
FitsAt(s, i) ==
    /\ s[i].value = Displayed(dev.unit)
    /\ \A j \in 1..(i - 1) : s[j].kind # "unit"
    /\ ~Setting
WeightsFit ==
    /\ \A i \in 1..Len(in.stream) : Sure(in.stream[i]) => FitsAt(in.stream, i)
    /\ pc = "execute" /\ Sure(todo) => todo.value = Displayed(dev.unit)

WeightInv == Joined /\ UnitShown /\ WeightsFit /\ WeightAsTyped

-----------------------------------------------------------------------------
LEMMA InitWeights == Init => WeightInv
  BY DEF Init, WeightInv, Joined, UnitShown, WeightsFit, WeightAsTyped, NoInput, Sure

\* What the server reads.
LEMMA Receives ==
  ASSUME WireInv, Receive
  PROVE  /\ out # <<>> /\ out' = Tail(out) /\ out[1] \in Messages /\ app.live
         /\ Len(out) \in Nat /\ Len(out') = Len(out) - 1
         /\ \A i \in 1..Len(out') : out'[i] = out[i + 1]
         /\ out[1].kind = "login" => in = NoInput /\ in'.stream = <<OK>> /\ in'.taken = 0
         /\ out[1].kind # "login" => in' = in
         /\ out[1].kind = "ack" =>
              app'.unit = app.unit /\ app'.fresh = app.fresh /\ app'.live
              /\ app'.owed = Without(app.owed, out[1].id)
         /\ out[1].kind = "static" =>
              app'.unit = out[1].value /\ app'.fresh /\ app'.live /\ app'.owed = app.owed
         /\ out[1].kind \notin {"ack", "static"} =>
              /\ app'.unit = app.unit /\ app'.fresh = app.fresh /\ app'.live
              /\ app'.owed = app.owed
  <1>1. /\ out # <<>> /\ out' = Tail(out) /\ Head(out) = out[1] /\ app.live
        /\ Len(out) \in Nat /\ Len(out) >= 1 /\ out[1] \in Messages
        /\ Len(out') = Len(out) - 1 /\ \A i \in 1..Len(out') : out'[i] = out[i + 1]
    BY DEF Receive, WireInv, OutTypes
  <1> DEFINE m == out[1]
  <1>2. m.kind = "login" => in = NoInput
    BY <1>1 DEF WireInv, LoginFirst
  <1>3. in' = IF m.kind = "login" THEN [in EXCEPT !.stream = <<OK>>] ELSE in
    BY <1>1 DEF Receive
  <1>4. app' = CASE m.kind = "ack"    -> [app EXCEPT !.owed = Without(@, m.id)]
                 [] m.kind = "keg"    -> [app EXCEPT !.value = m.value]
                 [] m.kind = "static" -> [app EXCEPT !.unit = m.value, !.fresh = TRUE]
                 [] OTHER             -> app
    BY <1>1 DEF Receive
  <1>5. AppTypes
    BY DEF WireInv
  <1>6. m.kind = "login" => in'.stream = <<OK>> /\ in'.taken = 0
    BY <1>2, <1>3 DEF NoInput
  <1> HIDE DEF m
  <1>7. m.kind = "ack" =>
          app'.unit = app.unit /\ app'.fresh = app.fresh /\ app'.live
          /\ app'.owed = Without(app.owed, m.id)
    BY <1>1, <1>4, <1>5 DEF AppTypes
  <1>8. m.kind = "static" =>
              app'.unit = m.value /\ app'.fresh /\ app'.live /\ app'.owed = app.owed
    BY <1>1, <1>4, <1>5 DEF AppTypes
  <1>9. m.kind \notin {"ack", "static"} =>
           app'.unit = app.unit /\ app'.fresh = app.fresh /\ app'.live /\ app'.owed = app.owed
    <2>1. CASE m.kind = "keg"
      BY <1>1, <1>4, <1>5, <2>1 DEF AppTypes
    <2>2. CASE m.kind # "ack" /\ m.kind # "keg" /\ m.kind # "static"
      BY <1>1, <1>4, <2>2
    <2> QED
      BY <2>1, <2>2
  <1> QED
    BY <1>1, <1>2, <1>3, <1>6, <1>7, <1>8, <1>9 DEF m

LEMMA NextJoined == WireInv /\ Joined /\ [Next]_vars => Joined'
  <1> SUFFICES ASSUME WireInv, Joined, [Next]_vars PROVE Joined'
    OBVIOUS
  <1>1. CASE Connect \/ PowerFail
    BY <1>1 DEF Connect, PowerFail, Joined, WireInv, AppTypes
  <1>2. CASE Proceed \/ EndIncoming \/ Response \/ Command \/ Discard \/ Garbage
             \/ Execute \/ Report \/ Arrive \/ UNCHANGED vars
    <2>1. tcp' = tcp /\ app' = app
      BY <1>2 DEF Proceed, EndIncoming, Response, Command, Discard, Garbage, Execute,
                  Report, Arrive, vars
    <2> QED
      BY <2>1 DEF Joined
  <1>3. CASE Send
    BY <1>3 DEF Send, Joined
  <1>4. CASE Receive
    <2>1. tcp' = tcp /\ app.live
      BY <1>4 DEF Receive
    <2> QED
      BY <2>1 DEF Joined
  <1>5. CASE Close \/ Rst
    BY <1>5 DEF Close, Rst, Joined, WireInv, AppTypes
  <1> QED
    BY <1>1, <1>2, <1>3, <1>4, <1>5 DEF Next, Loop

\* What an open connection takes comes after what it has taken.
LEMMA WriteOpen ==
  ASSUME OutTypes, Joined, app.live, NEW messages \in Seq(Messages), Write(messages)
  PROVE  /\ out' = out \o messages
         /\ Len(out) \in Nat /\ Len(messages) \in Nat
         /\ Len(out') = Len(out) + Len(messages)
         /\ \A i \in 1..Len(out) : out'[i] = out[i]
         /\ \A i \in 1..Len(messages) : out'[Len(out) + i] = messages[i]
  <1>1. out' = out \o messages
    BY DEF Write, Joined
  <1> QED
    BY <1>1, ConcatProperties DEF OutTypes

\* After the device has sent its unit, and after it has sent something else.
LEMMA ShownUnit ==
  ASSUME OutTypes, Joined, NEW messages \in Seq(Messages), Write(messages), app' = app,
         Len(messages) >= 1, messages[Len(messages)] = Static(dev'.unit)
  PROVE  UnitShown'
  <1> SUFFICES ASSUME app.live PROVE UnitShown'
    BY DEF UnitShown
  <1>1. /\ Len(out') \in Nat /\ Len(out') >= 1
        /\ out'[Len(out')] = Static(dev'.unit)
    BY WriteOpen
  <1>2. out'[Len(out')].kind = "static" /\ out'[Len(out')].value = dev'.unit
    BY <1>1 DEF Static, Pins
  <1>3. LastShown'
    <2> SUFFICES ASSUME NEW i \in 1..Len(out'),
                        \A j \in (i + 1)..Len(out') : out'[j].kind # "static"
                 PROVE  out'[i].value = dev'.unit
      BY DEF LastShown
    <2>1. Len(out') \notin (i + 1)..Len(out')
      BY <1>2
    <2>2. i = Len(out')
      BY <1>1, <2>1
    <2> QED
      BY <1>2, <2>2
  <1>4. ~NoneShown'
    BY <1>1, <1>2 DEF NoneShown
  <1> QED
    BY <1>3, <1>4 DEF UnitShown

LEMMA ShownOther ==
  ASSUME OutTypes, Joined, UnitShown, NEW messages \in Seq(Messages),
         Write(messages) \/ out' = out,
         \A i \in 1..Len(messages) : messages[i].kind # "static",
         app' = app, dev'.unit = dev.unit
  PROVE  UnitShown'
  <1> SUFFICES ASSUME app.live PROVE UnitShown'
    BY DEF UnitShown
  <1>1. CASE out' = out
    BY <1>1 DEF UnitShown, LastShown, NoneShown
  <1>2. CASE Write(messages)
    <2>1. /\ Len(out) \in Nat /\ Len(messages) \in Nat
          /\ Len(out') = Len(out) + Len(messages)
          /\ \A i \in 1..Len(out) : out'[i] = out[i]
          /\ \A i \in 1..Len(messages) : out'[Len(out) + i] = messages[i]
      BY <1>2, WriteOpen
    <2>2. \A i \in 1..Len(out') : out'[i].kind = "static" => i \in 1..Len(out)
      <3> SUFFICES ASSUME NEW i \in 1..Len(out'), i \notin 1..Len(out)
                   PROVE  out'[i].kind # "static"
        OBVIOUS
      <3>1. i - Len(out) \in 1..Len(messages) /\ Len(out) + (i - Len(out)) = i
        BY <2>1
      <3> QED
        BY <2>1, <3>1
    <2>3. LastShown'
      <3> SUFFICES ASSUME NEW i \in 1..Len(out'), out'[i].kind = "static",
                          \A j \in (i + 1)..Len(out') : out'[j].kind # "static"
                   PROVE  out'[i].value = dev'.unit
        BY DEF LastShown
      <3>1. i \in 1..Len(out) /\ out'[i] = out[i]
        BY <2>1, <2>2
      <3>2. \A j \in (i + 1)..Len(out) : out[j].kind # "static"
        <4> TAKE j \in (i + 1)..Len(out)
        <4>1. j \in (i + 1)..Len(out') /\ out'[j] = out[j]
          BY <2>1, <3>1
        <4> QED
          BY <4>1
      <3> QED
        BY <3>1, <3>2 DEF UnitShown, LastShown
    <2>4. NoneShown' => NoneShown
      <3> SUFFICES ASSUME NoneShown', NEW i \in 1..Len(out) PROVE out[i].kind # "static"
        BY DEF NoneShown
      <3>1. i \in 1..Len(out') /\ out'[i] = out[i]
        BY <2>1
      <3> QED
        BY <3>1 DEF NoneShown
    <2> QED
      BY <2>3, <2>4 DEF UnitShown
  <1> QED
    BY <1>1, <1>2

LEMMA NextShown == WireInv /\ Joined /\ UnitShown /\ [Next]_vars => UnitShown'
  <1> SUFFICES ASSUME WireInv, Joined, UnitShown, [Next]_vars PROVE UnitShown'
    OBVIOUS
  <1> USE DEF WireInv
  <1>0. dev.unit \in Units
    BY DEF CodeTypes
  <1>1. CASE Connect
    <2>1. app'.fresh = FALSE /\ (app'.live => out' = <<Login>>)
      BY <1>1 DEF Connect, AppTypes
    <2>2. Login.kind # "static"
      BY DEF Login
    <2>3. app'.live => LastShown'
      <3> SUFFICES ASSUME app'.live, NEW i \in 1..Len(out') PROVE out'[i].kind # "static"
        BY DEF LastShown
      <3>1. out' = <<Login>> /\ i \in 1..1
        BY <2>1
      <3>2. out'[i] = Login
        BY <3>1
      <3> QED
        BY <2>2, <3>2
    <2> QED
      BY <2>1, <2>3 DEF UnitShown
  <1>2. CASE PowerFail \/ Close
    BY <1>2 DEF PowerFail, Close, UnitShown, AppTypes
  <1>3. CASE Rst
    BY <1>3 DEF Rst, Joined, UnitShown
  <1>4. CASE Response
    <2>1. CASE dev.authed
      BY <1>4, <2>1 DEF Response, UnitShown, LastShown, NoneShown
    <2>2. CASE ~dev.authed
      <3>1. dev'.unit = dev.unit /\ app' = app /\ Write(<<Keg(dev.unit), Static(dev.unit)>>)
        BY <1>4, <2>2 DEF Response, SendPins, CodeTypes
      <3> DEFINE messages == <<Keg(dev.unit), Static(dev.unit)>>
      <3>2. /\ messages \in Seq(Messages) /\ Len(messages) >= 1
            /\ messages[Len(messages)] = Static(dev'.unit)
        BY <1>0, <3>1, MessageTypes
      <3>3. Write(messages)
        BY <3>1
      <3> HIDE DEF messages
      <3> QED
        BY <3>1, <3>2, <3>3, ShownUnit
    <2> QED
      BY <2>1, <2>2
  <1>5. CASE Command
    <2>1. PICK p : AtPacket(p) /\ p.kind # "ok" /\ Write(<<Ack(p.id)>>)
      BY <1>5 DEF Command
    <2>2. p.id \in Ids
      BY <2>1, PacketThere, PacketKinds
    <2> DEFINE messages == <<Ack(p.id)>>
    <2>3. /\ messages \in Seq(Messages)
          /\ \A i \in 1..Len(messages) : messages[i].kind # "static"
      BY <2>2, MessageTypes
    <2>4. app' = app /\ dev'.unit = dev.unit /\ Write(messages)
      BY <1>5, <2>1 DEF Command
    <2> HIDE DEF messages
    <2> QED
      BY <2>3, <2>4, ShownOther
  <1>6. CASE Execute
    <2>1. app' = app
      BY <1>6 DEF Execute
    <2>2. CASE dev' = dev /\ out' = out
      BY <2>1, <2>2 DEF UnitShown, LastShown, NoneShown
    <2>3. CASE /\ todo.kind = "unit" /\ dev' = [dev EXCEPT !.unit = todo.unit]
               /\ SendPins(<<Static(todo.unit)>>)
      <3>1. todo.unit \in Units
        BY <2>3, PacketKinds DEF CodeTypes
      <3> DEFINE messages == <<Static(todo.unit)>>
      <3>2. dev'.unit = todo.unit
        BY <2>3 DEF CodeTypes
      <3>3. /\ messages \in Seq(Messages) /\ Len(messages) >= 1
            /\ messages[Len(messages)] = Static(dev'.unit)
        BY <3>1, <3>2, MessageTypes
      <3>4. Write(messages)
        BY <2>3 DEF SendPins
      <3> HIDE DEF messages
      <3> QED
        BY <2>1, <3>3, <3>4, ShownUnit
    <2> QED
      BY <1>6, <2>2, <2>3 DEF Execute
  <1>7. CASE Report
    <2>1. app' = app /\ dev'.unit = dev.unit
      BY <1>7 DEF Report, CodeTypes
    <2> DEFINE messages == <<Keg(dev.unit)>>
    <2>2. /\ messages \in Seq(Messages)
          /\ \A i \in 1..Len(messages) : messages[i].kind # "static"
      BY <1>0, MessageTypes
    <2>3. Write(messages) \/ out' = out
      BY <1>7 DEF Report, SendPins
    <2> HIDE DEF messages
    <2> QED
      BY <2>1, <2>2, <2>3, ShownOther
  <1>8. CASE Send
    <2>1. out' = out /\ dev' = dev
      BY <1>8 DEF Send
    <2>2. app'.live = app.live /\ app'.fresh = app.fresh /\ app'.unit = app.unit
      <3>1. PICK id \in Ids, p \in Packets :
               app' = IF p.len < Buffer THEN [app EXCEPT !.owed = Append(app.owed, id)]
                                        ELSE app
        BY <1>8, Sends
      <3> QED
        BY <3>1 DEF AppTypes
    <2> QED
      BY <2>1, <2>2 DEF UnitShown, LastShown, NoneShown
  <1>9. CASE Receive
    <2>1. dev' = dev
      BY <1>9 DEF Receive
    <2>2. /\ Len(out) \in Nat /\ Len(out') = Len(out) - 1 /\ out # <<>>
          /\ \A i \in 1..Len(out') : out'[i] = out[i + 1]
      BY <1>9, Receives
    <2>3. 1 \in 1..Len(out)
      BY <2>2, EmptySeq DEF OutTypes
    <2>4. LastShown
      BY <1>9, Receives DEF UnitShown
    <2>5. LastShown'
      <3> SUFFICES ASSUME NEW i \in 1..Len(out'), out'[i].kind = "static",
                          \A j \in (i + 1)..Len(out') : out'[j].kind # "static"
                   PROVE  out'[i].value = dev'.unit
        BY DEF LastShown
      <3>1. i + 1 \in 1..Len(out) /\ out'[i] = out[i + 1]
        BY <2>2
      <3>2. \A j \in ((i + 1) + 1)..Len(out) : out[j].kind # "static"
        <4> TAKE j \in ((i + 1) + 1)..Len(out)
        <4>1. j - 1 \in (i + 1)..Len(out') /\ j - 1 \in 1..Len(out') /\ (j - 1) + 1 = j
          BY <2>2
        <4>2. out'[j - 1] = out[j]
          BY <2>2, <4>1
        <4> QED
          BY <4>1, <4>2
      <3> QED
        BY <2>1, <2>4, <3>1, <3>2 DEF LastShown
    <2>6. ASSUME NoneShown', app'.fresh PROVE app'.unit = dev'.unit
      <3>1. \A i \in 2..Len(out) : out[i].kind # "static"
        <4> TAKE i \in 2..Len(out)
        <4>1. i - 1 \in 1..Len(out') /\ (i - 1) + 1 = i
          BY <2>2
        <4>2. out'[i - 1] = out[i]
          BY <2>2, <4>1
        <4> QED
          BY <2>6, <4>1, <4>2 DEF NoneShown
      <3>2. CASE out[1].kind = "static"
        <4>1. app'.unit = out[1].value
          BY <1>9, <3>2, Receives
        <4>2. out[1].value = dev.unit
          BY <2>3, <2>4, <3>1, <3>2 DEF LastShown
        <4> QED
          BY <2>1, <4>1, <4>2
      <3>3. CASE out[1].kind # "static"
        <4>1. app'.unit = app.unit /\ app'.fresh = app.fresh /\ app.live
          BY <1>9, <3>3, Receives DEF AppTypes
        <4>2. NoneShown
          <5> SUFFICES ASSUME NEW i \in 1..Len(out) PROVE out[i].kind # "static"
            BY DEF NoneShown
          <5>1. i = 1 \/ i \in 2..Len(out)
            BY <2>2
          <5> QED
            BY <3>1, <3>3, <5>1
        <4> QED
          BY <2>1, <2>6, <4>1, <4>2 DEF UnitShown
      <3> QED
        BY <3>2, <3>3
    <2> QED
      BY <2>5, <2>6 DEF UnitShown
  <1>10. CASE Proceed \/ EndIncoming \/ Discard \/ Garbage \/ Arrive \/ UNCHANGED vars
    <2>1. out' = out /\ app' = app /\ dev' = dev
      BY <1>10 DEF Proceed, EndIncoming, Discard, Garbage, Arrive, vars
    <2> QED
      BY <2>1 DEF UnitShown, LastShown, NoneShown
  <1> QED
    BY <1>1, <1>2, <1>3, <1>4, <1>5, <1>6, <1>7, <1>8, <1>9, <1>10 DEF Next, Loop

\* What was read was at the front of the stream.
LEMMA Reads ==
  ASSUME WireInv, Response \/ Command \/ Discard \/ Garbage
  PROVE  \E k \in 0..Len(in.stream) : in'.stream = SubSeq(in.stream, k + 1, Len(in.stream))
  <1>1. InputOK(in) /\ Len(in.stream) \in Nat
    BY DEF WireInv, InputOK
  <1>2. CASE in' = in
    <2>1. in.stream = SubSeq(in.stream, 0 + 1, Len(in.stream)) /\ 0 \in 0..Len(in.stream)
      <3>1. in.stream \in Seq(Packets)
        BY <1>1 DEF InputOK
      <3> QED
        BY <3>1
    <2> QED
      BY <1>2, <2>1
  <1>3. CASE \E n \in Nat : in' = After(n)
    <2>1. PICK n \in Nat : in' = After(n)
      BY <1>3
    <2>2. PICK k \in 0..Len(in.stream) :
            After(n) = [stream  |-> SubSeq(in.stream, k + 1, Len(in.stream)),
                        taken   |-> in.taken + n - Upto(in.stream)[k],
                        arrived |-> in.arrived - n]
      BY <1>1, AfterTakes
    <2>3. in'.stream = SubSeq(in.stream, k + 1, Len(in.stream))
      BY <2>1, <2>2
    <2> QED
      BY <2>3
  <1>4. in' = in \/ \E n \in Nat : in' = After(n)
    <2>1. CASE Response
      BY <2>1, Bounds DEF Response
    <2>2. CASE Command \/ Discard
      <3>1. PICK p : AtPacket(p) /\ in' = After(Readable(p))
        BY <2>2 DEF Command, Discard
      <3>2. Readable(p) \in Nat
        <4>1. Readable(p) \in 0..in.arrived /\ in.arrived \in Nat
          BY <1>1, <3>1, PacketThere, Bounds DEF InputOK
        <4> QED
          BY <4>1
      <3> QED
        BY <3>1, <3>2
    <2>3. CASE Garbage
      <3>1. in.arrived \in Nat
        BY <1>1, Bounds DEF InputOK
      <3>2. \A n \in Header..in.arrived : n \in Nat
        BY <3>1, Bounds
      <3> QED
        BY <2>3, <3>2 DEF Garbage
    <2> QED
      BY <2>1, <2>2, <2>3
  <1> QED
    BY <1>2, <1>3, <1>4

\* In what is left every weight that was sure still fits.
LEMMA FitsRest ==
  ASSUME WireInv, WeightsFit, NEW k \in 0..Len(in.stream),
         in'.stream = SubSeq(in.stream, k + 1, Len(in.stream)),
         dev'.unit = dev.unit, NEW i \in 1..Len(in'.stream), Sure(in'.stream[i])
  PROVE  /\ k + i \in 1..Len(in.stream) /\ Sure(in.stream[k + i])
         /\ ~Setting' => FitsAt(in.stream, i)'
  <1>1. /\ in.stream \in Seq(Packets)
        /\ Len(in'.stream) = Len(in.stream) - k
        /\ \A j \in 1..Len(in'.stream) : in'.stream[j] = in.stream[k + j]
    BY DEF WireInv, InputOK
  <1>2. k + i \in 1..Len(in.stream) /\ in'.stream[i] = in.stream[k + i]
    BY <1>1
  <1>3. FitsAt(in.stream, k + i)
    BY <1>2 DEF WeightsFit
  <1>4. ASSUME NEW j \in 1..(i - 1) PROVE in'.stream[j].kind # "unit"
    <2>1. k + j \in 1..((k + i) - 1) /\ j \in 1..Len(in'.stream)
      BY <1>1
    <2> QED
      BY <1>1, <1>3, <2>1 DEF FitsAt
  <1>5. in'.stream[i].value = Displayed(dev'.unit)
    BY <1>2, <1>3 DEF FitsAt
  <1> QED
    BY <1>2, <1>4, <1>5 DEF FitsAt

\* When nothing was read or set, the weights fit as before.
LEMMA FitsSame ==
  ASSUME WeightsFit, in'.stream = in.stream, dev'.unit = dev.unit,
         ~Setting', ~(pc' = "execute" /\ Sure(todo'))
  PROVE  WeightsFit'
  BY DEF WeightsFit, FitsAt

LEMMA NextFits == WireInv /\ Joined /\ UnitShown /\ WeightsFit /\ [Next]_vars => WeightsFit'
  <1> SUFFICES ASSUME WireInv, Joined, UnitShown, WeightsFit, [Next]_vars PROVE WeightsFit'
    OBVIOUS
  <1>0. in.stream \in Seq(Packets) /\ Len(in.stream) \in Nat
    BY DEF WireInv, InputOK
  <1>1. CASE Connect \/ PowerFail
    <2>1. Len(in'.stream) = 0 /\ pc' = "link"
      BY <1>1 DEF Connect, PowerFail, NoInput
    <2> QED
      BY <2>1 DEF WeightsFit
  <1>2. CASE Response \/ Discard \/ Garbage
    <2>1. pc' # "execute" /\ dev'.unit = dev.unit
      <3>1. CASE Response
        <4>1. pc' = "incoming"
          BY <3>1, PacketThere DEF Response, WireInv
        <4>2. dev'.unit = dev.unit
          BY <3>1 DEF Response, WireInv, CodeTypes
        <4> QED
          BY <4>1, <4>2
      <3>2. CASE Discard
        BY <3>2, PacketThere DEF Discard, WireInv
      <3>3. CASE Garbage
        BY <3>3 DEF Garbage
      <3> QED
        BY <1>2, <3>1, <3>2, <3>3
    <2>2. PICK k \in 0..Len(in.stream) :
             in'.stream = SubSeq(in.stream, k + 1, Len(in.stream))
      BY <1>2, Reads
    <2>3. ASSUME NEW i \in 1..Len(in'.stream), Sure(in'.stream[i])
          PROVE  FitsAt(in.stream, i)'
      BY <2>1, <2>2, <2>3, FitsRest DEF Setting
    <2> QED
      BY <2>1, <2>3 DEF WeightsFit
  <1>3. CASE Command
    <2>1. PICK p : AtPacket(p) /\ todo' = p
      BY <1>3 DEF Command
    <2>2. /\ p = in.stream[1] /\ 1 \in 1..Len(in.stream) /\ pc' = "execute" /\ dev' = dev
      <3>1. p = Head(in.stream) /\ in.stream # <<>>
        BY <2>1, PacketThere DEF WireInv
      <3> QED
        BY <1>0, <1>3, <3>1 DEF Command
    <2>3. PICK k \in 0..Len(in.stream) :
             in'.stream = SubSeq(in.stream, k + 1, Len(in.stream))
      BY <1>3, Reads
    <2>4. ASSUME NEW i \in 1..Len(in'.stream), Sure(in'.stream[i])
          PROVE  FitsAt(in.stream, i)'
      <3>1. k + i \in 1..Len(in.stream) /\ Sure(in.stream[k + i])
        BY <2>2, <2>3, <2>4, FitsRest
      <3>2. p.kind # "unit"
        <4>1. CASE k + i = 1
          BY <2>2, <3>1, <4>1 DEF Sure
        <4>2. CASE k + i # 1
          <5>1. 1 \in 1..((k + i) - 1)
            BY <3>1, <4>2
          <5> QED
            BY <2>2, <3>1, <5>1 DEF WeightsFit, FitsAt
        <4> QED
          BY <4>1, <4>2
      <3>3. ~Setting'
        BY <2>1, <3>2 DEF Setting
      <3> QED
        BY <2>2, <2>3, <2>4, <3>3, FitsRest
    <2>5. Sure(todo') => todo'.value = Displayed(dev'.unit)
      BY <2>1, <2>2 DEF WeightsFit, FitsAt
    <2> QED
      BY <2>4, <2>5 DEF WeightsFit
  <1>4. CASE Execute
    <2>1. pc = "execute" /\ pc' = "incoming" /\ in' = in
      BY <1>4 DEF Execute
    <2>2. CASE todo.kind = "unit"
      <3>1. Setting
        BY <2>1, <2>2 DEF Setting
      <3>2. \A i \in 1..Len(in.stream) : ~Sure(in.stream[i])
        BY <3>1 DEF WeightsFit, FitsAt
      <3> QED
        BY <2>1, <3>2 DEF WeightsFit
    <2>3. CASE todo.kind # "unit"
      <3>1. dev' = dev
        BY <1>4, <2>3 DEF Execute
      <3> QED
        BY <2>1, <3>1, FitsSame DEF Setting
    <2> QED
      BY <2>2, <2>3
  <1>5. CASE Send
    <2>1. PICK id \in Ids, p \in Packets :
            /\ p.kind = "weight" =>
                 p.value = Displayed(app.unit) /\ p.sure = (app.fresh /\ ~UnitUnderWay)
            /\ in' = [in EXCEPT !.stream = Append(in.stream, p)]
      BY <1>5, Sends
    <2>2. pc = "link" /\ pc' = "link" /\ dev' = dev /\ app.live /\ out \in Seq(Messages)
      BY <1>5 DEF Send, WireInv, OutTypes
    <2>3. in'.stream = Append(in.stream, p)
      BY <2>1 DEF WireInv, InputOK
    <2>4. /\ Len(in'.stream) = Len(in.stream) + 1
          /\ \A i \in 1..Len(in.stream) : in'.stream[i] = in.stream[i]
          /\ in'.stream[Len(in.stream) + 1] = p
      BY <1>0, <2>3
    <2>n. PICK n \in Nat : n = Len(in.stream) + 1
      BY <1>0
    <2>5. ASSUME Sure(p) PROVE FitsAt(in.stream, n)'
      <3>1. app.fresh /\ ~UnitUnderWay /\ p.value = Displayed(app.unit)
        BY <2>1, <2>5 DEF Sure
      <3>2. NoneShown
        BY <2>2, <3>1 DEF UnitUnderWay, NoneShown, Range
      <3>3. app.unit = dev.unit
        BY <2>2, <3>1, <3>2 DEF UnitShown
      <3>4. ASSUME NEW j \in 1..(n - 1)
            PROVE  in'.stream[j].kind # "unit"
        <4>1. j \in 1..Len(in.stream)
          BY <1>0, <2>n
        <4>2. in.stream[j] \in Range(in.stream)
          BY <1>0, <4>1 DEF Range
        <4> QED
          BY <2>4, <3>1, <4>1, <4>2 DEF UnitUnderWay
      <3>5. in'.stream[n].value = Displayed(dev'.unit)
        BY <2>2, <2>4, <2>n, <3>1, <3>3
      <3> QED
        BY <2>2, <3>4, <3>5 DEF FitsAt, Setting
    <2>6. ASSUME NEW i \in 1..Len(in.stream), Sure(in.stream[i])
          PROVE  FitsAt(in.stream, i)'
      <3>1. FitsAt(in.stream, i)
        BY <2>6 DEF WeightsFit
      <3>2. \A j \in 1..(i - 1) : j \in 1..Len(in.stream)
        BY <1>0
      <3> QED
        BY <2>2, <2>4, <3>1, <3>2 DEF FitsAt, Setting
    <2>7. \A i \in 1..Len(in'.stream) : i \in 1..Len(in.stream) \/ i = n
      BY <1>0, <2>4, <2>n
    <2> QED
      BY <2>2, <2>4, <2>5, <2>6, <2>7 DEF WeightsFit
  <1>6. CASE Receive
    <2>1. /\ pc' = pc /\ todo' = todo /\ dev' = dev
          /\ in' = in \/ in'.stream = <<OK>>
      <3>1. in' = in \/ in'.stream = <<OK>>
        BY <1>6, Receives
      <3> QED
        BY <1>6, <3>1 DEF Receive
    <2>2. CASE in' = in
      BY <2>1, <2>2 DEF WeightsFit, FitsAt, Setting
    <2>3. CASE in'.stream = <<OK>>
      <3>1. \A i \in 1..Len(<<OK>>) : ~Sure(<<OK>>[i])
        BY DEF Sure, OK
      <3> QED
        BY <2>1, <2>3, <3>1 DEF WeightsFit
    <2> QED
      BY <2>1, <2>2, <2>3
  <1>7. CASE Proceed \/ EndIncoming \/ Report
    <2>1. in' = in /\ dev'.unit = dev.unit /\ pc' # "execute"
      BY <1>7 DEF Proceed, EndIncoming, Report, WireInv, CodeTypes
    <2> QED
      BY <2>1, FitsSame DEF Setting
  <1>8. CASE Arrive \/ Close \/ Rst \/ UNCHANGED vars
    <2>1. in'.stream = in.stream /\ dev' = dev /\ pc' = pc /\ todo' = todo
      BY <1>8 DEF Arrive, Close, Rst, vars, WireInv, InputOK
    <2> QED
      BY <2>1 DEF WeightsFit, FitsAt, Setting
  <1> QED
    BY <1>1, <1>2, <1>3, <1>4, <1>5, <1>6, <1>7, <1>8 DEF Next, Loop

LEMMA NextTaken == WireInv /\ WeightsFit /\ WeightAsTyped /\ [Next]_vars => WeightAsTyped'
  <1> SUFFICES ASSUME WireInv, WeightsFit, WeightAsTyped, [Next]_vars PROVE WeightAsTyped'
    OBVIOUS
  <1> USE DEF WeightAsTyped
  <1>1. CASE Execute
    <2>1. CASE todo.kind = "weight"
      <3>1. Sure(todo) => Taken(todo.value, dev.unit)
        BY <1>1 DEF Execute, WeightsFit, Taken
      <3>2. seen'.misread = (seen.misread \/ (todo.sure /\ ~Taken(todo.value, dev.unit)))
        BY <1>1, <2>1 DEF Execute, IsWrite, WireInv, CodeTypes
      <3> QED
        BY <2>1, <3>1, <3>2 DEF Sure
    <2>2. CASE todo.kind # "weight"
      BY <1>1, <2>2 DEF Execute
    <2> QED
      BY <2>1, <2>2
  <1>2. CASE Connect \/ Command \/ PowerFail \/ Send
    BY <1>2 DEF Connect, Command, PowerFail, Send, WireInv, CodeTypes
  <1>3. CASE Proceed \/ EndIncoming \/ Response \/ Discard \/ Garbage \/ Report
    BY <1>3 DEF Proceed, EndIncoming, Response, Discard, Garbage, Report
  <1>4. CASE Receive \/ Arrive \/ Close \/ Rst \/ UNCHANGED vars
    BY <1>4 DEF Receive, Arrive, Close, Rst, vars
  <1> QED
    BY <1>1, <1>2, <1>3, <1>4 DEF Next, Loop

\* A weight typed when the app showed the device's unit is taken in that unit.
THEOREM WeightsTaken == Spec => []WeightAsTyped
  <1>1. WireInv /\ WeightInv /\ [Next]_vars => WeightInv'
    BY NextJoined, NextShown, NextFits, NextTaken DEF WeightInv, WireInv
  <1>2. WeightInv => WeightAsTyped
    BY DEF WeightInv
  <1> QED
    BY <1>1, <1>2, InitTypes, NextTypes, InitWeights, PTL DEF Spec

-----------------------------------------------------------------------------
(***************************************************************************)
(* Each command that is waited for is answered once, in order              *)
(***************************************************************************)

\* The ids that a message acknowledges and that a packet waits for.
AckOf == [m \in Messages |-> IF m.kind = "ack" THEN <<m.id>> ELSE <<>>]
WaitOf == [p \in Packets |-> IF p.kind # "ok" /\ p.len < Buffer THEN <<p.id>> ELSE <<>>]

\* No id is waited for twice, so that an acknowledgement meets one command.
Distinct(s) == \A i, j \in 1..Len(s) : s[i] = s[j] => i = j
Ordered ==
    app.live /\ ~seen.wrap =>
        app.owed = AckIds(out) \o WaitingIds(in.stream) /\ Distinct(app.owed)

LEMMA AckOfType ==
  /\ AckOf \in [Messages -> Seq(Ids)]
  /\ \A m \in Messages : AckOf[m] = IF m.kind = "ack" THEN <<m.id>> ELSE <<>>
  <1>1. \A m \in Messages : m.kind = "ack" => m.id \in Ids
    BY DEF Messages, Login, Ack, Pins
  <1>2. \A id \in Ids : <<id>> \in Seq(Ids)
    OBVIOUS
  <1>3. <<>> \in Seq(Ids)
    OBVIOUS
  <1> DEFINE B == Seq(Ids)
  <1>4. \A m \in Messages : (IF m.kind = "ack" THEN <<m.id>> ELSE <<>>) \in B
    BY <1>1, <1>2, <1>3, Zenon
  <1> HIDE DEF B, Messages
  <1>5. AckOf \in [Messages -> B]
    BY <1>4, Zenon DEF AckOf
  <1> QED
    BY <1>5, Zenon DEF AckOf, B

LEMMA WaitOfType ==
  /\ WaitOf \in [Packets -> Seq(Ids)]
  /\ \A p \in Packets :
       WaitOf[p] = IF p.kind # "ok" /\ p.len < Buffer THEN <<p.id>> ELSE <<>>
  <1>1. \A p \in Packets : p.kind # "ok" => p.id \in Ids
    BY PacketKinds
  <1>2. \A id \in Ids : <<id>> \in Seq(Ids)
    OBVIOUS
  <1>3. <<>> \in Seq(Ids)
    OBVIOUS
  <1> DEFINE B == Seq(Ids)
             Waits1(p) == p.kind # "ok" /\ p.len < Buffer
  <1>4. \A p \in Packets : Waits1(p) => p.id \in Ids
    BY <1>1
  <1> HIDE DEF Waits1
  <1>5. \A p \in Packets : (IF Waits1(p) THEN <<p.id>> ELSE <<>>) \in B
    BY <1>2, <1>3, <1>4, Zenon
  <1>6. WaitOf = [p \in Packets |-> IF Waits1(p) THEN <<p.id>> ELSE <<>>]
    BY DEF WaitOf, Waits1
  <1> HIDE DEF B
  <1>7. WaitOf \in [Packets -> B]
    BY <1>5, <1>6, Zenon
  <1> QED
    BY <1>7, Zenon DEF WaitOf, B

\* The ids of none, of one message more, and of the first one and the others.
LEMMA AckIdsOf ==
  /\ AckIds(<<>>) = <<>>
  /\ \A s \in Seq(Messages) :
       /\ AckIds(s) \in Seq(Ids)
       /\ \A m \in Messages : AckIds(Append(s, m)) = AckIds(s) \o AckOf[m]
       /\ s # <<>> => AckIds(s) = AckOf[Head(s)] \o AckIds(Tail(s))
  <1>1. ASSUME NEW s \in Seq(Messages) PROVE AckIds(s) = FlattenSeq(Each(AckOf, s))
    <2>1. \A i \in 1..Len(s) : AckOf[s[i]] = IF s[i].kind = "ack" THEN <<s[i].id>> ELSE <<>>
      BY AckOfType
    <2>2. [i \in 1..Len(s) |-> IF s[i].kind = "ack" THEN <<s[i].id>> ELSE <<>>]
            = Each(AckOf, s)
      BY <2>1 DEF Each
    <2> QED
      BY <2>2 DEF AckIds
  <1>2. AckOf \in [Messages -> Seq(Ids)]
    BY AckOfType
  <1>3. <<>> \in Seq(Messages)
    OBVIOUS
  <1>4. AckIds(<<>>) = <<>>
    BY <1>1, <1>2, <1>3, EachNone
  <1> SUFFICES ASSUME NEW s \in Seq(Messages)
               PROVE  /\ AckIds(s) \in Seq(Ids)
                      /\ \A m \in Messages : AckIds(Append(s, m)) = AckIds(s) \o AckOf[m]
                      /\ s # <<>> => AckIds(s) = AckOf[Head(s)] \o AckIds(Tail(s))
    BY <1>4
  <1>5. \A m \in Messages : Append(s, m) \in Seq(Messages)
    BY AppendProperties
  <1>6. s # <<>> => Tail(s) \in Seq(Messages)
    BY HeadTailProperties
  <1>7. AckIds(s) \in Seq(Ids)
    BY <1>1, <1>2, EachFlattens
  <1>8. ASSUME NEW m \in Messages PROVE AckIds(Append(s, m)) = AckIds(s) \o AckOf[m]
    BY <1>1, <1>2, <1>5, EachAppend
  <1>9. ASSUME s # <<>> PROVE AckIds(s) = AckOf[Head(s)] \o AckIds(Tail(s))
    <2>1. AckIds(s) = FlattenSeq(Each(AckOf, s)) /\ AckIds(Tail(s)) = FlattenSeq(Each(AckOf, Tail(s)))
      BY <1>1, <1>6, <1>9
    <2>2. FlattenSeq(Each(AckOf, s)) = AckOf[Head(s)] \o FlattenSeq(Each(AckOf, Tail(s)))
      BY <1>2, <1>9, EachTail
    <2> QED
      BY ONLY <2>1, <2>2, Zenon
  <1> QED
    BY <1>7, <1>8, <1>9

\* The same for the packets.
LEMMA WaitingIdsOf ==
  /\ WaitingIds(<<>>) = <<>>
  /\ \A s \in Seq(Packets) :
       /\ WaitingIds(s) \in Seq(Ids)
       /\ \A p \in Packets : WaitingIds(Append(s, p)) = WaitingIds(s) \o WaitOf[p]
       /\ s # <<>> => WaitingIds(s) = WaitOf[Head(s)] \o WaitingIds(Tail(s))
  <1>1. ASSUME NEW s \in Seq(Packets) PROVE WaitingIds(s) = FlattenSeq(Each(WaitOf, s))
    <2>1. \A i \in 1..Len(s) :
            WaitOf[s[i]] = IF s[i].kind # "ok" /\ s[i].len < Buffer THEN <<s[i].id>>
                                                                    ELSE <<>>
      BY WaitOfType
    <2>2. [i \in 1..Len(s) |-> IF s[i].kind # "ok" /\ s[i].len < Buffer
                               THEN <<s[i].id>> ELSE <<>>]
            = Each(WaitOf, s)
      BY <2>1 DEF Each
    <2> QED
      BY <2>2 DEF WaitingIds
  <1>2. WaitOf \in [Packets -> Seq(Ids)]
    BY WaitOfType
  <1>3. <<>> \in Seq(Packets)
    OBVIOUS
  <1>4. WaitingIds(<<>>) = <<>>
    BY <1>1, <1>2, <1>3, EachNone
  <1> SUFFICES ASSUME NEW s \in Seq(Packets)
               PROVE  /\ WaitingIds(s) \in Seq(Ids)
                      /\ \A p \in Packets :
                           WaitingIds(Append(s, p)) = WaitingIds(s) \o WaitOf[p]
                      /\ s # <<>> =>
                           WaitingIds(s) = WaitOf[Head(s)] \o WaitingIds(Tail(s))
    BY <1>4
  <1>5. \A p \in Packets : Append(s, p) \in Seq(Packets)
    BY AppendProperties
  <1>6. s # <<>> => Tail(s) \in Seq(Packets)
    BY HeadTailProperties
  <1>7. WaitingIds(s) \in Seq(Ids)
    BY <1>1, <1>2, EachFlattens
  <1>8. ASSUME NEW p \in Packets
        PROVE  WaitingIds(Append(s, p)) = WaitingIds(s) \o WaitOf[p]
    BY <1>1, <1>2, <1>5, EachAppend
  <1>9. ASSUME s # <<>> PROVE WaitingIds(s) = WaitOf[Head(s)] \o WaitingIds(Tail(s))
    <2>1. WaitingIds(s) = FlattenSeq(Each(WaitOf, s)) /\ WaitingIds(Tail(s)) = FlattenSeq(Each(WaitOf, Tail(s)))
      BY <1>1, <1>6, <1>9
    <2>2. FlattenSeq(Each(WaitOf, s)) = WaitOf[Head(s)] \o FlattenSeq(Each(WaitOf, Tail(s)))
      BY <1>2, <1>9, EachTail
    <2> QED
      BY ONLY <2>1, <2>2, Zenon
  <1> QED
    BY <1>7, <1>8, <1>9

\* Taking the first id out of a sequence without repetitions leaves the others.
LEMMA WithoutFirst ==
  ASSUME NEW s \in Seq(Ids), s # <<>>, Distinct(s)
  PROVE  Without(s, Head(s)) = Tail(s) /\ Distinct(Tail(s))
  <1> DEFINE id == Head(s)
             F == [x \in Ids |-> IF x = id THEN <<>> ELSE <<x>>]
             B == Seq(Ids)
  <1>0. /\ Len(s) \in Nat /\ Head(s) = s[1] /\ 1 \in 1..Len(s)
        /\ Tail(s) \in Seq(Ids) /\ Len(Tail(s)) = Len(s) - 1
        /\ \A i \in 1..Len(Tail(s)) : Tail(s)[i] = s[i + 1] /\ i + 1 \in 1..Len(s)
        /\ id \in Ids
    OBVIOUS
  <1>1. F \in [Ids -> Seq(Ids)] /\ \A x \in Ids : F[x] = IF x = id THEN <<>> ELSE <<x>>
    <2>1. \A x \in Ids : (IF x = id THEN <<>> ELSE <<x>>) \in Seq(Ids)
      OBVIOUS
    <2> HIDE DEF B
    <2> QED
      BY <2>1, Zenon
  <1> HIDE DEF F
  <1>2. Without(s, id) = FlattenSeq(Each(F, s))
    <2>1. [i \in 1..Len(s) |-> IF s[i] = id THEN <<>> ELSE <<s[i]>>] = Each(F, s)
      BY <1>1 DEF Each
    <2> QED
      BY <2>1 DEF Without
  <1>3. FlattenSeq(Each(F, s)) = F[id] \o FlattenSeq(Each(F, Tail(s)))
    BY <1>1, EachTail
  <1>4. \A i \in 1..Len(Tail(s)) : Tail(s)[i] # id /\ Tail(s)[i] \in Ids
    <2> TAKE i \in 1..Len(Tail(s))
    <2>1. Tail(s)[i] = s[i + 1] /\ i + 1 \in 1..Len(s) /\ i + 1 # 1
      BY <1>0
    <2> QED
      BY <1>0, <2>1 DEF Distinct
  <1>5. Each(F, Tail(s)) \in Seq(B) /\ Len(Each(F, Tail(s))) = Len(Tail(s))
    <2>1. F \in [Ids -> B]
      BY <1>1
    <2> HIDE DEF B
    <2>2. Each(F, Tail(s)) \in Seq(B)
      BY <1>0, <2>1, EachType
    <2>3. Len(Each(F, Tail(s))) = Len(Tail(s))
      BY <1>0 DEF Each
    <2> QED
      BY <2>2, <2>3
  <1>6. \A i \in 1..Len(Tail(s)) : Each(F, Tail(s))[i] = <<Tail(s)[i]>>
    BY <1>1, <1>4 DEF Each
  <1>7. FlattenSeq(Each(F, Tail(s))) = Tail(s)
    BY <1>0, <1>5, <1>6, FlattenSingles
  <1>8. F[id] = <<>> /\ <<>> \o Tail(s) = Tail(s)
    BY <1>0, <1>1, ConcatEmptySeq
  <1>9. Distinct(Tail(s))
    <2> SUFFICES ASSUME NEW i \in 1..Len(Tail(s)), NEW j \in 1..Len(Tail(s)),
                        Tail(s)[i] = Tail(s)[j]
                 PROVE  i = j
      BY DEF Distinct
    <2>1. s[i + 1] = s[j + 1] /\ i + 1 \in 1..Len(s) /\ j + 1 \in 1..Len(s)
      BY <1>0
    <2>2. i + 1 = j + 1
      BY <2>1 DEF Distinct
    <2> QED
      BY <1>0, <2>2
  <1> QED
    BY <1>2, <1>3, <1>7, <1>8, <1>9

\* One that is waited for anew is no repetition.
LEMMA DistinctAppend ==
  ASSUME NEW s \in Seq(Ids), Distinct(s), NEW id \in Ids, id \notin Range(s)
  PROVE  Distinct(Append(s, id))
  <1> SUFFICES ASSUME NEW i \in 1..Len(Append(s, id)), NEW j \in 1..Len(Append(s, id)),
                      Append(s, id)[i] = Append(s, id)[j]
               PROVE  i = j
    BY DEF Distinct
  <1>1. /\ Len(Append(s, id)) = Len(s) + 1 /\ Append(s, id)[Len(s) + 1] = id
        /\ Len(s) \in Nat
        /\ \A k \in 1..Len(s) : Append(s, id)[k] = s[k] /\ s[k] # id
    BY DEF Range
  <1>2. CASE i \in 1..Len(s) /\ j \in 1..Len(s)
    BY <1>1, <1>2 DEF Distinct
  <1>3. CASE i \notin 1..Len(s)
    <2>1. i = Len(s) + 1
      BY <1>1, <1>3
    <2>2. j \notin 1..Len(s)
      BY <1>1, <2>1
    <2> QED
      BY <1>1, <2>1, <2>2
  <1>4. CASE j \notin 1..Len(s)
    <2>1. j = Len(s) + 1
      BY <1>1, <1>4
    <2>2. i \notin 1..Len(s)
      BY <1>1, <2>1
    <2> QED
      BY <1>1, <2>1, <2>2
  <1> QED
    BY <1>2, <1>3, <1>4

\* The acknowledgements under way after one message more, and after the values.
LEMMA AcksWritten ==
  ASSUME OutTypes, Joined, app.live, NEW m \in Messages, Write(<<m>>)
  PROVE  AckIds(out') = AckIds(out) \o AckOf[m]
  <1>1. <<m>> \in Seq(Messages) /\ out \in Seq(Messages)
    BY DEF OutTypes
  <1>2. out' = out \o <<m>>
    BY <1>1, WriteOpen
  <1>3. out' = Append(out, m)
    BY <1>1, <1>2, AppendIsConcat
  <1> QED
    BY <1>1, <1>3, AckIdsOf

LEMMA AckIdsKept ==
  ASSUME NEW s \in Seq(Messages), NEW m \in Messages, m.kind # "ack"
  PROVE  AckIds(s) \o AckOf[m] = AckIds(s)
  <1>1. AckOf[m] = <<>> /\ AckIds(s) \in Seq(Ids)
    BY AckOfType, AckIdsOf
  <1> QED
    BY <1>1, ConcatEmptySeq

LEMMA ValuesWritten ==
  ASSUME OutTypes, Joined, app.live, NEW unit \in Units,
         Write(<<Keg(unit)>>) \/ Write(<<Static(unit)>>)
         \/ Write(<<Keg(unit), Static(unit)>>)
  PROVE  AckIds(out') = AckIds(out)
  <1> DEFINE a == Keg(unit)
             b == Static(unit)
  <1>1. a \in Messages /\ b \in Messages /\ a.kind # "ack" /\ b.kind # "ack"
    BY MessageTypes
  <1>2. out \in Seq(Messages)
    BY DEF OutTypes
  <1> HIDE DEF a, b
  <1>3. CASE Write(<<a>>)
    BY <1>1, <1>2, <1>3, AcksWritten, AckIdsKept
  <1>4. CASE Write(<<b>>)
    BY <1>1, <1>2, <1>4, AcksWritten, AckIdsKept
  <1>5. CASE Write(<<a, b>>)
    <2>1. <<a, b>> \in Seq(Messages)
      BY <1>1
    <2>2. out' = out \o <<a, b>>
      BY <1>5, <2>1, WriteOpen
    <2>3. out' = Append(Append(out, a), b) /\ Append(out, a) \in Seq(Messages)
      BY <1>1, <1>2, <2>2
    <2>4. AckIds(out') = AckIds(Append(out, a)) \o AckOf[b]
      BY <1>1, <2>3, AckIdsOf
    <2>5. AckIds(Append(out, a)) = AckIds(out) \o AckOf[a]
      BY <1>1, <1>2, AckIdsOf
    <2>6. AckIds(Append(out, a)) \o AckOf[b] = AckIds(Append(out, a))
      BY <1>1, <2>3, AckIdsKept
    <2>7. AckIds(out) \o AckOf[a] = AckIds(out)
      BY <1>1, <1>2, AckIdsKept
    <2> QED
      BY <2>4, <2>5, <2>6, <2>7
  <1> QED
    BY <1>3, <1>4, <1>5 DEF a, b

\* A step that leaves the ids on both ways as they were.
LEMMA OrderedSame ==
  ASSUME Ordered, app'.live => app.live, ~seen'.wrap => ~seen.wrap,
         app'.live /\ ~seen'.wrap =>
            /\ app'.owed = app.owed
            /\ AckIds(out') = AckIds(out)
            /\ WaitingIds(in'.stream) = WaitingIds(in.stream)
  PROVE  Ordered'
  BY DEF Ordered, Distinct

\* The loop takes a packet: its id leaves the stream.
LEMMA PacketTaken ==
  ASSUME WireInv, Aligned, ~seen.wrap, NEW p, AtPacket(p), in' = After(Readable(p))
  PROVE  /\ p \in Packets /\ WaitingIds(in'.stream) \in Seq(Ids)
         /\ WaitingIds(in.stream) = WaitOf[p] \o WaitingIds(in'.stream)
  <1>1. in.stream \in Seq(Packets) /\ in.stream # <<>> /\ p = Head(in.stream) /\ p \in Packets
    BY PacketThere DEF WireInv, InputOK
  <1>2. in'.stream = Tail(in.stream)
    <2>1. in' = [stream  |-> Tail(in.stream), taken |-> 0,
                 arrived |-> in.arrived - Size(p)]
      BY PacketArrived
    <2> QED
      BY <2>1
  <1>3. Tail(in.stream) \in Seq(Packets)
    BY <1>1, HeadTailProperties
  <1> QED
    BY <1>1, <1>2, <1>3, WaitingIdsOf

LEMMA PacketUnanswered ==
  ASSUME WireInv, Aligned, ~seen.wrap, NEW p, AtPacket(p), in' = After(Readable(p)),
         p.kind = "ok" \/ ~(p.len < Buffer)
  PROVE  WaitingIds(in'.stream) = WaitingIds(in.stream)
  <1>1. /\ p \in Packets /\ WaitingIds(in'.stream) \in Seq(Ids)
        /\ WaitingIds(in.stream) = WaitOf[p] \o WaitingIds(in'.stream)
    BY PacketTaken
  <1>2. WaitOf[p] = <<>>
    BY <1>1, WaitOfType
  <1> QED
    BY <1>1, <1>2, ConcatEmptySeq

LEMMA InitOrdered == Init => Ordered
  BY DEF Init, Ordered

LEMMA LoopOrdered ==
  ASSUME WireInv, Joined, Aligned, Ordered, Loop
  PROVE  Ordered'
  <1> USE DEF WireInv
  <1>0. dev.unit \in Units /\ app.live \in BOOLEAN
    BY DEF CodeTypes, AppTypes
  <1>1. CASE Connect
    <2>1. CASE app'.live = FALSE
      BY <2>1 DEF Ordered
    <2>2. CASE app'.live # FALSE
      <3>1. out' = <<Login>> /\ in'.stream = <<>> /\ app'.owed = <<>>
        BY <1>1, <2>2 DEF Connect, NoInput, AppTypes
      <3>2. out' = Append(<<>>, Login) /\ <<>> \in Seq(Messages)
        BY <3>1
      <3>3. AckIds(out') = <<>>
        <4>1. Login \in Messages /\ Login.kind # "ack"
          BY MessageTypes DEF Login
        <4>2. AckIds(Append(<<>>, Login)) = AckIds(<<>>) \o AckOf[Login]
          BY <3>2, <4>1, AckIdsOf
        <4>3. AckIds(<<>>) \o AckOf[Login] = AckIds(<<>>)
          BY <3>2, <4>1, AckIdsKept
        <4> QED
          BY <3>2, <4>2, <4>3, AckIdsOf
      <3>4. WaitingIds(in'.stream) = <<>>
        BY <3>1, WaitingIdsOf
      <3>5. <<>> \o <<>> = <<>>
        OBVIOUS
      <3>6. Distinct(<<>>)
        BY DEF Distinct
      <3> QED
        BY <3>1, <3>3, <3>4, <3>5, <3>6 DEF Ordered, Distinct
    <2> QED
      BY <2>1, <2>2
  <1>2. CASE Response
    <2>1. app' = app /\ seen' = seen /\ AtPacket(OK) /\ in' = After(Header)
      BY <1>2 DEF Response
    <2> SUFFICES ASSUME app.live, ~seen.wrap PROVE Ordered'
      BY <2>1 DEF Ordered
    <2>2. in' = After(Readable(OK))
      <3>1. Size(OK) = Header
        BY Bounds DEF Size, OK
      <3>2. Readable(OK) = Size(OK)
        BY <2>1, PacketArrived
      <3> QED
        BY <2>1, <3>1, <3>2
    <2>3. WaitingIds(in'.stream) = WaitingIds(in.stream)
      BY <2>1, <2>2, PacketUnanswered DEF OK
    <2>4. AckIds(out') = AckIds(out)
      <3>1. out' = out \/ Write(<<Keg(dev.unit), Static(dev.unit)>>)
        BY <1>2 DEF Response, SendPins
      <3> QED
        BY <1>0, <3>1, ValuesWritten
    <2> QED
      BY <2>1, <2>3, <2>4, OrderedSame
  <1>3. CASE Command
    <2>1. PICK p : /\ AtPacket(p) /\ p.kind # "ok" /\ p.len < Buffer
                   /\ in' = After(Readable(p)) /\ Write(<<Ack(p.id)>>)
                   /\ seen' = IF p.kind = "unit"
                              THEN [seen EXCEPT !.acked = p.unit, !.cut = FALSE] ELSE seen
      BY <1>3 DEF Command
    <2>2. app' = app /\ seen'.wrap = seen.wrap
      BY <1>3, <2>1 DEF Command, CodeTypes
    <2> SUFFICES ASSUME app.live, ~seen.wrap PROVE Ordered'
      BY <2>2 DEF Ordered
    <2>3. /\ p \in Packets /\ WaitingIds(in'.stream) \in Seq(Ids)
          /\ WaitingIds(in.stream) = WaitOf[p] \o WaitingIds(in'.stream)
      BY <2>1, PacketTaken
    <2>4. WaitOf[p] = <<p.id>> /\ p.id \in Ids
      BY <2>1, <2>3, WaitOfType, PacketKinds
    <2>5. AckIds(out') = AckIds(out) \o <<p.id>>
      <3>1. Ack(p.id) \in Messages /\ Ack(p.id).kind = "ack" /\ Ack(p.id).id = p.id
        BY <2>4, MessageTypes
      <3>2. AckOf[Ack(p.id)] = <<p.id>>
        BY <3>1, AckOfType
      <3> QED
        BY <2>1, <3>1, <3>2, AcksWritten
    <2>6. AckIds(out) \in Seq(Ids) /\ <<p.id>> \in Seq(Ids)
      BY <2>4, AckIdsOf DEF OutTypes
    <2>7. (AckIds(out) \o <<p.id>>) \o WaitingIds(in'.stream)
            = AckIds(out) \o (<<p.id>> \o WaitingIds(in'.stream))
      BY <2>3, <2>6, ConcatAssociative
    <2>8. app.owed = AckIds(out) \o WaitingIds(in.stream) /\ Distinct(app.owed)
      BY DEF Ordered
    <2>9. app'.owed = AckIds(out') \o WaitingIds(in'.stream)
      BY <2>2, <2>3, <2>4, <2>5, <2>7, <2>8
    <2> QED
      BY <2>2, <2>8, <2>9 DEF Ordered, Distinct
  <1>4. CASE Discard
    <2>1. PICK p : AtPacket(p) /\ p.len >= Buffer /\ in' = After(Readable(p))
      BY <1>4 DEF Discard
    <2>2. app' = app /\ seen' = seen /\ out' = out
      BY <1>4 DEF Discard
    <2> SUFFICES ASSUME app.live, ~seen.wrap PROVE Ordered'
      BY <2>2 DEF Ordered
    <2>3. ~(p.len < Buffer)
      BY <2>1, PacketThere, PacketSize, Bounds
    <2>4. WaitingIds(in'.stream) = WaitingIds(in.stream)
      BY <2>1, <2>3, PacketUnanswered
    <2> QED
      BY <2>2, <2>4, OrderedSame
  <1>5. CASE Garbage
    <2>1. seen.wrap /\ seen' = seen
      BY <1>5, Bounds DEF Garbage, Aligned, CodeTypes, InputOK
    <2> QED
      BY <2>1 DEF Ordered
  <1>6. CASE Execute
    <2>1. app' = app /\ in' = in /\ seen'.wrap = seen.wrap
      BY <1>6 DEF Execute, CodeTypes
    <2> SUFFICES ASSUME app.live, ~seen.wrap PROVE Ordered'
      BY <2>1 DEF Ordered
    <2>2. AckIds(out') = AckIds(out)
      <3>1. out' = out \/ (todo.kind = "unit" /\ Write(<<Static(todo.unit)>>))
        BY <1>6 DEF Execute, SendPins
      <3>2. todo.kind = "unit" => todo.unit \in Units
        BY PacketKinds DEF CodeTypes
      <3> QED
        BY <3>1, <3>2, ValuesWritten
    <2> QED
      BY <2>1, <2>2, OrderedSame
  <1>7. CASE Report
    <2>1. app' = app /\ in' = in /\ seen' = seen
      BY <1>7 DEF Report
    <2> SUFFICES ASSUME app.live, ~seen.wrap PROVE Ordered'
      BY <2>1 DEF Ordered
    <2>2. AckIds(out') = AckIds(out)
      <3>1. out' = out \/ Write(<<Keg(dev.unit)>>)
        BY <1>7 DEF Report, SendPins
      <3> QED
        BY <1>0, <3>1, ValuesWritten
    <2> QED
      BY <2>1, <2>2, OrderedSame
  <1>8. CASE Proceed \/ EndIncoming
    <2>1. app' = app /\ in' = in /\ seen' = seen /\ out' = out
      BY <1>8 DEF Proceed, EndIncoming
    <2> QED
      BY <2>1 DEF Ordered, Distinct
  <1> QED
    BY <1>1, <1>2, <1>3, <1>4, <1>5, <1>6, <1>7, <1>8 DEF Loop

LEMMA NextOrdered == WireInv /\ Joined /\ Aligned /\ Ordered /\ [Next]_vars => Ordered'
  <1> SUFFICES ASSUME WireInv, Joined, Aligned, Ordered, [Next]_vars PROVE Ordered'
    OBVIOUS
  <1> USE DEF WireInv
  <1>1. CASE Loop
    BY <1>1, LoopOrdered
  <1>2. CASE PowerFail \/ Close
    <2>1. app'.live = FALSE
      BY <1>2 DEF PowerFail, Close, AppTypes
    <2> QED
      BY <2>1 DEF Ordered
  <1>3. CASE Send
    <2>1. PICK id \in Ids, p \in Packets :
            /\ p.id = id /\ p.kind # "ok" /\ id \notin UsedIds
            /\ in' = [in EXCEPT !.stream = Append(in.stream, p)]
            /\ app' = IF p.len < Buffer THEN [app EXCEPT !.owed = Append(app.owed, id)]
                                        ELSE app
      BY <1>3, Sends
    <2>2. app.live /\ ~seen.wrap /\ out' = out
      BY <1>3 DEF Send
    <2>3. in'.stream = Append(in.stream, p) /\ in.stream \in Seq(Packets)
      BY <2>1 DEF InputOK
    <2>4. WaitingIds(in'.stream) = WaitingIds(in.stream) \o WaitOf[p]
      BY <2>3, WaitingIdsOf
    <2>5. /\ app.owed = AckIds(out) \o WaitingIds(in.stream) /\ Distinct(app.owed)
          /\ AckIds(out) \in Seq(Ids) /\ WaitingIds(in.stream) \in Seq(Ids)
          /\ app.owed \in Seq(Ids)
      BY <2>2, <2>3, AckIdsOf, WaitingIdsOf DEF Ordered, OutTypes, AppTypes
    <2>6. CASE p.len < Buffer
      <3>1. WaitOf[p] = <<id>> /\ <<id>> \in Seq(Ids)
        BY <2>1, <2>6, WaitOfType
      <3>2. app'.owed = Append(app.owed, id)
        BY <2>1, <2>6 DEF AppTypes
      <3>3. app'.owed = app.owed \o <<id>>
        BY <2>5, <3>2, AppendIsConcat
      <3>4. (AckIds(out) \o WaitingIds(in.stream)) \o <<id>>
              = AckIds(out) \o (WaitingIds(in.stream) \o <<id>>)
        BY <2>5, <3>1, ConcatAssociative
      <3>5. app'.owed = AckIds(out') \o WaitingIds(in'.stream)
        BY <2>2, <2>4, <2>5, <3>1, <3>3, <3>4
      <3>6. Distinct(Append(app.owed, id))
        BY <2>1, <2>5, DistinctAppend DEF UsedIds
      <3> QED
        BY <3>2, <3>5, <3>6 DEF Ordered, Distinct
    <2>7. CASE ~(p.len < Buffer)
      <3>1. WaitOf[p] = <<>> /\ app' = app
        BY <2>1, <2>7, WaitOfType
      <3>2. WaitingIds(in'.stream) = WaitingIds(in.stream)
        BY <2>4, <2>5, <3>1, ConcatEmptySeq
      <3> QED
        BY <2>2, <3>1, <3>2, OrderedSame
    <2> QED
      BY <2>6, <2>7
  <1>4. CASE Receive
    <2>1. seen' = seen /\ app.live
      BY <1>4 DEF Receive
    <2> SUFFICES ASSUME ~seen.wrap PROVE Ordered'
      BY <2>1 DEF Ordered
    <2>2. /\ out \in Seq(Messages) /\ out # <<>> /\ out' = Tail(out)
          /\ Head(out) = out[1] /\ out[1] \in Messages /\ Tail(out) \in Seq(Messages)
      BY <1>4, Receives, HeadTailProperties DEF OutTypes
    <2>3. AckIds(out) = AckOf[out[1]] \o AckIds(out') /\ AckIds(out') \in Seq(Ids)
      BY <2>2, AckIdsOf
    <2>4. WaitingIds(in'.stream) = WaitingIds(in.stream)
      <3>1. CASE out[1].kind = "login"
        <4>1. in.stream = <<>> /\ in'.stream = <<OK>>
          BY <1>4, <3>1, Receives DEF NoInput
        <4>2. <<OK>> = Append(<<>>, OK) /\ <<>> \in Seq(Packets) /\ OK \in Packets
          BY DEF Packets
        <4>3. WaitingIds(Append(<<>>, OK)) = WaitingIds(<<>>) \o WaitOf[OK]
          BY <4>2, WaitingIdsOf
        <4>4. WaitOf[OK] = <<>>
          BY <4>2, WaitOfType DEF OK
        <4>5. WaitingIds(<<>>) = <<>> /\ <<>> \o <<>> = <<>>
          BY WaitingIdsOf
        <4> QED
          BY <4>1, <4>2, <4>3, <4>4, <4>5
      <3>2. CASE out[1].kind # "login"
        <4>1. in' = in
          BY <1>4, <3>2, Receives
        <4> QED
          BY <4>1
      <3> QED
        BY <3>1, <3>2
    <2>5. /\ app.owed = AckIds(out) \o WaitingIds(in.stream) /\ Distinct(app.owed)
          /\ WaitingIds(in.stream) \in Seq(Ids) /\ app.owed \in Seq(Ids)
      BY <2>1, WaitingIdsOf DEF Ordered, AppTypes, InputOK
    <2>6. CASE out[1].kind = "ack"
      <3> DEFINE id == out[1].id
                 rest == AckIds(out') \o WaitingIds(in'.stream)
      <3>1. app'.owed = Without(app.owed, id)
        BY <1>4, <2>6, Receives
      <3>2. AckOf[out[1]] = <<id>> /\ id \in Ids
        <4>1. AckOf[out[1]] = <<id>>
          BY <2>2, <2>6, AckOfType
        <4>2. \A m \in Messages : m.kind = "ack" => m.id \in Ids
          BY DEF Messages, Login, Ack, Pins
        <4> QED
          BY <2>2, <2>6, <4>1, <4>2
      <3>3. <<id>> \in Seq(Ids) /\ rest \in Seq(Ids)
        BY <2>3, <2>4, <2>5, <3>2, ConcatProperties
      <3>4. app.owed = <<id>> \o rest
        <4>1. (<<id>> \o AckIds(out')) \o WaitingIds(in'.stream) = <<id>> \o rest
          BY <2>3, <2>4, <2>5, <3>3, ConcatAssociative
        <4> QED
          BY <2>3, <2>4, <2>5, <3>2, <4>1
      <3> HIDE DEF rest, id
      <3>5. app.owed # <<>> /\ Head(app.owed) = id /\ Tail(app.owed) = rest
        BY <3>2, <3>3, <3>4
      <3>6. app'.owed = rest /\ Distinct(rest)
        BY <2>5, <3>1, <3>5, WithoutFirst
      <3> QED
        BY <3>6 DEF Ordered, Distinct, rest
    <2>7. CASE out[1].kind # "ack"
      <3>1. app'.owed = app.owed
        BY <1>4, <2>7, Receives
      <3>2. AckOf[out[1]] = <<>>
        BY <2>2, <2>7, AckOfType
      <3>3. AckIds(out') = AckIds(out)
        BY <2>3, <3>2, ConcatEmptySeq
      <3> QED
        BY <2>1, <2>4, <3>1, <3>3, OrderedSame
    <2> QED
      BY <2>6, <2>7
  <1>5. CASE Arrive
    <2>1. app' = app /\ seen' = seen /\ out' = out /\ in'.stream = in.stream
      BY <1>5 DEF Arrive, InputOK
    <2> QED
      BY <2>1 DEF Ordered, Distinct
  <1>6. CASE Rst
    <2>1. ~app'.live
      BY <1>6 DEF Rst, Joined
    <2> QED
      BY <2>1 DEF Ordered
  <1>7. CASE UNCHANGED vars
    BY <1>7 DEF vars, Ordered, Distinct
  <1> QED
    BY <1>1, <1>2, <1>3, <1>4, <1>5, <1>6, <1>7 DEF Next

\* The commands that are waited for are under way, or their answers, in order.
THEOREM CommandsAnsweredInOrder == Spec => []AnswersInOrder
  <1>1. Ordered => AnswersInOrder
    BY DEF Ordered, AnswersInOrder
  <1>2. Init => Joined
    BY DEF Init, Joined
  <1> QED
    BY <1>1, <1>2, InitTypes, NextTypes, NextJoined, InitAligned, NextAligned,
       InitOrdered, NextOrdered, PTL DEF Spec
=============================================================================
