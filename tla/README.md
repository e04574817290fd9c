# Formal models of the Open Keg Scale

This directory holds TLA+ models of the two firmwares of the repository, the keg
scale in `open_keg_scale/` and the transfer scale in `transfer-keg-scale/`, the TLC
runs that check them and TLAPS proofs about them. `ino` below is
`open_keg_scale/open_keg_scale.ino`, `main.cpp` is
`transfer-keg-scale/transfer-keg-firmware/src/main.cpp`; line numbers are those of
the commit the models were written from. The definitions follow the code; its comments and the
READMEs are only used as statements to compare it with.

## The system

The keg scale is an ESP8266 with an HX711 load cell amplifier. One thread runs
`loop()` for ever (ino:1286). A pass

1. polls the button, lets an update over the air run and serves at most one HTTP
   request (1287-1289),
2. executes the actions HTTP requests have queued (1295-1309),
3. looks after the WiFi and the TCP connection to the server (1311-1328),
4. reads every packet that has arrived whole (1331, 989-1047),
5. while logged in, reads the weight, runs the pour detection, pushes data when it
   is due and sends the keep-alive PING (1338-1357).

The transfer scale weighs a keg while it is filled. Without a configuration, or with
its button held at the boot, it runs a setup portal: an access point, one page with
a form and a three-step calibration wizard, and their handlers (main.cpp:130-855).
Otherwise its `loop()` (1007-1067) weighs, sends the weight to the server and asks it
for the keg's weights, each at its own interval and each blocking, polls the tare
button and obeys one-letter commands from the serial line.

`PROJECT.json` lists all components. Their state and interplay:

| Component | State | Operations | Talks to |
|---|---|---|---|
| Weight and pour detection | `have_baseline`, `last_stable_g`, `last_weight_g`, `is_pouring`, `pour_start_*`, `pour_arm_ms`, `last_send_ms` | `readWeightGrams`, `updatePourState`, the push in `loop` | is disturbed by tare and calibration; writes pins 49, 55, 59 |
| Blynk session | `WiFiClient`, `blynk_authed`, `last_reconnect`, `last_ping_ms`, `ota_in_progress` | `connectBlynk`, `blynkProcessIncoming`, watchdog, PING, OTA callbacks | the server; calls the scale's operations |
| Scale operations and settings | `cfg`, EEPROM, the HX711 registers, `pending_*` | `doTare`, `doCalibrateWithKnownWeight`, `doSetEmptyKeg`, `loadConfig`, `saveConfig`, the web handlers, `saveParamsCallback` | called from button, web page, portal and server |
| Framing | bytes in the receive buffer | header and length in `blynkProcessIncoming`, `parseHardwareBody` | between TCP and the session |
| Publishing and units | `unit_system`, `measure_unit`, the server's copy of the pins | `publishKegData`, `publishStaticPins`, conversions | the server |
| Button timing | `btn_down_ms`, `btn_held` | `handleButton` | tare, or restart into setup |
| Transfer scale: portal | `cfg`, EEPROM, `calTareDone`, `calPendingFactor`, the page's own state | `setup`, `handleSave`, `handleCal*`, the page's script | the browser; the server, once, to register |
| Transfer scale: loop | `emptyKegKg`, `targetKg`, `currentWeightKg`, `wifiConnected`, timers, tare button | `loop`, `postWeight`, `getRemoteConfig` | its own server; the HX711 registers the portal also writes |

What makes this code hard to test: three ways to the same operation in one pass;
a weight that may be an old one (`last_weight_g` when no conversion is ready); a
32-bit clock compared in signed and unsigned ways; a flag, `blynk_authed`, that
outlives the connection it was granted on; and a setting that lives in the RAM,
in the EEPROM and in a register of a library. On the wire, packets are found by
lengths the other side chose, and a command is acknowledged before it is carried
out. The transfer scale adds a wizard whose state is half in the device and half in a
page that does not notice a lost answer or a restart. `PROJECT.json` lists each hazard
at its line, with the properties that would catch it.

What has to be true of each component:

* *Pour detection*: a pour starts only below the baseline and never while arming,
  it ends on a quiet scale, the volumes reported add up along the baseline, and the
  server's pouring pin is soon right again after anything.
* *Session*: the scale believes it is logged in only when it is; every command that
  can be read is acknowledged once; each connection gets its own snapshot; a
  vanished server is noticed and the scale logs in again.
* *Framing*: the loop stays in step with the packets, a command that fits is answered
  once and in order, no packet that can arrive blocks the connection for ever.
* *Units*: what the app shows follows a change of units, and a weight typed into it
  is taken for what its user saw.
* *Transfer scale*: the factor and the weights that were saved are those in force,
  through lost answers, restarts and torn saves; no weight from before a tare is sent
  after it; the scale goes on sending when the network comes back.
* *Settings*: registers, RAM and EEPROM agree; a restart at any moment keeps what
  was saved; no factor is zero; requests are executed in the order they are made.

## The modules

| Module | Models |
|---|---|
| `PourDetection` | weight reading, pour detection, push; ino:704-711, 796-851, 1176-1233, 1338-1351 |
| `MCPourDetection` | its weights for TLC |
| `PourDetectionProofs` | its theorems |
| `KegLink` | abstract: what the firmware relies on of its link to the server |
| `BlynkSession` | the session and its TCP connection, which implements `KegLink`; ino:581-606, 641-649, 989-1047, 1119-1143, 1311-1361 |
| `MCBlynkSession`, `BlynkSessionProofs` | instance and theorems |
| `ScaleSettings` | abstract: what the owner relies on of the settings |
| `ScaleControl` | operations, settings, EEPROM and registers, which implement `ScaleSettings`; ino:182-282, 393-461, 766-851, 919-985, 1051-1115, 1147-1172, 1237-1309 |
| `MCScaleControl`, `ScaleControlProofs` | instance and theorems |
| `BlynkWire` | the same connection byte by byte, the order of acknowledgement and execution, the units; ino:144-178, 581-606, 641-675, 855-990, 989-1047; `WiFiClient.cpp` |
| `MCBlynkWire`, `BlynkWireProofs` | instance and theorems |
| `BlynkWireBytes` | lemmas on the bytes of a sequence of packets |
| `SequenceLemmas` | lemmas on recursion over a sequence, which `BlynkWireBytes` and `BlynkWireProofs` use |
| `TransferScale` | the transfer scale: boot, portal, page, wizard, loop; main.cpp |
| `MCTransferScale`, `TransferScaleProofs` | instance and theorems |

A definition whose comment begins with "Mutant of" is a plausible error in the
definition below it. No specification uses it; `PROJECT.json` says which property
each must violate.

### PourDetection

One action per way through `updatePourState()` (`FirstBaseline`, `Arming`,
`StartPour`, `Idle`, `PourMoving`, `PourSettling`, `EndPour`); `Iterate` is the end
of a pass: a reading, one of these, and `Push`. `Tare`, `Calibrate`, `Connect`,
`Sync`, `Disconnect` and `Reboot` are everything else that writes the same
variables. `LoadChange` and `Tick` are the world.

Weights are whole grams and are what the HX711 *would* read, with offset and
factor applied; `POUR_DELTA_G / 3.0f` is compared by multiplying with 3. A time
stamp is kept as its distance from `millis()` modulo `Period`, which is what the
code computes with, so `(int32_t)(millis() - pour_arm_ms) < 0` is
`2 * pour_arm >= Period`. `pour_start_g` and `pour_start` are kept at 0 outside a
pour: there the code never reads them before writing them. A tare makes the load
read 0, a calibration makes it read a member of `Recalibrated`. `armAge`, `stale`,
`calm` and `peak` are history variables, and no guard mentions them.

### BlynkSession

A pass is three stages, `link`, `incoming` and `report`; a packet is handled in a
step of its own, and the network and the server act between any two steps. A
packet is whole or absent. What the device wrote is a set, since no property uses
the order. WiFiClient has three states: a connection on which the FIN has arrived
still counts as connected while data is waiting (`WiFiClient.cpp:327-333`).
`connectBlynk()` is `Open` (the LOGIN is written) or `Fail`. A missing server name
or token is a failure that never ends, and is left out. The server answers a LOGIN
once, sends RESPONSEs and commands at any time, also before the login, closes or
vanishes. OTA's callbacks are `OtaStart` and `OtaError`; a successful update is a
`Reboot`.

### ScaleControl

The stages of a pass up to the network part are steps; an operation and the
`saveConfig()` it ends with are two, so that the power may fail in between
(`saving`, `Commit`, `Restart`). `Restart` in a commit leaves the old sector or an
erased one. A factor is the quotient `num/den` of the numbers the code divides,
so nothing is rounded, and `Grams` divides the way `get_units()` does, down to
whole grams. `readAverageRaw()` returns the load, or 0 when the HX711 delivers
nothing. The temperature offset, the units, the volume and the beer name are one
setting, `other`. The form of the setup portal prints the factor with four
decimals and submits whatever it shows; what it may submit is `PortalFactors`, and
a cleared field keeps the factor (ino:1062). An update over the air runs inside
`ArduinoOTA.handle()` and either fails without an effect on the settings or ends
in a restart, so the return at ino:1291 is not a step here.

### BlynkWire

`BlynkSession` takes packets as whole; this module is about how they come to be. The
receive side of the connection is a stream of packets, the number of bytes already
read of the first (`taken`) and the number that has arrived behind them. `Waits` is the
end of the loop of `blynkProcessIncoming()`: less than a header, or less than the
`packet_len` it computes modulo `Modulus`. `Command`, `Discard` and `Response` handle the
packet the loop stands at, and `After` takes the bytes they read, and the packets that
are whole in them (`Whole`, from the sums `Upto`), off the stream; when the loop stands
inside a packet, `Garbage` is what may come
of it, of which only a change of settings is excluded. A command is handled in two
steps, `Command` (the acknowledgement) and `Execute` (the change and its save), and
the power may fail between them. `WiFiClient` has a fourth state here: `closing`, after
the server's FIN, which counts as connected as long as bytes are left to read; what
is written then brings a RST.

The app is what makes units matter: it shows the last value and the last unit the
server received, and its user types a weight in the unit shown. `sure` marks a weight
typed while the unit shown was sent on this connection and no change was under way.

### TransferScale

`pc` is `off`, `portal` or the section of `loop()` that comes next, so that the world
acts between any two sections; a tare, which waits for the HX711, is a section of its
own (`zeroing` for the button, `taring` for the serial command). The serial command 'x'
enters the portal, which only a reset leaves, so what only `loop()` reads is forgotten
there. The portal's
handlers are one action each together with the script of the page that called them,
since the answer may be lost: then the device has changed and the page has not.
`page` is the browser's half of the wizard's state (step, measured factor, the
form's factor field); `page.live` says that the device was not restarted since.
`Save` is `handleSave()` with the registration at the server and the restart.

Weights are raw counts relative to the offset, factors are whole multiples of half a
printed digit, so that `"%.2f"` is `Printed`. The two weights of the server and the form
are one, and so are network, URL and id. Time stamps are kept as distances from
`millis()`; `late` is how long ago `now` was read in this pass. Only the tare button
depends on the wrap of the clock, so only `press` is kept modulo `Period`, and only
while the code reads it.

## The runs

| Run | Question | Result |
|---|---|---|
| `pour_weights` | Do reports add up, is a baseline always a weight that was read, does a pour end? | holds |
| `pour_clock` | The same code under a wrapping clock, calibrations, restarts and lost sessions | holds |
| `pour_arm_wrap` | Is detection ignored only "briefly after tare/boot" (ino:141)? | violated |
| `pour_baseline` | Does the reference follow a stable weight (comment ino:1227)? | violated |
| `session` | Authentication, snapshot, acknowledgements, keep-alive, recovery, refinement of `KegLink` | holds |
| `session_ping` | Is every open connection pinged (`open_keg_scale/README.md:208`)? | violated |
| `scale` | Registers, order of requests, survival of settings, refinement of `ScaleSettings` | holds |
| `scale_portal` | Is a factor from the portal in effect (ino:82, `open_keg_scale/README.md:107`)? | violated |
| `scale_no_data` | Is a factor computed from samples (comment ino:832)? | violated |
| `wire` | Framing, order of answers, a unit stored before or after its acknowledgement, half-closed connections, values that follow the units | holds |
| `transfer` | Factor, review, calibration, weights, tare and sending, from first boot to use | holds |
| `transfer_tare` | Does a press of the button tare once (comments main.cpp:1038, 1046)? | violated |

### What the violations show

* **A heavier keg is never the baseline** (ino:1228). The test is on the distance
  from the baseline, not on stability. A keg 10 g or more above the baseline leaves
  it where it was, and pours from that keg are not detected until its weight has
  fallen `POUR_DELTA_G` below the old one, or until a tare, calibration or restart.
* **Arming comes back** (ino:1184). 2^31 ms after the window ended the signed
  difference is negative again, and detection is off for about 25 days of every 50.
* **No PING without a login** (ino:1333). A connection whose login is refused or
  never answered is kept and never written to. `Recovers` has to exclude it.
* **A portal factor waits for a restart** (ino:1063). It is stored, but `set_scale()`
  was called before the portal ran, and the device does not reboot.
* **A calibration without data** (ino:834). `readAverageRaw()` returns 0 for "no data";
  the difference with the offset is not 0, and `-offset / known_g` is saved.
* **The transfer scale tares for as long as the button is down** (main.cpp:1046). The
  press time is set 60 s into the future "to block repeat"; the unsigned difference of
  line 1037 is then nearly 2^32 ms, more than 50 ms, and the next pass tares again.

Some passing properties have an exception that says as much. `AlignedUnlessWrapped`:
one packet whose length wraps in `uint16_t` puts the loop out of step for the rest of
the connection. `StallsOnlyTooLong`: a packet longer than the receive window blocks
the connection. `HalfClosedNoticed`: only after a login. `AckedUnitKept`: a power failure
between acknowledgement and execution loses the setting. `CalibrationKept`: a
calibration whose answer was lost is undone by a later Save of the same page.
`ZeroOnlyByHand`: the serial keys step through a factor of 0, and the form stores one that
is typed.
`PostedSinceTare`: a weight is sent again and again when the HX711 has stopped.

### Bounds

*Weights.* `KegGrams` has four weights so that two pours of more than the threshold
can follow each other, with a drift below a third of it (40 to 46) and none in
between; two pours and one drift reach every branch with every outcome. Its lightest
weight, 10 g, is inside the zero deadband and reads 0. `ClockGrams` has a load below
the tare, and `OtherFactor` what a load may read after a calibration.

*Clock.* The intervals are 1 or 2 units and `Period` 4 to 12: a property of
differences of the clock depends on the order of the intervals, half a period and a
period, which these keep (`2 * PourArmDelay <= Period`, as 5000 ms of 2^32). In
`pour_weights` half a period is longer than the bound of `PourEnds`, since the arm
window that returns then (see above) would end any pour. That the pour of a scale
that was off line may start its settle time anew when the unsigned difference wraps
in the first pass was found by this run, and is the third pass of the bound.
`MaxGap` bounds the time between two passes of a live loop; while logged out time is
not bounded.

*Session.* Two faults let one happen during the recovery from another; two packets
in the buffer let a RESPONSE and a command overtake each other; one message id is
enough because ids are only compared for equality and a second use of an id must
wait for the first.

*Scale.* Three raw values include the one that stands for no data, and allow a
positive and a negative difference; two calibration weights and two other settings
allow a change. No number of passes or restarts is bounded.

*Wire.* Header, buffer, window and 2^16 are scaled to 2, 2, 4 and 7 in the same
order; the four lengths are one that fits the buffer, one that is read away, one
that exceeds the window and one that wraps. After a packet that wraps the server
sends nothing more, since from there on what is read depends on bytes the model does
not have. The server sends between two passes only: nothing in the code ends the
loop over the packets if it never pauses. One weight stands for all (1 kg, or 2 of
the other unit); two packets, two messages from the device, one fault.

*Transfer.* `Users` splits the behaviours: the owner boots without a configuration,
uses the portal, the page, the serial keys and has power failures; the brewer has a
scale that is set up, moves loads, presses the button, and has an HX711 and a
network that come and go. Both go through the whole `loop()`. The split loses a
power failure during brewing, which only leads to a boot with a stored
configuration, as the owner's do. The intervals of weighing and sending are 2 and 3,
so that they drift against each other. Two raw values, one known weight, two typed
factors and a step of the serial keys that reaches 0 give factors of 0, odd and even
ones, and a printed factor that differs from its original. `Period` is 6 (8 in
`transfer_tare`) with `Block` 3 and `Debounce` 1: only their order matters, as long
as two requests of a pass are shorter than the clock's width, which
`TransferAssumption` says. Serial commands that print are `EndPass`.

### Fairness

The two connections and the transfer scale state fairness. The Arduino core calls
`loop()` for ever, so `Loop` is weakly fair: a pass that can be taken is. Time
passes (`Tick`). An update that was begun ends, the server reads what arrived, lwIP
gives up on data nobody acknowledges, and the access point comes back; none of them
is assumed to be fast. Faults are not fair, and their number is bounded, which is
what "once the faults end" means in `Recovers`. Nothing is assumed of the server's
commands.

In `BlynkWire`, `Loop` is weakly fair, and so are the server's reading (`Receive`) and its
`Rst`. `Arrive` is strongly fair: it is enabled only while the loop waits for bytes,
over and over, since it makes no difference at other times; TCP delivers what was
sent. In `TransferScale`, `Loop` and `BootLoop` are weakly fair: `setup()` ends and `loop()`
is called for ever. Nobody has to leave the portal, so `KeepsSending` assumes that the
scale is at work, that the network and the HX711 stay and that a network is
configured.

## The proofs

All theorems are about every value of the constants the named assumptions allow. Every
invariant that a passing run checks is a theorem. The strengthenings were checked by TLC
on the instances of the runs before they were proved.

* `PourDetectionProofs`. `TypeCorrect` is inductive with the ranges of the
  timers. `PourKeepsBaseline`: the invariant is inductive, since only the branches
  outside a pour move the baseline. `ArmingHolds` needs a relation between the
  history `armAge` and the difference `pour_arm`: until `PourArmDelay` they add up
  around the wrap, so that the difference is in its upper half. `ReportsAreExact`
  follows from `PourFromBaseline` at the step. `NoPhantomPour` assumes
  `Recalibrated = {}` and bounds `last_stable_g` and `last_weight_g` by `peak`.
  `ServerCatchesUp` needs that a pin wrong for longer than the present pass was right at
  the last push or has been wrong for no longer than the push timer ran (`StaleInv`).
  `PoursEnd` divides a pour on a quiet scale into the time before the first pass, the
  time on the settle timer that this pass found or started, and the time after the
  conversion that shows the load has started it anew; each bounds `calm` by the timer
  (`CalmInv`). Both need that the intervals and a pass fit into the clock's width
  (`PassAssumption`: 10 s and 2 s of 2^32 ms).
* `BlynkSessionProofs`. `AuthenticationSound` needs that a RESPONSE 200 waits in the
  buffer only if the server accepted the login of this connection, so nothing is
  left of an earlier one. `SessionImplementsLink` uses it for the step that goes
  live, and that a connection which is no longer connected is not authenticated
  after the next pass. `SessionTypes` and `SnapshotsSent` follow the definitions.
  `CommandsAcknowledged` adds that no two commands in the buffer have the same id, so
  that reading one takes its id out of what is asked. `KeptAlive` says that the time of
  silence is that of the pass of the login, or is bounded by `last_ping_ms` (`PingInv`), under
  `PassAssumption` (30 s and two passes within 2^32 ms). It corrected the property: an
  earlier bound, of two passes, holds on the run's instance and has a counterexample with
  a longer `MaxGap`, because `last_ping_ms` is left as it was at the login and its
  difference may wrap just then; the third pass is for that.
* `ScaleControlProofs`. `FactorNeverZero` is type correctness, where a factor has a
  numerator and a denominator that are not 0. `RequestsExecutedInOrder` says for every
  stage of a pass which requests may be queued there (`QueueAt`). `RegistersFollow` and
  `SettingsSurvive` assume `PortalFactors = {}` (the run `scale_portal` shows why). Their invariant
  says that registers and configuration agree after the boot, that the EEPROM agrees
  too outside a save, and that it lags by one field at most inside one. With it the
  settings in effect are those of the EEPROM at every moment, and the refinement of
  `ScaleSettings` has a case for a save, a commit and a restart each.

* `TransferScaleProofs`. `TypeCorrect` has one strengthening, `LateBound`: two requests at
  most come before the button is polled, so that the time stored in `press` stays in
  the clock's width. It is a fact for the rest, and each property has an invariant of
  its own. `FactorsAgree` is inductive as it stands. `ReviewHonest` adds that the page is
  live only in the portal. `KegsAgree` adds that the stored weights are those in `cfg`,
  and those of a server that was told of them, which the scale reads back as the same
  number of kilograms in either unit. `TaresTakeEffect` adds that after a serial tare,
  whose delay outlasts the weighing interval, a weighing is due before the next
  section sends. `CalibrationSurvives` adds that an open form holds the printed factor,
  and that printing is idempotent. `ZeroFactorTyped` adds that the page never reviews a
  factor of 0.
* `BlynkWireProofs`. `AcknowledgedIsStored`: what is about to be executed is what was
  acknowledged last. `WireTypes` adds the packets and messages that can be in the
  sequences, and that the server sends nothing before it has read the login.
  `HeadersFound`: as long as no length wraps, no packet is read in part (`Aligned`), for the loop waits for the
  whole packet and then reads exactly its bytes. `WeightsTaken` follows the unit through
  four places (`WeightInv`): the last unit under way to the app is the device's, or the
  app shows it; then a weight typed with no unit under way is in the device's unit, no
  unit comes before it in the stream and none is being set, so that it still is when
  it is executed. `CommandsAnsweredInOrder` adds that no id is waited for twice: reading
  a command moves its id from the front of the stream to the end of what was written,
  and reading its acknowledgement takes the first id off.
* `BlynkWireBytes` proves what these rest on: the sums of the bytes of the packets exist,
  grow and add up (`UptoStep`, `UptoGrows`, `BytesAppend`, `BytesRest`), `Whole` is the only
  number of its kind, so that `After` leaves an input (`AfterOK`), and reading the first
  packet leaves exactly the others (`AfterHead`).
* `SequenceLemmas` proves the same for `FlattenSeq`: what it makes of a sequence with one
  element more, or without its first one.

These are inductions over the length of a sequence. The induction theorems of the
library take a predicate as a parameter, which the provers cannot instantiate;
`SequenceLemmas.Induction` is stated for a set of numbers instead, and follows from the
library's theorem that the finite sets of numbers are well-founded. The sums and the
sequences of ids are written as recursive functions for that reason.

`Advance` is written with an IF and not with `%`, which keeps its obligations
linear.

Only model-checked: what is eventually true (`DeadPeerNoticed`, `Recovers`,
`StallsOnlyTooLong`, `HalfClosedNoticed`, `ValuesFollow`, `KeepsSending`), which TLAPS cannot
prove from fairness, and the properties that the code violates.

## Not modelled

The look of the HTML pages, the JSON, HTTP authentication, the LED, the OLED, the
temperature and the formatting of values carry no control; of the transfer scale's
page the script that keeps the wizard's state is modelled. WiFiManager, ArduinoOTA,
HX711, EEPROM, `ESP8266HTTPClient` and lwIP are libraries, present only as the steps the
firmware can see. The vendored SDK headers hold declarations, and `WiFiUdp.cpp` is not
used by the firmware. A partly written EEPROM sector and an HX711 that dies inside
`get_units()` are left out. How long the keg scale's button was held is measured at the
polls of a loop that may block; nothing in the repository bounds a pass, so
`ScaleControl` lets a press have either effect.

## Plan

Modelled, checked and, apart from liveness, proved: pour detection, session, scale and
settings, the wire and the transfer scale. What is left:

1. The safety half of the liveness properties: for `HalfClosedNoticed`, `StallsOnlyTooLong`
   and `Recovers` a measure that no step of the loop increases, so that only fairness
   remains for TLC.
2. That `BlynkWire` keeps what `BlynkSession` takes for granted, that packets are whole: a
   refinement between the two, for a server whose lengths do not wrap.
