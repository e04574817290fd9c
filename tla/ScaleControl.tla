---------------------------- MODULE ScaleControl ----------------------------
(***************************************************************************)
(* The scale itself in the Open Keg Scale firmware: taring, calibration,   *)
(* the empty keg weight and the other settings, their copy in EEPROM and   *)
(* the two registers of the HX711 library, as the button, the web page,    *)
(* the setup portal and the server change them (open_keg_scale.ino).       *)
(*                                                                         *)
(* A pass of loop() looks at the button, serves one HTTP request, executes *)
(* the actions that requests have queued, in a fixed order, and ends with  *)
(* the network part.  Every operation that changes a setting ends with     *)
(* saveConfig(), which is a step of its own: the power may fail in it.     *)
(*                                                                         *)
(* Raw HX711 values are small integers.  A calibration factor is kept as   *)
(* the quotient the code computes, raw counts over grams.  The maximal     *)
(* volume, the beer name, the temperature offset and the two unit settings *)
(* are one setting, other: nothing here depends on their values.           *)
(***************************************************************************)
EXTENDS Integers, FiniteSets

CONSTANTS
    Raw,            \* raw values the HX711 may deliver
    Known,          \* calibration weights, in grams
    Others,         \* values of the other settings
    DefaultEmpty,   \* empty_keg_g of loadConfig()'s defaults
    DefaultOther,
    PortalFactors   \* factors the setup portal's form may submit, typed there or
                    \* printed in it with four decimals; {}: the field is cleared

ASSUME ScaleAssumption ==
    /\ Raw \subseteq Int
    /\ Known \subseteq Nat \ {0}
    /\ DefaultEmpty \in Nat
    /\ DefaultOther \in Others
    /\ PortalFactors \subseteq [num : Int \ {0}, den : Nat \ {0}]

VARIABLES
    pc,            \* "off", "setup", or the next stage of loop()
    saving,        \* saveConfig() is under way
    cfg,           \* Config cfg
    eeprom,        \* its copy in flash
    OFFSET, SCALE, \* the registers of the HX711 library
    pending,       \* pending_tare, pending_calibrate, pending_set_empty_keg
    pending_known_g,
    last_weight_g,
    load,          \* the raw value of what stands on the platform
    hx             \* the HX711 delivers data

regs == <<OFFSET, SCALE>>
requests == <<pending, pending_known_g>>
world == <<load, hx>>
vars == <<pc, saving, cfg, eeprom, regs, requests, last_weight_g, world>>

Fields == {"offset", "factor", "empty", "other"}

Defaults == [offset |-> 0, factor |-> [num |-> 1, den |-> 1],
             empty |-> DefaultEmpty, other |-> DefaultOther]

\* A flash sector that was erased and not written.
Blank == [offset |-> 0]

\* What loadConfig() makes of the EEPROM.
Loaded(e) == IF e = Blank THEN Defaults ELSE e

Stages == {"button", "http", "tare", "calibrate", "empty", "net"}

\* The stage loop() is in, between two statements.
At(stage) == pc = stage /\ ~saving

\* HX711::get_units(): raw counts over the factor, rounded down.
Grams(raw) ==
    LET counts == (raw - OFFSET) * SCALE.den
    IN IF SCALE.num > 0 THEN counts \div SCALE.num ELSE (-counts) \div (-SCALE.num)

\* readAverageRaw(): 0 when no sample arrives within its time.
AverageRaw == IF hx THEN load ELSE 0

\* readWeightGrams(): the last weight when no conversion is ready.
Readings == {last_weight_g} \cup (IF hx THEN {Grams(load)} ELSE {})

\* saveConfig(): the flash follows in the step Commit.
Save(c) == cfg' = c /\ saving' = TRUE

NoSave == UNCHANGED <<cfg, saving>>

Init ==
    /\ pc = "off"
    /\ saving = FALSE
    /\ cfg = Defaults
    /\ eeprom = Blank
    /\ OFFSET = 0
    /\ SCALE = Defaults.factor
    /\ pending = {}
    /\ pending_known_g = 0
    /\ last_weight_g = 0
    /\ load \in Raw
    /\ hx = TRUE

-----------------------------------------------------------------------------
(***************************************************************************)
(* setup()                                                                 *)
(***************************************************************************)

\* loadConfig() and the registers of the HX711; the globals start at zero.
Boot ==
    /\ pc = "off"
    /\ pc' = "setup"
    /\ IF eeprom = Blank THEN Save(Defaults)
                         ELSE cfg' = eeprom /\ saving' = FALSE
    /\ OFFSET' = Loaded(eeprom).offset
    /\ SCALE' = Loaded(eeprom).factor
    /\ pending' = {}
    /\ pending_known_g' = 0
    /\ last_weight_g' = 0
    /\ UNCHANGED <<eeprom, world>>

\* saveParamsCallback() of the setup portal: a field that is empty or zero keeps
\* the factor.  The registers are not touched.
PortalSave ==
    /\ At("setup")
    /\ \E f \in PortalFactors \cup {cfg.factor}, o \in Others :
         Save([cfg EXCEPT !.factor = f, !.other = o])
    /\ UNCHANGED <<pc, eeprom, regs, requests, last_weight_g, world>>

\* wm.autoConnect() succeeds, at once or after the portal.
WifiJoined ==
    /\ At("setup")
    /\ pc' = "button"
    /\ UNCHANGED <<saving, cfg, eeprom, regs, requests, last_weight_g, world>>

-----------------------------------------------------------------------------
(***************************************************************************)
(* The operations on the scale.                                            *)
(***************************************************************************)

\* Mutant of DoTare: the configuration is not saved.
DoTareUnsaved ==
    IF AverageRaw = 0
    THEN NoSave /\ UNCHANGED <<OFFSET, last_weight_g>>
    ELSE /\ OFFSET' = AverageRaw
         /\ cfg' = [cfg EXCEPT !.offset = AverageRaw]
         /\ last_weight_g' = 0
         /\ UNCHANGED saving

\* doTare(): an average of 0 stands for "no data" and changes nothing.
DoTare ==
    IF AverageRaw = 0
    THEN NoSave /\ UNCHANGED <<OFFSET, last_weight_g>>
    ELSE /\ OFFSET' = AverageRaw
         /\ Save([cfg EXCEPT !.offset = AverageRaw])
         /\ last_weight_g' = 0

\* Mutants of DoCalibrate: a difference of 0 is accepted; the register keeps the
\* old factor.
DoCalibrateZero(known_g) ==
    LET factor == [num |-> AverageRaw - OFFSET, den |-> known_g]
    IN SCALE' = factor /\ Save([cfg EXCEPT !.factor = factor])

DoCalibrateUnset(known_g) ==
    LET raw == AverageRaw - OFFSET
        factor == [num |-> raw, den |-> known_g]
    IN /\ IF known_g <= 0 \/ raw = 0 THEN NoSave
                                     ELSE Save([cfg EXCEPT !.factor = factor])
       /\ UNCHANGED SCALE

\* doCalibrateWithKnownWeight(known_g)
DoCalibrate(known_g) ==
    LET raw == AverageRaw - OFFSET
        factor == [num |-> raw, den |-> known_g]
    IN IF known_g <= 0 \/ raw = 0
       THEN NoSave /\ UNCHANGED SCALE
       ELSE SCALE' = factor /\ Save([cfg EXCEPT !.factor = factor])

\* doSetEmptyKeg(readWeightGrams()), clamped to an unsigned weight.
DoSetEmptyKeg ==
    \E g \in Readings : Save([cfg EXCEPT !.empty = IF g > 0 THEN g ELSE 0])

Button ==
    /\ At("button")
    /\ pc' = "http"
    /\ \/ NoSave /\ UNCHANGED <<OFFSET, last_weight_g>>
       \/ DoTare
    /\ UNCHANGED <<eeprom, SCALE, requests, world>>

\* webServer.handleClient(): at most one request.
Http ==
    /\ At("http")
    /\ pc' = "tare"
    /\ \/ NoSave /\ UNCHANGED requests
       \/ NoSave /\ pending' = pending \cup {"tare"} /\ UNCHANGED pending_known_g
       \/ NoSave /\ pending' = pending \cup {"empty"} /\ UNCHANGED pending_known_g
       \/ /\ NoSave
          /\ pending' = pending \cup {"calibrate"}
          /\ pending_known_g' \in Known
       \/ /\ \E g \in Known \cup {0} : Save([cfg EXCEPT !.empty = g])
          /\ UNCHANGED requests
       \/ /\ \E o \in Others : Save([cfg EXCEPT !.other = o])
          /\ UNCHANGED requests
    /\ UNCHANGED <<eeprom, regs, last_weight_g, world>>

\* Mutant of PendingTare: a tare that found no data is tried again later.
PendingTareRetries ==
    /\ At("tare")
    /\ pc' = "calibrate"
    /\ pending' = IF AverageRaw = 0 THEN pending ELSE pending \ {"tare"}
    /\ IF "tare" \in pending THEN DoTare
                             ELSE NoSave /\ UNCHANGED <<OFFSET, last_weight_g>>
    /\ UNCHANGED <<eeprom, SCALE, pending_known_g, world>>

PendingTare ==
    /\ At("tare")
    /\ pc' = "calibrate"
    /\ pending' = pending \ {"tare"}
    /\ IF "tare" \in pending THEN DoTare
                             ELSE NoSave /\ UNCHANGED <<OFFSET, last_weight_g>>
    /\ UNCHANGED <<eeprom, SCALE, pending_known_g, world>>

PendingCalibrate ==
    /\ At("calibrate")
    /\ pc' = "empty"
    /\ pending' = pending \ {"calibrate"}
    /\ IF "calibrate" \in pending
       THEN DoCalibrate(pending_known_g) /\ pending_known_g' = 0
       ELSE NoSave /\ UNCHANGED <<SCALE, pending_known_g>>
    /\ UNCHANGED <<eeprom, OFFSET, last_weight_g, world>>

PendingEmpty ==
    /\ At("empty")
    /\ pc' = "net"
    /\ pending' = pending \ {"empty"}
    /\ IF "empty" \in pending THEN DoSetEmptyKeg ELSE NoSave
    /\ UNCHANGED <<eeprom, regs, pending_known_g, last_weight_g, world>>

\* handleIncomingHardware(): any number of commands in one pass.
NetTare ==
    /\ At("net")
    /\ DoTare
    /\ UNCHANGED <<pc, eeprom, SCALE, requests, world>>

NetCalibrate ==
    /\ At("net")
    /\ \E g \in Known : DoCalibrate(g)
    /\ UNCHANGED <<pc, eeprom, OFFSET, requests, last_weight_g, world>>

NetSetEmpty ==
    /\ At("net")
    /\ \/ DoSetEmptyKeg
       \/ \E g \in Known \cup {0} : Save([cfg EXCEPT !.empty = g])
    /\ UNCHANGED <<pc, eeprom, regs, requests, last_weight_g, world>>

NetSetOther ==
    /\ At("net")
    /\ \E o \in Others : Save([cfg EXCEPT !.other = o])
    /\ UNCHANGED <<pc, eeprom, regs, requests, last_weight_g, world>>

\* The pass ends, with a reading when the server is connected (if it is not, the
\* last weight stays, which is one of the Readings).
EndPass ==
    /\ At("net")
    /\ pc' = "button"
    /\ last_weight_g' \in Readings
    /\ UNCHANGED <<saving, cfg, eeprom, regs, requests, world>>

-----------------------------------------------------------------------------
\* EEPROM.commit() succeeds.
Commit ==
    /\ saving
    /\ saving' = FALSE
    /\ eeprom' = cfg
    /\ UNCHANGED <<pc, cfg, regs, requests, last_weight_g, world>>

\* Power loss, ESP.restart(), the end of an update, or the portal's timeout.  A
\* commit that was under way has not started, or has erased the sector.
Restart ==
    /\ pc # "off"
    /\ pc' = "off"
    /\ saving' = FALSE
    /\ eeprom' \in IF saving THEN {eeprom, Blank} ELSE {eeprom}
    /\ UNCHANGED <<cfg, regs, requests, last_weight_g, world>>

\* The load changes, or the HX711 stops or starts delivering data: external.
World ==
    /\ \/ load' \in Raw \ {load} /\ UNCHANGED hx
       \/ hx' = ~hx /\ UNCHANGED load
    /\ UNCHANGED <<pc, saving, cfg, eeprom, regs, requests, last_weight_g>>

Next ==
    \/ Boot
    \/ PortalSave
    \/ WifiJoined
    \/ Button
    \/ Http
    \/ PendingTare
    \/ PendingCalibrate
    \/ PendingEmpty
    \/ NetTare
    \/ NetCalibrate
    \/ NetSetEmpty
    \/ NetSetOther
    \/ EndPass
    \/ Commit
    \/ Restart
    \/ World

Spec == Init /\ [][Next]_vars

-----------------------------------------------------------------------------
Factors == [num : Int \ {0}, den : Nat \ {0}]

Configs == [offset : Int, factor : Factors, empty : Nat, other : Others]

\* Type correctness; with it, no calibration factor is ever zero, in the RAM, in
\* the EEPROM or in the register get_units() divides by (ino:835, 1062).
TypeOK ==
    /\ pc \in {"off", "setup"} \cup Stages
    /\ saving \in BOOLEAN
    /\ cfg \in Configs
    /\ eeprom = Blank \/ eeprom \in Configs
    /\ OFFSET \in Int
    /\ SCALE \in Factors
    /\ pending \subseteq {"tare", "calibrate", "empty"}
    /\ pending_known_g \in Nat
    /\ last_weight_g \in Int
    /\ load \in Raw
    /\ hx \in BOOLEAN

\* The registers of the HX711 are those of the configuration (ino:187-188,
\* "HX711 scale factor", "HX711 raw offset after tare"; README.md:107, "Save.
\* The device reboots and connects automatically").
ConfigInEffect ==
    pc \in Stages => OFFSET = cfg.offset /\ SCALE = cfg.factor

\* What the web page has queued is executed in the pass that queued it, before
\* the network part and before another request is accepted (ino:1289-1309), so
\* two requests are never executed in another order than they were made.
RequestsInOrder ==
    pc \in Stages =>
      /\ Cardinality(pending) <= 1
      /\ pc \in {"net", "button", "http"} => pending = {}

\* The settings in effect: those of the running program, or those the next boot
\* will load while it is off, starting, or in the middle of a save.
settings ==
    IF pc \in Stages /\ ~saving
    THEN [offset |-> OFFSET, factor |-> SCALE, empty |-> cfg.empty,
          other |-> cfg.other]
    ELSE Loaded(eeprom)

Contract == INSTANCE ScaleSettings WITH busy <- saving

\* A restart at any moment leaves the settings that were in effect, an operation
\* changes one of them, and only a save that the power interrupts loses them.
ImplementsSettings == Contract!Spec

\* ino:832, "Reads the raw HX711 value and back-calculates the scale factor": the
\* factor is computed from a value the HX711 delivered.
CalibratedFromSamples ==
    [][cfg'.factor # cfg.factor /\ pc \in {"calibrate", "net"} => hx]_vars
=============================================================================
