---------------------------- MODULE TransferScale ----------------------------
(***************************************************************************)
(* The firmware of the transfer scale (main.cpp): setup(), the setup       *)
(* portal with its page and calibration wizard, and the measuring loop.    *)
(*                                                                         *)
(* Raw HX711 values are small integers, factors are whole multiples of     *)
(* half a last printed digit ("%.2f"), time is in units of the shortest    *)
(* interval.  defaultEmptyKg and defaultTargetKg go the same way and are   *)
(* one value here, keg; so are emptyKegKg and targetKg.  The network name, *)
(* the password, the URL and the id are one flag, ssid.  The RAM keeps its *)
(* initial values while the device is off.                                 *)
(***************************************************************************)
EXTENDS Integers

CONSTANTS
    Raw,                \* what the HX711 may deliver
    Known,              \* weights put on the platform for the wizard
    TypedFactors,       \* factors typed into the form
    DefaultFactor, Step, MaxFactor,  \* setDefaultConfig(); serial '+'; bound of it
    Kegs, DefaultKeg,   \* weights in kg; setDefaultConfig()
    WeighInterval, PostInterval, GetInterval,
    MaxBlock,           \* bound of the time a blocking call takes
    Debounce, Block,    \* the 50 and 60000 ms of the tare button
    Period,             \* millis() counts modulo Period
    Users               \* "owner" sets the scale up, "brewer" works with it

ASSUME TransferAssumption ==
    /\ Raw \subseteq Int
    /\ Known \subseteq Nat \ {0}
    /\ TypedFactors \subseteq Int
    /\ DefaultFactor \in Int \ {0}
    /\ Step \in Nat \ {0}
    /\ MaxFactor \in Nat
    /\ Kegs \subseteq 1..100
    /\ DefaultKeg \in Kegs
    /\ {WeighInterval, PostInterval, GetInterval, Debounce} \subseteq Nat \ {0}
    /\ {MaxBlock, Period} \subseteq Nat \ {0}
    /\ 2 * MaxBlock < Period
    /\ Block \in 1..(Period - Debounce)
    /\ Users \subseteq {"owner", "brewer"}

VARIABLES
    pc,      \* "off", "portal", or the next section of loop()
    rom,     \* the configuration in EEPROM
    cfg,     \* Config cfg
    hx711,   \* the registers OFFSET and SCALE of the library, scaleReady
    wiz,     \* calTareDone, calPendingFactor
    run,     \* emptyKegKg and targetKg, wifiConnected, currentWeightKg in counts;
             \* history: the offset it was read with, whether the last weighing
             \* found no data, whether the last pass sent it to the server
    time,    \* millis() minus lastWeighTime, lastPostTime, lastGetTime and now;
             \* lastTareBtn = LOW, and while it is, millis() - tarePressTime
             \* modulo Period (it is not read otherwise)
    page,    \* the page in the browser; history: no restart since it was answered
    told,    \* history: the factor the page showed as saved, 0 when in doubt
    srv,     \* the server's keg; history: not the one the form saved last
    hand,    \* the finger on the button; history: tares since it came down
    load, hx,  \* the load; the HX711 delivers data
    wifi,    \* the network is there
    user     \* who has the scale, in this behaviour

web == <<page, told>>
env == <<hand, load, hx, wifi, user>>
vars == <<pc, rom, cfg, hx711, wiz, run, time, web, srv, env>>

Sections == {"watch", "weigh", "post", "get", "tare", "serial"}

Erased == [ssid |-> FALSE]
Default == [ssid |-> FALSE, factor |-> DefaultFactor, keg |-> DefaultKeg]

\* The globals after a reset.
ColdHx == [offset |-> 0, scale |-> 1, ready |-> FALSE]
ColdWiz == [tared |-> FALSE, pending |-> 0]
ColdRun == [keg |-> DefaultKeg, linked |-> FALSE, counts |-> 0, off |-> 0,
            missed |-> TRUE, sent |-> FALSE]
ColdTime == [weigh |-> 0, post |-> 0, get |-> 0, late |-> 0, press |-> 0,
             low |-> FALSE]

NoPage == [step |-> 0, factor |-> 0, cal |-> 0, live |-> FALSE]

\* How long a request may block; the owner has a fast network.
Delays == IF run.linked /\ user = "brewer" THEN 0..MaxBlock ELSE {0}

\* jsonGet() of null and toFloat(), which are not told from an empty field.
Blank == 0

\* dtostrf(f, 0, 2), and toFixed(2) in the page.
Printed(f) == 2 * ((f + 1) \div 2)

\* Mutant of Kg: the unit is taken for granted.
KgAlways(v) == v

\* "grams when values > 100, kg when <= 100"
Kg(v) == IF v > 100 THEN v \div 1000 ELSE v

\* What getRemoteConfig() makes of k: a missing or zero value is ignored.
Fetched(k) ==
    IF srv.keg > 0 THEN {Kg(v) : v \in {srv.keg, 1000 * srv.keg}} ELSE {k}

\* max(0, get_units()), in counts.
Counts == LET net == load - hx711.offset
          IN IF (net > 0) = (hx711.scale >= 0) THEN net ELSE 0

\* The factor of the page's live reading.
ActiveFactor == IF wiz.pending # 0 THEN wiz.pending ELSE cfg.factor

Init ==
    /\ user \in Users
    /\ rom = IF user = "owner" THEN Erased ELSE [Default EXCEPT !.ssid = TRUE]
    /\ pc = "off"
    /\ cfg = Default
    /\ hx711 = ColdHx
    /\ wiz = ColdWiz
    /\ run = ColdRun
    /\ time = ColdTime
    /\ page = NoPage
    /\ told = 0
    /\ srv = [keg |-> 0, behind |-> FALSE]
    /\ hand = [down |-> FALSE, tares |-> 0]
    /\ load \in Raw
    /\ hx \in BOOLEAN
    /\ wifi \in BOOLEAN

-----------------------------------------------------------------------------
(***************************************************************************)
(* Reset and setup()                                                       *)
(***************************************************************************)

\* The RAM is lost; a page that is open does not notice.
Reset ==
    /\ pc' = "off"
    /\ cfg' = Default
    /\ hx711' = ColdHx
    /\ wiz' = ColdWiz
    /\ run' = ColdRun
    /\ time' = ColdTime
    /\ page' = [page EXCEPT !.live = FALSE]

\* begin(), and when the HX711 answers in time, set_scale() and tare().
Started(factor) ==
    IF hx THEN [offset |-> load, scale |-> factor, ready |-> TRUE] ELSE ColdHx

\* connectWiFi(): the network may not answer in time.
Linked == {FALSE, wifi /\ rom.ssid}

\* setup() without a configuration, or with the button held for three seconds.
BootPortal ==
    /\ pc = "off"
    /\ pc' = "portal"
    /\ cfg' = IF rom = Erased THEN Default ELSE rom
    /\ rom # Erased => user = "owner"
    /\ hx711' = Started(cfg'.factor)
    /\ UNCHANGED <<rom, wiz, run, time, web, srv, env>>

\* setup() to its end: connectWiFi() (or its time runs out), initScale(), and
\* getRemoteConfig() when connected.  The access point is gone, and the page.
BootLoop ==
    /\ pc = "off"
    /\ rom # Erased
    /\ pc' = "watch"
    /\ cfg' = rom
    /\ hx711' = Started(rom.factor)
    /\ \E linked \in Linked :
         \E k \in {rom.keg} \cup (IF linked THEN Fetched(rom.keg) ELSE {}) :
           run' = [run EXCEPT !.linked = linked, !.keg = k]
    /\ page' = NoPage
    /\ UNCHANGED <<rom, wiz, time, told, srv, env>>

-----------------------------------------------------------------------------
(***************************************************************************)
(* The portal.  A request reaches its handler or nothing happens; the      *)
(* answer may be lost.  A handler that refuses changes nothing either.     *)
(***************************************************************************)
InPortal == pc = "portal" /\ user = "owner"

\* What becomes of the page: the answer may be lost.
PageTared == {page, [page EXCEPT !.step = 2]}

\* With a factor of 0 the weight read back is printed as "nan" or "inf", which
\* the page cannot parse.
PageMeasured(factor) ==
    {page} \cup {[page EXCEPT !.step = 3, !.factor = f, !.live = TRUE] :
                    f \in {factor} \ {0}}

\* The answer to doApply(): the page copies the factor into its form.
PageApplied == [page EXCEPT !.cal = Printed(page.factor)]

\* What saveConfig() of the page may send: a weight that is blank is null there.
Form == [cal : {page.cal} \cup TypedFactors, keg : Kegs \cup {Blank}]

PageLoad ==
    /\ InPortal
    /\ page' = [step |-> 1, factor |-> 0, cal |-> Printed(cfg.factor), live |-> TRUE]
    /\ UNCHANGED <<pc, rom, cfg, hx711, wiz, run, time, told, srv, env>>

\* goStep(): the buttons Back and Redo measurement.
PageBack ==
    /\ page.step \in {2, 3}
    /\ page' = [page EXCEPT !.step = @ - 1]
    /\ UNCHANGED <<pc, rom, cfg, hx711, wiz, run, time, told, srv, env>>

\* handleCalTare()
WizardTare ==
    /\ InPortal
    /\ page.step = 1
    /\ hx
    /\ hx711' = [hx711 EXCEPT !.offset = load, !.scale = cfg.factor]
    /\ wiz' = [tared |-> TRUE, pending |-> 0]
    /\ page' \in PageTared
    /\ UNCHANGED <<pc, rom, cfg, run, time, told, srv, env>>

\* Mutants of WizardMeasure: the factor stays in the register only; the answer
\* is valid whatever the factor.
WizardMeasureRegister ==
    /\ InPortal
    /\ page.step = 2
    /\ wiz.tared /\ hx
    /\ \E known \in Known :
         LET factor == (load - hx711.offset) \div known
         IN /\ hx711' = [hx711 EXCEPT !.scale = factor]
            /\ page' \in PageMeasured(factor)
    /\ UNCHANGED <<pc, rom, cfg, wiz, run, time, told, srv, env>>

WizardMeasureAny ==
    /\ InPortal
    /\ page.step = 2
    /\ wiz.tared /\ hx
    /\ \E known \in Known :
         LET factor == (load - hx711.offset) \div known
         IN /\ hx711' = [hx711 EXCEPT !.scale = factor]
            /\ wiz' = [wiz EXCEPT !.pending = factor]
            /\ page' = [page EXCEPT !.step = 3, !.factor = factor, !.live = TRUE]
    /\ UNCHANGED <<pc, rom, cfg, run, time, told, srv, env>>

\* handleCalMeasure(), which answers ok whatever the factor.
WizardMeasure ==
    /\ InPortal
    /\ page.step = 2
    /\ wiz.tared /\ hx
    /\ \E known \in Known :
         LET factor == (load - hx711.offset) \div known
         IN /\ hx711' = [hx711 EXCEPT !.scale = factor]
            /\ wiz' = [wiz EXCEPT !.pending = factor]
            /\ page' \in PageMeasured(factor)
    /\ UNCHANGED <<pc, rom, cfg, run, time, told, srv, env>>

\* Mutant of WizardApply: the form is not updated.
WizardApplyNoMirror ==
    /\ InPortal
    /\ page.step = 3
    /\ cfg' = [cfg EXCEPT !.factor = page.factor]
    /\ rom' = cfg'
    /\ hx711' = [hx711 EXCEPT !.scale = page.factor]
    /\ wiz' = ColdWiz
    /\ told' \in {0, page.factor}
    /\ UNCHANGED <<pc, run, time, page, srv, env>>

\* handleCalApply()
WizardApply ==
    /\ InPortal
    /\ page.step = 3
    /\ cfg' = [cfg EXCEPT !.factor = page.factor]
    /\ rom' = cfg'
    /\ hx711' = [hx711 EXCEPT !.scale = page.factor]
    /\ wiz' = ColdWiz
    /\ \/ told' = 0 /\ UNCHANGED page
       \/ told' = page.factor /\ page' = PageApplied
    /\ UNCHANGED <<pc, run, time, srv, env>>

\* handleSave(): then the server is told, if it can be reached, and the chip reset.
Save ==
    /\ InPortal
    /\ page.step # 0
    /\ \E form \in Form :
         /\ rom' = [ssid |-> TRUE, factor |-> form.cal, keg |-> form.keg]
         /\ told' = IF form.cal = page.cal THEN told ELSE 0
         /\ \/ wifi /\ srv' = [keg |-> form.keg, behind |-> FALSE]
            \/ srv' = [srv EXCEPT !.behind = TRUE]
    /\ Reset
    /\ UNCHANGED env

\* The power fails inside EEPROM.commit(), when the sector is erased.
TornSave ==
    /\ \/ InPortal /\ page.step # 0
       \/ pc = "serial" /\ user = "owner"
    /\ rom' = Erased
    /\ told' = 0
    /\ srv' = [srv EXCEPT !.behind = TRUE]
    /\ Reset
    /\ UNCHANGED env

PowerFail ==
    /\ pc # "off"
    /\ user = "owner"
    /\ Reset
    /\ UNCHANGED <<rom, told, srv, env>>

-----------------------------------------------------------------------------
(***************************************************************************)
(* loop()                                                                  *)
(***************************************************************************)

\* Mutant of Mod: the clock wraps one unit late.
ModLate(t) == IF t > Period THEN t - Period ELSE t

Mod(t) == IF t >= Period THEN t - Period ELSE t

\* d has gone by.
Passed(t, d) ==
    [t EXCEPT !.weigh = @ + d, !.post = @ + d, !.get = @ + d, !.late = @ + d,
              !.press = IF t.low THEN Mod(@ + d) ELSE 0]

\* Mutant of Watch: only connectWiFi() ever sets the flag.
WatchLosesOnly ==
    /\ pc = "watch"
    /\ pc' = "weigh"
    /\ time' = [time EXCEPT !.late = 0]
    /\ run' = [run EXCEPT !.linked = @ /\ wifi, !.sent = FALSE]
    /\ UNCHANGED <<rom, cfg, hx711, wiz, web, srv, env>>

\* The WiFi watchdog; WiFi.reconnect() shows only in the network coming back.
Watch ==
    /\ pc = "watch"
    /\ pc' = "weigh"
    /\ time' = [time EXCEPT !.late = 0]
    /\ run' = [run EXCEPT !.linked = wifi /\ cfg.ssid, !.sent = FALSE]
    /\ UNCHANGED <<rom, cfg, hx711, wiz, web, srv, env>>

Weigh ==
    /\ pc = "weigh"
    /\ pc' = "post"
    /\ IF time.weigh < WeighInterval
       THEN UNCHANGED <<run, time>>
       ELSE /\ time' = [time EXCEPT !.weigh = 0]
            /\ run' = IF hx711.ready /\ hx
                      THEN [run EXCEPT !.counts = Counts, !.off = hx711.offset,
                                       !.missed = FALSE]
                      ELSE [run EXCEPT !.missed = TRUE]
    /\ UNCHANGED <<rom, cfg, hx711, wiz, web, srv, env>>

\* postWeight(): an error is looked into only for the flag wifiConnected.
Post ==
    /\ pc = "post"
    /\ pc' = "get"
    /\ IF time.post - time.late < PostInterval
       THEN UNCHANGED <<run, time>>
       ELSE \E d \in Delays :
              /\ time' = Passed([time EXCEPT !.post = time.late], d)
              /\ run' = [run EXCEPT !.sent = run.linked /\ wifi,
                                    !.linked = run.linked /\ wifi]
    /\ UNCHANGED <<rom, cfg, hx711, wiz, web, srv, env>>

\* getRemoteConfig(), which leaves the flag alone.
Get ==
    /\ pc = "get"
    /\ pc' = "tare"
    /\ IF time.get - time.late < GetInterval
       THEN UNCHANGED <<run, time>>
       ELSE \E d \in Delays,
               k \in {run.keg} \cup
                     (IF run.linked /\ wifi THEN Fetched(run.keg) ELSE {}) :
              /\ time' = Passed([time EXCEPT !.get = time.late], d)
              /\ run' = [run EXCEPT !.keg = k]
    /\ UNCHANGED <<rom, cfg, hx711, wiz, web, srv, env>>

\* The button is polled; "now" is the time at the start of the pass.
TareButton ==
    LET low == hand.down
        press == IF low /\ ~time.low THEN time.late ELSE time.press
        held == Mod(press + Period - time.late)
        pushed == low /\ time.low /\ held >= Debounce
    IN /\ pc = "tare"
       /\ pc' = IF pushed /\ hx711.ready THEN "zeroing" ELSE "serial"
       /\ time' = [time EXCEPT !.low = low,
                               !.press = CASE ~low -> 0
                                           [] pushed -> Mod(time.late + Period - Block)
                                           [] OTHER -> press]
       /\ hand' = IF pushed /\ hx711.ready
                  THEN [hand EXCEPT !.tares = IF @ < 2 THEN @ + 1 ELSE 2] ELSE hand
       /\ UNCHANGED <<rom, cfg, hx711, wiz, run, web, srv, load, hx, wifi, user>>

\* Mutant of Zeroed: no delay after it.
ZeroedNoDelay ==
    /\ pc \in {"zeroing", "taring"}
    /\ hx
    /\ pc' = IF pc = "zeroing" THEN "serial" ELSE "watch"
    /\ hx711' = [hx711 EXCEPT !.offset = load]
    /\ run' = IF pc = "zeroing" THEN [run EXCEPT !.counts = 0, !.off = load] ELSE run
    /\ UNCHANGED <<rom, cfg, wiz, time, web, srv, env>>

\* scale.tare() waits for the HX711.  The button also zeroes the weight; the
\* serial 't' does not, but takes its 10 samples and a delay of 600 ms.
Zeroed ==
    /\ pc \in {"zeroing", "taring"}
    /\ hx
    /\ pc' = IF pc = "zeroing" THEN "serial" ELSE "watch"
    /\ hx711' = [hx711 EXCEPT !.offset = load]
    /\ run' = IF pc = "zeroing" THEN [run EXCEPT !.counts = 0, !.off = load] ELSE run
    /\ \E d \in 1..MaxBlock :
         /\ pc = "taring" => d >= WeighInterval
         /\ time' = Passed(time, d)
    /\ UNCHANGED <<rom, cfg, wiz, web, srv, env>>

\* Mutant of Tune: only the configuration changes.
TuneUnset ==
    /\ pc = "serial" /\ user = "owner"
    /\ \E f \in {cfg.factor + Step, cfg.factor - Step} :
         /\ f \in (-MaxFactor)..MaxFactor
         /\ cfg' = [cfg EXCEPT !.factor = f]
    /\ told' = 0
    /\ pc' = "watch"
    /\ time' = Passed(time, 1)
    /\ UNCHANGED <<rom, hx711, wiz, run, page, srv, env>>

\* Serial '+' and '-'
Tune ==
    /\ pc = "serial" /\ user = "owner"
    /\ \E f \in {cfg.factor + Step, cfg.factor - Step} :
         /\ f \in (-MaxFactor)..MaxFactor
         /\ cfg' = [cfg EXCEPT !.factor = f]
         /\ hx711' = [hx711 EXCEPT !.scale = f]
    /\ told' = 0
    /\ pc' = "watch"
    /\ time' = Passed(time, 1)
    /\ UNCHANGED <<rom, wiz, run, page, srv, env>>

\* Serial 'w', 't' and 'x': runSetupPortal() starts the scale unless it has.  It
\* ends in a reset, so what only loop() reads is forgotten here.
Command ==
    /\ pc = "serial"
    /\ \/ /\ user = "owner"
          /\ pc' = "watch"
          /\ rom' = cfg
          /\ time' = Passed(time, 1)
          /\ UNCHANGED <<hx711, run>>
       \/ /\ user = "owner"
          /\ pc' = "portal"
          /\ hx711' = IF hx711.ready THEN hx711 ELSE Started(cfg.factor)
          /\ run' = ColdRun /\ time' = ColdTime
          /\ UNCHANGED rom
       \/ pc' = "taring" /\ UNCHANGED <<rom, hx711, run, time>>
    /\ UNCHANGED <<cfg, wiz, web, srv, env>>

\* No command that changes anything; a pass takes time.
EndPass ==
    /\ pc = "serial"
    /\ pc' = "watch"
    /\ \E d \in {0, 1} : (time.late = 0 => d = 1) /\ time' = Passed(time, d)
    /\ UNCHANGED <<rom, cfg, hx711, wiz, run, web, srv, env>>

-----------------------------------------------------------------------------
\* The world: external.  The brewer has a scale that is set up.
World ==
    /\ \/ /\ user = "brewer" \/ pc = "portal"
          /\ load' \in Raw \ {load}
          /\ UNCHANGED <<hand, hx, wifi>>
       \/ user = "brewer" /\ hx' = ~hx /\ UNCHANGED <<hand, load, wifi>>
       \/ /\ user = "brewer" \/ pc \in {"off", "portal"}
          /\ wifi' = ~wifi
          /\ UNCHANGED <<hand, load, hx>>
       \/ /\ user = "brewer"
          /\ hand' = [down |-> ~hand.down, tares |-> 0]
          /\ UNCHANGED <<load, hx, wifi>>
    /\ UNCHANGED <<pc, rom, cfg, hx711, wiz, run, time, web, srv, user>>

\* The app changes the server's weights.
AppEdit ==
    /\ user = "owner"
    /\ srv' \in [keg : Kegs, behind : {TRUE}]
    /\ UNCHANGED <<pc, rom, cfg, hx711, wiz, run, time, web, env>>

Loop == Watch \/ Weigh \/ Post \/ Get \/ TareButton \/ Zeroed \/ Tune \/ Command
        \/ EndPass

Next ==
    \/ BootPortal \/ BootLoop
    \/ PageLoad \/ PageBack
    \/ WizardTare \/ WizardMeasure \/ WizardApply
    \/ Save \/ TornSave \/ PowerFail
    \/ Loop
    \/ World \/ AppEdit

\* loop() is called for ever and setup() ends; nobody has to do anything.
Fairness == WF_vars(Loop) /\ WF_vars(BootLoop)

Spec == Init /\ [][Next]_vars /\ Fairness

-----------------------------------------------------------------------------
Working == pc \in Sections \cup {"zeroing", "taring"}

TypeOK ==
    /\ pc \in {"off", "portal"} \cup Sections \cup {"zeroing", "taring"}
    /\ rom = Erased \/ rom \in [ssid : BOOLEAN, factor : Int, keg : Nat]
    /\ cfg \in [ssid : BOOLEAN, factor : Int, keg : Nat]
    /\ hx711 \in [offset : Int, scale : Int, ready : BOOLEAN]
    /\ wiz \in [tared : BOOLEAN, pending : Int]
    /\ run \in [keg : Nat, linked : BOOLEAN, counts : Int, off : Int,
                missed : BOOLEAN, sent : BOOLEAN]
    /\ time \in [weigh : Nat, post : Nat, get : Nat, late : Nat,
                 press : 0..(Period - 1), low : BOOLEAN]
    /\ page \in [step : 0..3, factor : Int, cal : Int, live : BOOLEAN]
    /\ told \in Int
    /\ srv \in [keg : Nat, behind : BOOLEAN]
    /\ hand \in [down : BOOLEAN, tares : 0..2]
    /\ load \in Raw
    /\ hx \in BOOLEAN
    /\ wifi \in BOOLEAN
    /\ user \in Users

\* At work the scale divides by the factor of its configuration, however that
\* came to be: boot, form, wizard, serial commands (main.cpp:934, 1055).
FactorInEffect == Working /\ hx711.ready => hx711.scale = cfg.factor

\* While the page shows a measured factor for review, the live reading beside it
\* uses that factor (main.cpp:789-791), unless the device was restarted.
ReviewInForce == page.step = 3 /\ page.live => ActiveFactor = page.factor

\* A factor the page has shown as saved stays the stored one, to the printed
\* digit, through a later Save of the same page and through restarts (main.cpp:
\* 541-543); it goes only with a torn save or another choice of the user.
CalibrationKept ==
    told # 0 => rom # Erased /\ rom.factor - told \in {-1, 0, 1}

\* A factor of zero, which get_units() would divide by, never comes from a
\* measurement of the wizard: it is stepped to with the serial keys, or it is read
\* from the EEPROM, where the form has stored what was typed (main.cpp:736, 769).
ZeroOnlyByHand ==
    [][cfg'.factor = 0 /\ cfg.factor # 0 =>
         pc = "serial" \/ (rom # Erased /\ rom.factor = 0)]_vars

\* What the scale uses as empty and target weight is what its form saved, unless
\* the server did not learn of it or was changed since (main.cpp:672-683, 913).
KegInForce == Working /\ ~srv.behind => run.keg = cfg.keg

\* A weight the server receives was measured, or zeroed, after the last tare, if
\* the HX711 had data when the last weighing was due (main.cpp:1018, 1027, 1044).
PostedSinceTare ==
    [][run'.sent /\ ~run.sent => run.missed \/ run.off = hx711.offset]_vars

\* With a network and an HX711 that stay, a scale that is at work goes on sending
\* its weight (main.cpp:1007-1028).
KeepsSending ==
    <>[](wifi /\ hx /\ Working /\ cfg.ssid) => []<>run.sent

\* main.cpp:1038, "confirmed press, tare once", and 1046, "block repeat until
\* released and pressed again".
TareOncePerPress == hand.tares <= 1
=============================================================================
