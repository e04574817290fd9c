------------------------ MODULE TransferScaleProofs ------------------------
(***************************************************************************)
(* What holds of the transfer scale for all readings, factors, weights and *)
(* intervals.  Each property has a strengthening of its own; the types,    *)
(* with the bound of the time a pass takes before the button is polled,    *)
(* are proved first and are a fact for the others.                         *)
(***************************************************************************)
EXTENDS TransferScale, TLAPS

\* At most two requests of this pass came before the button is polled.
LateBound ==
    /\ pc \in {"weigh", "post"} => time.late = 0
    /\ pc = "get" => time.late <= MaxBlock
    /\ pc = "tare" => time.late <= 2 * MaxBlock

TypeInv == TypeOK /\ LateBound

\* The page has a live reading beside it only while the portal runs.
ReviewInv == ReviewInForce /\ (page.live => pc = "portal")

\* The stored weights are those in cfg, and those of a server that was told.
KegInv ==
    /\ KegInForce
    /\ ~srv.behind /\ srv.keg > 0 =>
          rom # Erased /\ rom.keg = srv.keg /\ srv.keg <= 100
    /\ Working => rom # Erased
    /\ (Working \/ pc = "portal") /\ rom # Erased => cfg.keg = rom.keg

\* A weight from before a tare is weighed anew before the next section sends it.
TareInv ==
    /\ pc = "off" => run.missed
    /\ Working =>
         \/ run.missed
         \/ run.off = hx711.offset
         \/ pc \in {"watch", "weigh"} /\ time.weigh >= WeighInterval

\* What the page showed as saved is stored, as it is or printed, and is what an
\* open form holds and the program works with.
KeptInv ==
    told # 0 =>
        /\ rom # Erased
        /\ rom.factor \in {told, Printed(told)}
        /\ page.step # 0 => page.cal = Printed(told)
        /\ Working \/ pc = "portal" => cfg.factor = rom.factor

\* A factor under review is not zero.
MeasuredInv == page.step = 3 => page.factor # 0

-----------------------------------------------------------------------------
\* The sets of TypeOK have names here, so that a proof opens those it needs.
Configs == [ssid : BOOLEAN, factor : Int, keg : Nat]
Registers == [offset : Int, scale : Int, ready : BOOLEAN]
Wizards == [tared : BOOLEAN, pending : Int]
Runs == [keg : Nat, linked : BOOLEAN, counts : Int, off : Int,
         missed : BOOLEAN, sent : BOOLEAN]
Times == [weigh : Nat, post : Nat, get : Nat, late : Nat,
          press : 0..(Period - 1), low : BOOLEAN]
Pages == [step : 0..3, factor : Int, cal : Int, live : BOOLEAN]
Servers == [keg : Nat, behind : BOOLEAN]
Hands == [down : BOOLEAN, tares : 0..2]

Parts ==
    /\ pc \in {"off", "portal"} \cup Sections \cup {"zeroing", "taring"}
    /\ rom = Erased \/ rom \in Configs
    /\ cfg \in Configs
    /\ hx711 \in Registers
    /\ wiz \in Wizards
    /\ run \in Runs
    /\ time \in Times
    /\ page \in Pages
    /\ told \in Int
    /\ srv \in Servers
    /\ hand \in Hands
    /\ load \in Raw /\ hx \in BOOLEAN /\ wifi \in BOOLEAN /\ user \in Users

LEMMA Typed == TypeOK <=> Parts
  BY DEF TypeOK, Parts, Configs, Registers, Wizards, Runs, Times, Pages, Servers, Hands

LEMMA TypedNext == TypeOK' <=> Parts'
  BY DEF TypeOK, Parts, Configs, Registers, Wizards, Runs, Times, Pages, Servers, Hands

-----------------------------------------------------------------------------
LEMMA Constants ==
    /\ Period \in Nat \ {0} /\ MaxBlock \in Nat \ {0} /\ 2 * MaxBlock < Period
    /\ Block \in 1..Period /\ WeighInterval \in Nat \ {0}
    /\ DefaultFactor \in Int \ {0} /\ DefaultKeg \in Nat /\ Step \in Nat
    /\ Kegs \subseteq Nat /\ Kegs \subseteq 1..100 /\ Raw \subseteq Int
    /\ TypedFactors \subseteq Int /\ Known \subseteq Nat \ {0}
    /\ Debounce \in Nat \ {0} /\ Block <= Period - Debounce
  BY TransferAssumption

\* The button's clock stays in its width.
LEMMA ModRange ==
    ASSUME NEW t \in 0..(2 * Period - 1)
    PROVE  Mod(t) \in 0..(Period - 1)
  BY Constants DEF Mod

LEMMA Delay == \A d \in Delays \cup {0, 1} \cup 1..MaxBlock : d \in 0..MaxBlock
  BY Constants DEF Delays

\* A weight of the server is understood in both units.
LEMMA KgBothUnits ==
    ASSUME NEW v \in 0..100
    PROVE  Kg(v) = v /\ (v > 0 => Kg(1000 * v) = v)
  BY DEF Kg

LEMMA KgNat == ASSUME NEW v \in Nat PROVE Kg(v) \in Nat
  BY DEF Kg

\* A printed factor is within one unit, and printing it again changes nothing.
LEMMA PrintedClose ==
    ASSUME NEW f \in Int
    PROVE  Printed(f) \in Int /\ Printed(f) - f \in {0, 1}
  BY DEF Printed

LEMMA PrintedTwice ==
    ASSUME NEW f \in Int
    PROVE  Printed(Printed(f)) = Printed(f)
  <1> DEFINE k == (f + 1) \div 2
  <1>1. k \in Int
    OBVIOUS
  <1> HIDE DEF k
  <1>2. (2 * k + 1) \div 2 = k
    BY <1>1
  <1> QED
    BY <1>2 DEF Printed, k

LEMMA AfterD ==
    ASSUME NEW d \in 0..MaxBlock, NEW t \in Times
    PROVE  /\ Passed(t, d) \in Times
           /\ Passed(t, d).late = t.late + d
           /\ Passed(t, d).weigh = t.weigh + d
  <1> DEFINE p == IF t.low THEN Mod(t.press + d) ELSE 0
  <1>1. p \in 0..(Period - 1)
    <2>1. t.press + d \in 0..(2 * Period - 1)
      BY Constants DEF Times
    <2> QED
      BY <2>1, ModRange, Constants
  <1>2. Passed(t, d) = [t EXCEPT !.weigh = @ + d, !.post = @ + d, !.get = @ + d,
                                 !.late = @ + d, !.press = p]
    BY Zenon DEF Passed
  <1> HIDE DEF p
  <1>3. /\ t.weigh + d \in Nat /\ t.post + d \in Nat /\ t.get + d \in Nat
        /\ t.late + d \in Nat /\ t.low \in BOOLEAN
    BY Constants DEF Times
  <1>4. Passed(t, d) = [weigh |-> t.weigh + d, post |-> t.post + d, get |-> t.get + d,
                        late |-> t.late + d, press |-> p, low |-> t.low]
    BY <1>2, Zenon DEF Times
  <1> QED
    BY <1>1, <1>3, <1>4 DEF Times

\* What the form sends is a factor and a weight.
LEMMA FormTypes ==
    ASSUME page \in Pages, NEW form \in Form
    PROVE  form.cal \in Int /\ form.keg \in Nat
  <1>1. page.cal \in Int
    BY DEF Pages
  <1>2. form.cal \in {page.cal} \cup TypedFactors /\ form.keg \in Kegs \cup {0}
    BY DEF Form, Blank
  <1>3. TypedFactors \subseteq Int /\ Kegs \subseteq Nat /\ 0 \in Nat
    BY Constants
  <1> QED
    BY <1>1, <1>2, <1>3, Zenon

\* The updates of records that set more than one field.
LEMMA RunUpdates ==
    ASSUME NEW r \in Runs, NEW b \in BOOLEAN, NEW k \in Nat, NEW o \in Int
    PROVE  /\ [r EXCEPT !.linked = b, !.keg = k] \in Runs
           /\ [r EXCEPT !.counts = 0, !.off = o] \in Runs
  <1> DEFINE q == [r EXCEPT !.linked = b]
             z == [r EXCEPT !.counts = 0]
  <1>1. q \in Runs /\ z \in Runs
    BY DEF Runs
  <1> HIDE DEF q, z
  <1>2. [q EXCEPT !.keg = k] \in Runs /\ [z EXCEPT !.off = o] \in Runs
    BY <1>1 DEF Runs
  <1> QED
    BY <1>2, Zenon DEF q, z

LEMMA PageUpdates ==
    ASSUME NEW p \in Pages, NEW f \in Int
    PROVE  [p EXCEPT !.step = 3, !.factor = f, !.live = TRUE] \in Pages
  <1> DEFINE q == [p EXCEPT !.step = 3]
             z == [q EXCEPT !.factor = f]
  <1>1. q \in Pages
    BY DEF Pages
  <1> HIDE DEF q
  <1>2. z \in Pages
    BY <1>1 DEF Pages
  <1> HIDE DEF z
  <1>3. [z EXCEPT !.live = TRUE] \in Pages
    BY <1>2 DEF Pages
  <1> QED
    BY <1>3, Zenon DEF q, z

LEMMA HandToggles ==
    ASSUME NEW h \in Hands
    PROVE  [down |-> ~h.down, tares |-> 0] \in Hands
  <1>1. h.down \in BOOLEAN
    BY DEF Hands
  <1>2. (~h.down) \in BOOLEAN
    BY <1>1
  <1> QED
    BY <1>2 DEF Hands

-----------------------------------------------------------------------------
LEMMA InitType == Init => TypeInv
  <1> SUFFICES ASSUME Init PROVE Parts /\ LateBound
    BY Typed DEF TypeInv
  <1>1. rom = Erased \/ rom \in Configs
    BY Constants DEF Init, Default, Configs
  <1>2. cfg \in Configs /\ hx711 \in Registers /\ wiz \in Wizards
    BY Constants DEF Init, Default, Configs, ColdHx, Registers, ColdWiz, Wizards
  <1>3. run \in Runs
    BY Constants DEF Init, ColdRun, Runs
  <1>4. time \in Times /\ page \in Pages
    BY Constants DEF Init, ColdTime, Times, NoPage, Pages
  <1>5. srv \in Servers /\ hand \in Hands
    BY DEF Init, Servers, Hands
  <1> QED
    BY <1>1, <1>2, <1>3, <1>4, <1>5 DEF Init, Parts, LateBound

LEMMA NextType == TypeInv /\ [Next]_vars => TypeInv'
  <1> SUFFICES ASSUME Parts, LateBound, [Next]_vars PROVE Parts' /\ LateBound'
    BY Typed, TypedNext DEF TypeInv
  <1> USE Constants DEF Parts, LateBound
  <1>0. Default \in Configs /\ ColdHx \in Registers /\ ColdWiz \in Wizards
        /\ ColdRun \in Runs /\ ColdTime \in Times /\ NoPage \in Pages
    BY DEF Default, Configs, ColdHx, Registers, ColdWiz, Wizards, ColdRun, Runs,
       ColdTime, Times, NoPage, Pages
  <1>s. \A f \in Int : Started(f) \in Registers
    BY <1>0 DEF Started, Registers
  <1>r. Reset => cfg' \in Configs /\ hx711' \in Registers /\ wiz' \in Wizards
                 /\ run' \in Runs /\ time' \in Times /\ page' \in Pages /\ pc' = "off"
    <2>1. [page EXCEPT !.live = FALSE] \in Pages
      BY DEF Pages
    <2> QED
      BY <1>0, <2>1, Zenon DEF Reset
  <1>1. CASE UNCHANGED vars
    BY <1>1 DEF vars, web, env
  <1>2. CASE BootPortal
    BY <1>2, <1>0, <1>s DEF BootPortal, Configs, web, env
  <1>3. CASE BootLoop
    <2>1. rom.keg \in Nat /\ rom.factor \in Int /\ cfg' \in Configs
      BY <1>3 DEF BootLoop, Configs
    <2>2. \A k \in {rom.keg} \cup Fetched(rom.keg) : k \in Nat
      BY <2>1, KgNat DEF Fetched, Servers
    <2>4. run' \in Runs
      <3>1. PICK b \in Linked, k \in {rom.keg} \cup Fetched(rom.keg) :
              run' = [run EXCEPT !.linked = b, !.keg = k]
        BY <1>3 DEF BootLoop
      <3>2. b \in BOOLEAN /\ k \in Nat
        BY <2>2 DEF Linked
      <3> QED
        BY <3>1, <3>2, RunUpdates, Zenon
    <2> QED
      BY <1>3, <1>0, <1>s, <2>1, <2>4 DEF BootLoop, Sections, env
  <1>4. CASE PageLoad
    BY <1>4, PrintedClose DEF PageLoad, InPortal, Configs, Pages, env
  <1>5. CASE PageBack
    BY <1>5 DEF PageBack, Pages, env
  <1>6. CASE WizardTare
    <2>1. hx711' \in Registers
      BY <1>6 DEF WizardTare, Registers, Configs
    <2>2. wiz' \in Wizards
      BY <1>6 DEF WizardTare, Wizards
    <2>3. page' \in Pages
      BY <1>6 DEF WizardTare, PageTared, Pages
    <2> QED
      BY <1>6, <2>1, <2>2, <2>3 DEF WizardTare, InPortal, env
  <1>7. CASE WizardMeasure
    <2>1. PICK known \in Known :
            LET factor == (load - hx711.offset) \div known
            IN /\ hx711' = [hx711 EXCEPT !.scale = factor]
               /\ wiz' = [wiz EXCEPT !.pending = factor]
               /\ page' \in PageMeasured(factor)
      BY <1>7 DEF WizardMeasure
    <2> DEFINE factor == (load - hx711.offset) \div known
    <2>2. factor \in Int
      BY DEF Registers
    <2> HIDE DEF factor
    <2>3. hx711' = [hx711 EXCEPT !.scale = factor] /\ wiz' = [wiz EXCEPT !.pending = factor]
          /\ page' \in PageMeasured(factor)
      BY <2>1 DEF factor
    <2>4. hx711' \in Registers
      BY <2>2, <2>3 DEF Registers
    <2>5. wiz' \in Wizards
      BY <2>2, <2>3 DEF Wizards
    <2>6. page' \in Pages
      <3>1. \/ page' = page
            \/ page' = [page EXCEPT !.step = 3, !.factor = factor, !.live = TRUE]
        BY <2>3 DEF PageMeasured
      <3>2. [page EXCEPT !.step = 3, !.factor = factor, !.live = TRUE] \in Pages
        BY <2>2, PageUpdates
      <3> QED
        BY <3>1, <3>2, Zenon
    <2> QED
      BY <1>7, <2>4, <2>5, <2>6 DEF WizardMeasure, InPortal, env
  <1>8. CASE WizardApply
    BY <1>8, <1>0, PrintedClose DEF WizardApply, InPortal, PageApplied, Configs, Registers, Pages, env
  <1>9. CASE Save
    <2>1. PICK form \in Form :
            /\ rom' = [ssid |-> TRUE, factor |-> form.cal, keg |-> form.keg]
            /\ told' = IF form.cal = page.cal THEN told ELSE 0
            /\ \/ srv' = [keg |-> form.keg, behind |-> FALSE]
               \/ srv' = [srv EXCEPT !.behind = TRUE]
      BY <1>9 DEF Save
    <2>2. form.cal \in Int /\ form.keg \in Nat
      BY FormTypes
    <2>3. rom' \in Configs
      BY <2>1, <2>2 DEF Configs
    <2>4. srv' \in Servers
      <3>1. [keg |-> form.keg, behind |-> FALSE] \in Servers
        BY <2>2 DEF Servers
      <3>2. [srv EXCEPT !.behind = TRUE] \in Servers
        BY DEF Servers
      <3> QED
        BY <2>1, <3>1, <3>2
    <2>5. told' \in Int
      BY <2>1
    <2> QED
      BY <1>9, <1>r, <2>3, <2>4, <2>5 DEF Save, env
  <1>10. CASE TornSave
    <2>1. srv' \in Servers
      BY <1>10 DEF TornSave, Servers
    <2> QED
      BY <1>10, <1>r, <2>1 DEF TornSave, env
  <1>11. CASE PowerFail
    BY <1>11, <1>r DEF PowerFail, env
  <1>12. CASE Watch
    <2>1. (wifi /\ cfg.ssid) \in BOOLEAN
      BY DEF Configs, env
    <2>2. run' \in Runs
      BY <1>12, <2>1 DEF Watch, Runs
    <2>3. time' \in Times /\ time'.late = 0
      BY <1>12 DEF Watch, Times
    <2> QED
      BY <1>12, <2>2, <2>3 DEF Watch, Sections, web, env
  <1>13. CASE Weigh
    <2>1. Counts \in Int /\ hx711.offset \in Int
      BY DEF Counts, Registers
    <2>2. run' \in Runs
      <3>1. [run EXCEPT !.counts = Counts, !.off = hx711.offset,
                        !.missed = FALSE] \in Runs
        BY <2>1 DEF Runs
      <3>2. [run EXCEPT !.missed = TRUE] \in Runs
        BY DEF Runs
      <3> QED
        BY <1>13, <3>1, <3>2 DEF Weigh
    <2>3. time' \in Times /\ time'.late = time.late
      BY <1>13 DEF Weigh, Times
    <2> QED
      BY <1>13, <2>2, <2>3 DEF Weigh, Sections, web, env
  <1>14. CASE Post
    <2>1. run' \in Runs
      BY <1>14 DEF Post, Runs
    <2> DEFINE t == [time EXCEPT !.post = time.late]
    <2>2. t \in Times /\ t.late = 0
      BY <1>14 DEF Post, Times
    <2> HIDE DEF t
    <2>3. time' = time \/ \E d \in 0..MaxBlock : time' = Passed(t, d)
      BY <1>14, Delay DEF Post, t
    <2>4. time' \in Times /\ time'.late <= MaxBlock
      BY <1>14, <2>2, <2>3, AfterD DEF Post
    <2> QED
      BY <1>14, <2>1, <2>4 DEF Post, Sections, web, env
  <1>15. CASE Get
    <2>1. \A k \in {run.keg} \cup Fetched(run.keg) : k \in Nat
      BY KgNat DEF Fetched, Servers, Runs
    <2>2. run' \in Runs
      BY <1>15, <2>1 DEF Get, Runs
    <2> DEFINE t == [time EXCEPT !.get = time.late]
    <2>3. t \in Times /\ t.late = time.late /\ time.late \in 0..MaxBlock
      BY <1>15 DEF Get, Times
    <2> HIDE DEF t
    <2>4. time' = time \/ \E d \in 0..MaxBlock : time' = Passed(t, d)
      BY <1>15, Delay DEF Get, t
    <2>5. time' \in Times /\ time'.late <= 2 * MaxBlock
      BY <2>3, <2>4, AfterD
    <2> QED
      BY <1>15, <2>2, <2>5 DEF Get, Sections, web, env
  <1>16. CASE TareButton
    <2>1. time.late \in 0..(Period - 1) /\ time.press \in 0..(Period - 1)
      BY <1>16 DEF TareButton, Times
    <2>2. Mod(time.late + Period - Block) \in 0..(Period - 1)
      BY <2>1, ModRange
    <2> DEFINE low == hand.down
               first == IF low /\ ~time.low THEN time.late ELSE time.press
               pushed == low /\ time.low /\ Mod(first + Period - time.late) >= Debounce
               press == CASE ~low -> 0
                          [] pushed -> Mod(time.late + Period - Block)
                          [] OTHER -> first
    <2>3. press \in 0..(Period - 1)
      <3>1. first \in 0..(Period - 1)
        BY <2>1
      <3> HIDE DEF first
      <3>2. pushed => low
        OBVIOUS
      <3> HIDE DEF pushed, low
      <3> QED
        BY <2>2, <3>1, <3>2
    <2>t. time' = [time EXCEPT !.low = low, !.press = press]
      BY <1>16 DEF TareButton
    <2>l. low \in BOOLEAN
      BY DEF Hands
    <2> HIDE DEF press, low
    <2>4. time' \in Times
      BY <2>3, <2>t, <2>l DEF Times
    <2>5. hand' \in Hands
      BY <1>16 DEF TareButton, Hands
    <2> QED
      BY <1>16, <2>4, <2>5 DEF TareButton, Sections, web
  <1>17. CASE Zeroed
    <2>1. hx711' \in Registers
      BY <1>17 DEF Zeroed, Registers
    <2>2. run' \in Runs
      <3>1. run' = run \/ run' = [run EXCEPT !.counts = 0, !.off = load]
        BY <1>17 DEF Zeroed
      <3>2. [run EXCEPT !.counts = 0, !.off = load] \in Runs
        BY RunUpdates
      <3> QED
        BY <3>1, <3>2, Zenon
    <2>3. time' \in Times
      BY <1>17, AfterD, Delay DEF Zeroed
    <2> QED
      BY <1>17, <2>1, <2>2, <2>3 DEF Zeroed, Sections, web, env
  <1>18. CASE Tune
    BY <1>18, AfterD, Delay DEF Tune, Sections, Configs, Registers, web, env
  <1>19. CASE Command
    BY <1>19, <1>0, <1>s, AfterD, Delay DEF Command, Configs, Sections, web, env
  <1>20. CASE EndPass
    BY <1>20, AfterD, Delay DEF EndPass, Sections, web, env
  <1>21. CASE World
    <2>1. hand' \in Hands
      <3>1. hand' = hand \/ hand' = [down |-> ~hand.down, tares |-> 0]
        BY <1>21 DEF World
      <3> QED
        BY <3>1, HandToggles, Zenon
    <2> QED
      BY <1>21, <2>1 DEF World, web
  <1>22. CASE AppEdit
    BY <1>22 DEF AppEdit, Servers, web, env
  <1> QED
    BY <1>1, <1>2, <1>3, <1>4, <1>5, <1>6, <1>7, <1>8, <1>9, <1>10, <1>11, <1>12,
       <1>13, <1>14, <1>15, <1>16, <1>17, <1>18, <1>19, <1>20, <1>21, <1>22
    DEF Next, Loop

\* The types hold, and a pass that reaches the button is a short one so far.
THEOREM TypeCorrect == Spec => []TypeOK
  <1>1. Spec => []TypeInv
    BY InitType, NextType, PTL DEF Spec
  <1>2. TypeInv => TypeOK
    BY DEF TypeInv
  <1> QED
    BY <1>1, <1>2, PTL

-----------------------------------------------------------------------------
(***************************************************************************)
(* Steps that are alike                                                    *)
(***************************************************************************)
PortalStep == PageLoad \/ WizardTare \/ WizardMeasure \/ WizardApply
Restart == Save \/ TornSave \/ PowerFail
PassStep == Watch \/ Weigh \/ Post \/ Get \/ TareButton \/ EndPass
Aside == World \/ AppEdit \/ PageBack \/ UNCHANGED vars

LEMMA Steps ==
    [Next]_vars =>
        \/ BootPortal \/ BootLoop \/ PortalStep \/ Restart
        \/ PassStep \/ Zeroed \/ Tune \/ Command \/ Aside
  BY DEF Next, Loop, PortalStep, Restart, PassStep, Aside

LEMMA PortalStays ==
    PortalStep => /\ pc = "portal" /\ pc' = "portal"
                  /\ UNCHANGED <<run, time, srv>>
  BY DEF PortalStep, PageLoad, WizardTare, WizardMeasure, WizardApply, InPortal

LEMMA RestartsReset == Restart => Reset
  BY DEF Restart, Save, TornSave, PowerFail

LEMMA PassKeeps ==
    PassStep => /\ Working /\ Working'
                /\ UNCHANGED <<rom, cfg, hx711, wiz, page, told, srv>>
  BY DEF PassStep, Watch, Weigh, Post, Get, TareButton, EndPass, Working, Sections, web

LEMMA AsideKeeps == Aside => UNCHANGED <<pc, rom, cfg, hx711, wiz, run, time, told>>
  BY DEF Aside, World, AppEdit, PageBack, web, env, vars

-----------------------------------------------------------------------------
LEMMA FactorNext == TypeInv /\ FactorInEffect /\ [Next]_vars => FactorInEffect'
  <1> SUFFICES ASSUME Parts, FactorInEffect, [Next]_vars PROVE FactorInEffect'
    BY Typed DEF TypeInv
  <1> USE DEF FactorInEffect
  <1>1. CASE BootPortal
    BY <1>1 DEF BootPortal, Working, Sections
  <1>2. CASE BootLoop
    BY <1>2 DEF BootLoop, Started, ColdHx
  <1>3. CASE PortalStep
    BY <1>3, PortalStays DEF Working, Sections
  <1>4. CASE Restart
    BY <1>4, RestartsReset DEF Reset, Working, Sections
  <1>5. CASE PassStep
    BY <1>5, PassKeeps
  <1>6. CASE Zeroed
    BY <1>6 DEF Zeroed, Working, Parts, Registers
  <1>7. CASE Tune
    BY <1>7 DEF Tune, Parts, Registers, Configs
  <1>8. CASE Command
    BY <1>8 DEF Command, Working, Sections
  <1>9. CASE Aside
    BY <1>9, AsideKeeps DEF Working
  <1> QED
    BY <1>1, <1>2, <1>3, <1>4, <1>5, <1>6, <1>7, <1>8, <1>9, Steps

\* Whatever happens, the scale divides by the factor of its configuration.
THEOREM FactorsAgree == Spec => []FactorInEffect
  <1>1. Init => FactorInEffect
    BY DEF Init, FactorInEffect, Working, Sections
  <1> QED
    BY <1>1, FactorNext, InitType, NextType, PTL DEF Spec

-----------------------------------------------------------------------------
LEMMA ReviewNext == TypeInv /\ ReviewInv /\ [Next]_vars => ReviewInv'
  <1> SUFFICES ASSUME Parts, ReviewInv, [Next]_vars PROVE ReviewInv'
    BY Typed DEF TypeInv
  <1> USE DEF ReviewInv, ReviewInForce, ActiveFactor
  <1>1. CASE BootPortal
    BY <1>1 DEF BootPortal, web
  <1>2. CASE BootLoop
    BY <1>2 DEF BootLoop, NoPage
  <1>3. CASE PageLoad
    BY <1>3 DEF PageLoad, InPortal
  <1>4. CASE WizardTare
    <2>1. page' = page \/ page' = [page EXCEPT !.step = 2]
      BY <1>4 DEF WizardTare, PageTared
    <2> QED
      BY <1>4, <2>1 DEF WizardTare, InPortal, Parts, Pages
  <1>5. CASE WizardMeasure
    <2>1. PICK factor : wiz' = [wiz EXCEPT !.pending = factor]
                        /\ page' \in PageMeasured(factor)
      BY <1>5 DEF WizardMeasure
    <2>2. \/ page' = page
          \/ /\ factor # 0
             /\ page' = [page EXCEPT !.step = 3, !.factor = factor, !.live = TRUE]
      BY <2>1 DEF PageMeasured
    <2>3. wiz'.pending = factor
      BY <2>1 DEF Parts, Wizards
    <2>4. CASE page' = page
      BY <1>5, <2>4 DEF WizardMeasure, InPortal
    <2>5. CASE factor # 0 /\ page' = [page EXCEPT !.step = 3, !.factor = factor, !.live = TRUE]
      <3>1. page'.factor = factor
        BY <2>5 DEF Parts, Pages
      <3> QED
        BY <1>5, <2>3, <2>5, <3>1 DEF WizardMeasure, InPortal
    <2> QED
      BY <2>2, <2>4, <2>5
  <1>6. CASE WizardApply
    <2>1. cfg'.factor = page.factor /\ wiz'.pending = 0 /\ pc' = "portal"
      BY <1>6 DEF WizardApply, InPortal, ColdWiz, Parts, Configs
    <2>2. page'.factor = page.factor
      BY <1>6 DEF WizardApply, PageApplied, Parts, Pages
    <2> QED
      BY <2>1, <2>2
  <1>7. CASE Restart
    BY <1>7, RestartsReset DEF Reset, Parts, Pages
  <1>8. CASE PassStep
    BY <1>8, PassKeeps DEF Working, Sections
  <1>9. CASE Zeroed \/ Tune \/ Command
    BY <1>9 DEF Zeroed, Tune, Command, web
  <1>10. CASE PageBack
    BY <1>10 DEF PageBack, Parts, Pages
  <1>11. CASE World \/ AppEdit \/ UNCHANGED vars
    BY <1>11 DEF World, AppEdit, web, vars
  <1> QED
    BY <1>1, <1>2, <1>3, <1>4, <1>5, <1>6, <1>7, <1>8, <1>9, <1>10, <1>11, Steps
    DEF PortalStep, Aside

\* The page's live reading uses the factor the page shows for review.
THEOREM ReviewHonest == Spec => []ReviewInForce
  <1>1. Init => ReviewInv
    BY DEF Init, ReviewInv, ReviewInForce, NoPage
  <1>2. ReviewInv => ReviewInForce
    BY DEF ReviewInv
  <1> QED
    BY <1>1, <1>2, ReviewNext, InitType, NextType, PTL DEF Spec

-----------------------------------------------------------------------------
LEMMA KegNext == TypeInv /\ KegInv /\ [Next]_vars => KegInv'
  <1> SUFFICES ASSUME Parts, KegInv, [Next]_vars PROVE KegInv'
    BY Typed DEF TypeInv
  <1> USE DEF KegInv, KegInForce
  <1>1. CASE BootPortal
    BY <1>1 DEF BootPortal, Working, Sections, web
  <1>2. CASE BootLoop
    <2>1. run'.keg \in {rom.keg} \cup Fetched(rom.keg)
      BY <1>2 DEF BootLoop, Parts, Runs
    <2>2. ~srv.behind => Fetched(rom.keg) = {rom.keg}
      BY <1>2, KgBothUnits DEF BootLoop, Fetched, Parts, Servers
    <2> QED
      BY <1>2, <2>1, <2>2 DEF BootLoop
  <1>3. CASE PortalStep
    <2>1. \/ rom' = rom /\ cfg' = cfg
          \/ rom' = cfg' /\ cfg'.keg = cfg.keg /\ cfg' \in Configs
      BY <1>3, PrintedClose DEF PortalStep, PageLoad, WizardTare, WizardMeasure, WizardApply,
         Parts, Configs, Pages
    <2> QED
      BY <1>3, <2>1, PortalStays DEF Working, Sections, Configs, Erased
  <1>4. CASE Save
    <2>1. rom'.keg \in 0..100 /\ rom' # Erased
          /\ (srv'.behind \/ srv'.keg = rom'.keg)
      BY <1>4, Constants DEF Save, Form, Blank, Erased, Parts, Servers
    <2> QED
      BY <1>4, <2>1 DEF Save, Reset, Working, Sections
  <1>5. CASE TornSave \/ PowerFail
    BY <1>5 DEF TornSave, PowerFail, Reset, Working, Sections, Parts, Servers
  <1>6. CASE PassStep
    <2>1. ~srv.behind => Fetched(run.keg) = {run.keg}
      BY <1>6, PassKeeps, KgBothUnits DEF Fetched, Parts, Servers
    <2>2. ~srv.behind => run'.keg = run.keg
      <3>1. CASE Watch
        BY <3>1 DEF Watch, Parts, Runs
      <3>2. CASE Weigh
        BY <3>2 DEF Weigh, Parts, Runs
      <3>3. CASE Post
        BY <3>3 DEF Post, Parts, Runs
      <3>4. CASE Get
        BY <3>4, <2>1 DEF Get, Parts, Runs
      <3>5. CASE TareButton \/ EndPass
        BY <3>5 DEF TareButton, EndPass
      <3> QED
        BY <1>6, <3>1, <3>2, <3>3, <3>4, <3>5 DEF PassStep
    <2> QED
      BY <1>6, <2>2, PassKeeps
  <1>7. CASE Zeroed \/ Tune
    BY <1>7 DEF Zeroed, Tune, Parts, Runs, Configs, Working, Sections
  <1>8. CASE Command
    BY <1>8 DEF Command, Working, Sections, Parts, Configs, Erased
  <1>9. CASE AppEdit
    BY <1>9, AsideKeeps DEF Aside, AppEdit, Working
  <1>10. CASE World \/ PageBack \/ UNCHANGED vars
    BY <1>10 DEF World, PageBack, vars, Working
  <1> QED
    BY <1>1, <1>2, <1>3, <1>4, <1>5, <1>6, <1>7, <1>8, <1>9, <1>10, Steps
    DEF Restart, Aside

\* A server that was told of the weights gives the scale no others.
THEOREM KegsAgree == Spec => []KegInForce
  <1>1. Init => KegInv
    BY DEF Init, KegInv, KegInForce, Working, Sections
  <1>2. KegInv => KegInForce
    BY DEF KegInv
  <1> QED
    BY <1>1, <1>2, KegNext, InitType, NextType, PTL DEF Spec

-----------------------------------------------------------------------------
LEMMA TareNext == TypeInv /\ TareInv /\ [Next]_vars => TareInv'
  <1> SUFFICES ASSUME Parts, LateBound, TareInv, [Next]_vars PROVE TareInv'
    BY Typed DEF TypeInv
  <1> USE DEF TareInv
  <1>1. CASE BootPortal
    BY <1>1 DEF BootPortal, Working, Sections
  <1>2. CASE BootLoop
    BY <1>2 DEF BootLoop, Parts, Runs
  <1>3. CASE PortalStep
    BY <1>3, PortalStays DEF Working, Sections
  <1>4. CASE Restart
    BY <1>4, RestartsReset DEF Reset, ColdRun, Working, Sections
  <1>5. CASE Watch
    BY <1>5 DEF Watch, Working, Sections, Parts, Runs, Times
  <1>6. CASE Weigh
    <2>1. CASE time.weigh < WeighInterval
      BY <1>6, <2>1, Constants DEF Weigh, Working, Sections, Parts, Times
    <2>2. CASE ~(time.weigh < WeighInterval)
      BY <1>6, <2>2 DEF Weigh, Working, Sections, Parts, Runs
    <2> QED
      BY <2>1, <2>2
  <1>7. CASE Post
    BY <1>7 DEF Post, Working, Sections, Parts, Runs
  <1>8. CASE Get
    BY <1>8 DEF Get, Working, Sections, Parts, Runs
  <1>9. CASE TareButton \/ EndPass \/ Tune
    BY <1>9 DEF TareButton, EndPass, Tune, Working, Sections, Parts, Registers
  <1>10. CASE Zeroed
    <2>1. hx711'.offset = load
      BY <1>10 DEF Zeroed, Parts, Registers
    <2>2. CASE pc = "zeroing"
      <3>1. run'.off = load /\ pc' = "serial"
        BY <1>10, <2>2 DEF Zeroed, Parts, Runs
      <3> QED
        BY <2>1, <3>1
    <2>3. CASE pc = "taring"
      <3>1. time'.weigh >= WeighInterval
        BY <1>10, <2>3, AfterD, Delay, Constants DEF Zeroed, Parts, Times
      <3> QED
        BY <1>10, <2>3, <3>1 DEF Zeroed
    <2> QED
      BY <1>10, <2>2, <2>3 DEF Zeroed
  <1>11. CASE Command
    BY <1>11 DEF Command, Working, Sections
  <1>12. CASE Aside
    BY <1>12, AsideKeeps DEF Working
  <1> QED
    BY <1>1, <1>2, <1>3, <1>4, <1>5, <1>6, <1>7, <1>8, <1>9, <1>10, <1>11, <1>12, Steps
    DEF PassStep

\* Only postWeight() sends, and then the weight belongs to the present offset.
LEMMA SendsFresh ==
    TypeInv /\ TareInv /\ [Next]_vars =>
        (run'.sent /\ ~run.sent => run.missed \/ run.off = hx711.offset)
  <1> SUFFICES ASSUME Parts, TareInv, [Next]_vars, run'.sent, ~run.sent
               PROVE  run.missed \/ run.off = hx711.offset
    BY Typed DEF TypeInv
  <1>1. CASE Post
    BY <1>1 DEF Post, TareInv, Working, Sections
  <1>2. CASE BootPortal \/ TareButton \/ EndPass \/ Tune \/ Command
    BY <1>2 DEF BootPortal, TareButton, EndPass, Tune, Command, ColdRun
  <1>3. CASE BootLoop
    BY <1>3 DEF BootLoop, Parts, Runs
  <1>4. CASE PortalStep
    BY <1>4, PortalStays
  <1>5. CASE Restart
    BY <1>5, RestartsReset DEF Reset, ColdRun
  <1>6. CASE Watch
    BY <1>6 DEF Watch, Parts, Runs
  <1>7. CASE Weigh
    BY <1>7 DEF Weigh, Parts, Runs
  <1>8. CASE Get
    BY <1>8 DEF Get, Parts, Runs
  <1>9. CASE Zeroed
    BY <1>9 DEF Zeroed, Parts, Runs
  <1>10. CASE Aside
    BY <1>10, AsideKeeps
  <1> QED
    BY <1>1, <1>2, <1>3, <1>4, <1>5, <1>6, <1>7, <1>8, <1>9, <1>10, Steps DEF PassStep

\* No weight measured before a tare is sent after it, for all intervals and delays.
THEOREM TaresTakeEffect == Spec => PostedSinceTare
  <1>1. Init => TareInv
    BY DEF Init, TareInv, ColdRun, Working, Sections
  <1>2. Spec => []TypeInv /\ []TareInv
    BY <1>1, TareNext, InitType, NextType, PTL DEF Spec
  <1>3. TypeInv /\ TareInv /\ [Next]_vars =>
          [run'.sent /\ ~run.sent => run.missed \/ run.off = hx711.offset]_vars
    BY SendsFresh
  <1> QED
    BY <1>2, <1>3, PTL DEF Spec, PostedSinceTare

-----------------------------------------------------------------------------
LEMMA MeasuredNext == TypeInv /\ MeasuredInv /\ [Next]_vars => MeasuredInv'
  <1> SUFFICES ASSUME Parts, MeasuredInv, [Next]_vars PROVE MeasuredInv'
    BY Typed DEF TypeInv
  <1> USE DEF MeasuredInv
  <1>1. CASE BootPortal \/ Zeroed \/ Tune \/ Command \/ PassStep
    BY <1>1, PassKeeps DEF BootPortal, Zeroed, Tune, Command, web
  <1>2. CASE BootLoop
    BY <1>2 DEF BootLoop, NoPage
  <1>3. CASE PageLoad
    BY <1>3 DEF PageLoad
  <1>4. CASE WizardTare
    <2>1. page' = page \/ page' = [page EXCEPT !.step = 2]
      BY <1>4 DEF WizardTare, PageTared
    <2> QED
      BY <2>1 DEF Parts, Pages
  <1>5. CASE WizardMeasure
    <2>1. PICK factor : page' \in PageMeasured(factor)
      BY <1>5 DEF WizardMeasure
    <2>2. \/ page' = page
          \/ /\ factor # 0
             /\ page' = [page EXCEPT !.step = 3, !.factor = factor, !.live = TRUE]
      BY <2>1 DEF PageMeasured
    <2> QED
      BY <2>2 DEF Parts, Pages
  <1>6. CASE WizardApply
    BY <1>6 DEF WizardApply, PageApplied, Parts, Pages
  <1>7. CASE Restart
    BY <1>7, RestartsReset DEF Reset, Parts, Pages
  <1>8. CASE PageBack
    BY <1>8 DEF PageBack, Parts, Pages
  <1>9. CASE World \/ AppEdit \/ UNCHANGED vars
    BY <1>9 DEF World, AppEdit, web, vars
  <1> QED
    BY <1>1, <1>2, <1>3, <1>4, <1>5, <1>6, <1>7, <1>8, <1>9, Steps
    DEF PortalStep, Aside

LEMMA ZeroTyped ==
    TypeInv /\ MeasuredInv /\ [Next]_vars =>
        (cfg'.factor = 0 /\ cfg.factor # 0 =>
            pc = "serial" \/ (rom # Erased /\ rom.factor = 0))
  <1> SUFFICES ASSUME Parts, MeasuredInv, [Next]_vars, cfg'.factor = 0, cfg.factor # 0
               PROVE  pc = "serial" \/ (rom # Erased /\ rom.factor = 0)
    BY Typed DEF TypeInv
  <1>1. CASE BootPortal
    BY <1>1, Constants DEF BootPortal, Default
  <1>2. CASE BootLoop
    BY <1>2 DEF BootLoop
  <1>3. CASE PageLoad \/ WizardTare \/ WizardMeasure \/ Zeroed \/ Command
    BY <1>3 DEF PageLoad, WizardTare, WizardMeasure, Zeroed, Command
  <1>4. CASE WizardApply
    BY <1>4 DEF WizardApply, MeasuredInv, Parts, Configs
  <1>5. CASE Restart
    BY <1>5, RestartsReset, Constants DEF Reset, Default
  <1>6. CASE Tune
    BY <1>6 DEF Tune
  <1>7. CASE PassStep \/ Aside
    BY <1>7, PassKeeps, AsideKeeps
  <1> QED
    BY <1>1, <1>2, <1>3, <1>4, <1>5, <1>6, <1>7, Steps DEF PortalStep

\* No measurement and no form makes the factor zero.
THEOREM ZeroFactorTyped == Spec => ZeroOnlyByHand
  <1>1. Init => MeasuredInv
    BY DEF Init, MeasuredInv, NoPage
  <1>2. Spec => []TypeInv /\ []MeasuredInv
    BY <1>1, MeasuredNext, InitType, NextType, PTL DEF Spec
  <1>3. TypeInv /\ MeasuredInv /\ [Next]_vars =>
          [cfg'.factor = 0 /\ cfg.factor # 0 =>
             pc = "serial" \/ (rom # Erased /\ rom.factor = 0)]_vars
    BY ZeroTyped
  <1> QED
    BY <1>2, <1>3, PTL DEF Spec, ZeroOnlyByHand

-----------------------------------------------------------------------------
LEMMA KeptNext == TypeInv /\ KeptInv /\ [Next]_vars => KeptInv'
  <1> SUFFICES ASSUME Parts, KeptInv, [Next]_vars, told' # 0
               PROVE  /\ rom' # Erased
                      /\ rom'.factor \in {told', Printed(told')}
                      /\ page'.step # 0 => page'.cal = Printed(told')
                      /\ Working' \/ pc' = "portal" => cfg'.factor = rom'.factor
    BY Typed DEF TypeInv, KeptInv
  <1> USE DEF KeptInv
  <1>1. CASE BootPortal
    BY <1>1 DEF BootPortal, web
  <1>2. CASE BootLoop
    BY <1>2 DEF BootLoop, NoPage
  <1>3. CASE PageLoad
    <2>1. told' = told /\ rom' = rom /\ cfg' = cfg /\ pc' = pc /\ pc = "portal"
      BY <1>3 DEF PageLoad, InPortal
    <2>2. Printed(cfg.factor) = Printed(told)
      BY <2>1, PrintedTwice DEF Parts
    <2>3. page'.cal = Printed(told)
      BY <1>3, <2>2 DEF PageLoad
    <2> QED
      BY <2>1, <2>3
  <1>4. CASE WizardTare \/ WizardMeasure
    <2>1. /\ told' = told /\ rom' = rom /\ cfg' = cfg /\ pc' = "portal" /\ pc = "portal"
          /\ page.step # 0
      BY <1>4 DEF WizardTare, WizardMeasure, InPortal
    <2>2. page'.cal = page.cal
      <3>1. CASE WizardTare
        <4>1. page' = page \/ page' = [page EXCEPT !.step = 2]
          BY <3>1 DEF WizardTare, PageTared
        <4> QED
          BY <4>1 DEF Parts, Pages
      <3>2. CASE WizardMeasure
        <4>1. PICK factor : page' \in PageMeasured(factor)
          BY <3>2 DEF WizardMeasure
        <4>2. \/ page' = page
              \/ page' = [page EXCEPT !.step = 3, !.factor = factor, !.live = TRUE]
          BY <4>1 DEF PageMeasured
        <4> QED
          BY <4>2 DEF Parts, Pages
      <3> QED
        BY <1>4, <3>1, <3>2
    <2> QED
      BY <2>1, <2>2
  <1>5. CASE WizardApply
    <2>1. told' = page.factor /\ page' = PageApplied
      BY <1>5 DEF WizardApply
    <2>2. rom' = cfg' /\ rom' = [cfg EXCEPT !.factor = page.factor]
      BY <1>5 DEF WizardApply
    <2>3. rom'.factor = page.factor /\ rom' \in Configs
      BY <2>2 DEF Parts, Configs, Pages
    <2>4. rom' # Erased
      BY <2>3 DEF Configs, Erased
    <2>5. page'.cal = Printed(page.factor)
      BY <2>1 DEF PageApplied, Parts, Pages
    <2> QED
      BY <2>1, <2>2, <2>3, <2>4, <2>5
  <1>6. CASE Save
    <2>1. PICK form \in Form :
            /\ rom' = [ssid |-> TRUE, factor |-> form.cal, keg |-> form.keg]
            /\ told' = IF form.cal = page.cal THEN told ELSE 0
      BY <1>6 DEF Save
    <2>2. told' = told /\ rom'.factor = page.cal /\ page.step # 0
      BY <1>6, <2>1 DEF Save
    <2>3. rom' # Erased
      BY <2>1 DEF Erased
    <2>4. pc' = "off" /\ page'.cal = page.cal
      BY <1>6 DEF Save, Reset, Parts, Pages
    <2> QED
      BY <2>2, <2>3, <2>4 DEF Working, Sections
  <1>7. CASE TornSave
    BY <1>7 DEF TornSave
  <1>8. CASE PowerFail
    <2>1. page'.cal = page.cal /\ page'.step = page.step /\ pc' = "off"
      BY <1>8 DEF PowerFail, Reset, Parts, Pages
    <2> QED
      BY <1>8, <2>1 DEF PowerFail, Working, Sections
  <1>9. CASE PassStep
    BY <1>9, PassKeeps
  <1>10. CASE Zeroed
    BY <1>10 DEF Zeroed, Working, web
  <1>11. CASE Tune
    BY <1>11 DEF Tune
  <1>12. CASE Command
    BY <1>12 DEF Command, Working, Sections, web, Parts, Configs, Erased
  <1>13. CASE PageBack
    <2>1. page'.cal = page.cal /\ page.step # 0
      BY <1>13 DEF PageBack, Parts, Pages
    <2> QED
      BY <1>13, <2>1 DEF PageBack, Working
  <1>14. CASE World \/ AppEdit \/ UNCHANGED vars
    BY <1>14 DEF World, AppEdit, web, vars, Working
  <1> QED
    BY <1>1, <1>2, <1>3, <1>4, <1>5, <1>6, <1>7, <1>8, <1>9, <1>10, <1>11, <1>12, <1>13,
       <1>14, Steps DEF PortalStep, Restart, Aside

\* A calibration shown as saved survives every restart and every Save of its page.
THEOREM CalibrationSurvives == Spec => []CalibrationKept
  <1>1. Init => KeptInv
    BY DEF Init, KeptInv
  <1>2. TypeInv /\ KeptInv => CalibrationKept
    BY Typed, PrintedClose DEF TypeInv, Parts, KeptInv, CalibrationKept
  <1> QED
    BY <1>1, <1>2, KeptNext, InitType, NextType, PTL DEF Spec
=============================================================================
