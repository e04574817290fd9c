------------------------- MODULE ScaleControlProofs -------------------------
(***************************************************************************)
(* What holds of the scale's settings for every set of raw values, weights *)
(* and other settings.                                                     *)
(***************************************************************************)
EXTENDS ScaleControl, FiniteSetTheorems, TLAPS

\* The defaults are a configuration, and an erased sector is none.
LEMMA DefaultsConfig == Defaults \in Configs /\ Blank \notin Configs
  <1>1. Defaults \in Configs
    BY ScaleAssumption DEF Defaults, Configs, Factors
  <1>2. ASSUME Blank \in Configs PROVE FALSE
    <2>1. DOMAIN Blank = {"offset"} /\ "empty" \in DOMAIN Blank
      BY <1>2 DEF Configs, Blank
    <2> QED
      BY <2>1
  <1> QED
    BY <1>1, <1>2

\* get_units() with a factor that is not zero is a number.
LEMMA GramsInt ==
    ASSUME NEW raw \in Int, OFFSET \in Int, SCALE \in Factors
    PROVE  Grams(raw) \in Int
  <1> DEFINE counts == (raw - OFFSET) * SCALE.den
  <1>1. SCALE.num \in Int \ {0} /\ SCALE.den \in Nat
    BY DEF Factors
  <1>2. counts \in Int
    BY <1>1
  <1> HIDE DEF counts
  <1>3. SCALE.num > 0 => counts \div SCALE.num \in Int
    BY <1>1, <1>2
  <1>4. ~(SCALE.num > 0) => (-counts) \div (-SCALE.num) \in Int
    BY <1>1, <1>2
  <1>5. Grams(raw) = IF SCALE.num > 0 THEN counts \div SCALE.num
                                      ELSE (-counts) \div (-SCALE.num)
    BY DEF Grams, counts
  <1> QED
    BY <1>3, <1>4, <1>5

\* What a reading may return is a number.
LEMMA ReadingsInt ==
    ASSUME TypeOK
    PROVE  Readings \subseteq Int /\ AverageRaw \in Int
  <1>1. load \in Int /\ last_weight_g \in Int /\ Grams(load) \in Int
    BY GramsInt, ScaleAssumption DEF TypeOK
  <1> QED
    BY <1>1 DEF Readings, AverageRaw

\* The operations on the scale and on the configuration keep the types.
LEMMA TareTypes ==
    ASSUME TypeOK, DoTare
    PROVE  /\ cfg' \in Configs /\ saving' \in BOOLEAN
           /\ OFFSET' \in Int /\ last_weight_g' \in Int
  <1>1. CASE AverageRaw = 0
    BY <1>1 DEF DoTare, NoSave, TypeOK
  <1>2. CASE AverageRaw # 0
    <2>1. [cfg EXCEPT !.offset = AverageRaw] \in Configs
      BY ReadingsInt DEF TypeOK, Configs
    <2> QED
      BY <1>2, <2>1, ReadingsInt DEF DoTare, Save
  <1> QED
    BY <1>1, <1>2

\* A calibration that is not rejected divides two numbers that are not zero.
LEMMA CalibrateTypes ==
    ASSUME TypeOK, NEW known_g \in Nat, DoCalibrate(known_g)
    PROVE  cfg' \in Configs /\ saving' \in BOOLEAN /\ SCALE' \in Factors
  <1> DEFINE raw == AverageRaw - OFFSET
             factor == [num |-> raw, den |-> known_g]
  <1>1. raw \in Int
    BY ReadingsInt DEF TypeOK
  <1>2. CASE known_g <= 0 \/ raw = 0
    BY <1>2 DEF DoCalibrate, NoSave, TypeOK
  <1>3. CASE ~(known_g <= 0 \/ raw = 0)
    <2>1. factor \in Factors
      BY <1>1, <1>3 DEF Factors
    <2> QED
      BY <1>3, <2>1 DEF DoCalibrate, Save, TypeOK, Configs
  <1> QED
    BY <1>2, <1>3

\* A captured weight is clamped to an unsigned one.
LEMMA EmptyTypes ==
    ASSUME TypeOK, DoSetEmptyKeg
    PROVE  cfg' \in Configs /\ saving' \in BOOLEAN
  <1>1. PICK g \in Int : Save([cfg EXCEPT !.empty = IF g > 0 THEN g ELSE 0])
    BY ReadingsInt DEF DoSetEmptyKeg
  <1>2. (IF g > 0 THEN g ELSE 0) \in Nat
    OBVIOUS
  <1> QED
    BY <1>1, <1>2 DEF Save, TypeOK, Configs

\* So are the weights and settings that are sent.
LEMMA SetEmptyTypes ==
    ASSUME TypeOK, NEW g \in Known \cup {0}, Save([cfg EXCEPT !.empty = g])
    PROVE  cfg' \in Configs /\ saving' \in BOOLEAN
  BY ScaleAssumption DEF Save, TypeOK, Configs

\* Every other setting is one of its values.
LEMMA SetOtherTypes ==
    ASSUME TypeOK, NEW o \in Others, Save([cfg EXCEPT !.other = o])
    PROVE  cfg' \in Configs /\ saving' \in BOOLEAN
  BY DEF Save, TypeOK, Configs

-----------------------------------------------------------------------------
\* The first state of a device is well typed.
LEMMA InitTypes == Init => TypeOK
  <1>1. Defaults.factor \in Factors
    BY DefaultsConfig DEF Configs
  <1>2. 0 \in Int /\ 0 \in Nat
    OBVIOUS
  <1> QED
    BY <1>1, <1>2, DefaultsConfig, Zenon DEF Init, TypeOK

\* Every step keeps the types, and a factor that is not zero with them.
LEMMA NextTypes == TypeOK /\ [Next]_vars => TypeOK'
  <1> SUFFICES ASSUME TypeOK, [Next]_vars
               PROVE  TypeOK'
    OBVIOUS
  <1> USE DEF regs, requests, world
  <1>1. CASE Boot
    <2>1. cfg' \in Configs /\ saving' \in BOOLEAN
      BY <1>1, DefaultsConfig DEF Boot, Save, TypeOK
    <2>2. OFFSET' \in Int /\ SCALE' \in Factors
      BY <1>1, DefaultsConfig DEF Boot, Loaded, TypeOK, Configs
    <2> QED
      BY <1>1, <2>1, <2>2 DEF Boot, TypeOK
  <1>2. CASE PortalSave
    <2>1. PICK f \in PortalFactors \cup {cfg.factor}, o \in Others :
            Save([cfg EXCEPT !.factor = f, !.other = o])
      BY <1>2 DEF PortalSave
    <2>2. f \in Factors
      BY <2>1, ScaleAssumption DEF Factors, TypeOK, Configs
    <2>3. cfg' \in Configs /\ saving' \in BOOLEAN
      BY <2>1, <2>2 DEF Save, TypeOK, Configs
    <2> QED
      BY <1>2, <2>3 DEF PortalSave, TypeOK
  <1>3. CASE WifiJoined
    BY <1>3 DEF WifiJoined, TypeOK, Stages
  <1>4. CASE Button
    <2>1. /\ cfg' \in Configs /\ saving' \in BOOLEAN
          /\ OFFSET' \in Int /\ last_weight_g' \in Int
      BY <1>4, TareTypes DEF Button, NoSave, TypeOK
    <2> QED
      BY <1>4, <2>1 DEF Button, TypeOK, Stages
  <1>5. CASE Http
    <2>1. cfg' \in Configs /\ saving' \in BOOLEAN
      BY <1>5, SetEmptyTypes, SetOtherTypes DEF Http, NoSave, TypeOK
    <2>2. pending' \subseteq {"tare", "calibrate", "empty"} /\ pending_known_g' \in Nat
      BY <1>5, ScaleAssumption DEF Http, TypeOK
    <2> QED
      BY <1>5, <2>1, <2>2 DEF Http, TypeOK, Stages
  <1>6. CASE PendingTare
    <2>1. /\ cfg' \in Configs /\ saving' \in BOOLEAN
          /\ OFFSET' \in Int /\ last_weight_g' \in Int
      BY <1>6, TareTypes DEF PendingTare, NoSave, TypeOK
    <2> QED
      BY <1>6, <2>1 DEF PendingTare, TypeOK, Stages
  <1>7. CASE PendingCalibrate
    <2>1. /\ cfg' \in Configs /\ saving' \in BOOLEAN
          /\ SCALE' \in Factors /\ pending_known_g' \in Nat
      BY <1>7, CalibrateTypes DEF PendingCalibrate, NoSave, TypeOK
    <2> QED
      BY <1>7, <2>1 DEF PendingCalibrate, TypeOK, Stages
  <1>8. CASE PendingEmpty
    <2>1. cfg' \in Configs /\ saving' \in BOOLEAN
      BY <1>8, EmptyTypes DEF PendingEmpty, NoSave, TypeOK
    <2> QED
      BY <1>8, <2>1 DEF PendingEmpty, TypeOK, Stages
  <1>9. CASE NetTare
    BY <1>9, TareTypes DEF NetTare, TypeOK
  <1>10. CASE NetCalibrate
    <2>1. cfg' \in Configs /\ saving' \in BOOLEAN /\ SCALE' \in Factors
      BY <1>10, CalibrateTypes, ScaleAssumption DEF NetCalibrate
    <2> QED
      BY <1>10, <2>1 DEF NetCalibrate, TypeOK
  <1>11. CASE NetSetEmpty
    <2>1. cfg' \in Configs /\ saving' \in BOOLEAN
      BY <1>11, EmptyTypes, SetEmptyTypes DEF NetSetEmpty
    <2> QED
      BY <1>11, <2>1 DEF NetSetEmpty, TypeOK
  <1>12. CASE NetSetOther
    <2>1. cfg' \in Configs /\ saving' \in BOOLEAN
      BY <1>12, SetOtherTypes DEF NetSetOther
    <2> QED
      BY <1>12, <2>1 DEF NetSetOther, TypeOK
  <1>13. CASE EndPass
    <2>1. last_weight_g' \in Int
      BY <1>13, ReadingsInt DEF EndPass, TypeOK
    <2> QED
      BY <1>13, <2>1 DEF EndPass, TypeOK, Stages
  <1>14. CASE Commit
    BY <1>14 DEF Commit, TypeOK
  <1>15. CASE Restart
    BY <1>15 DEF Restart, TypeOK
  <1>16. CASE World
    BY <1>16 DEF World, TypeOK
  <1>17. CASE UNCHANGED vars
    BY <1>17 DEF vars, TypeOK
  <1> QED
    BY <1>1, <1>2, <1>3, <1>4, <1>5, <1>6, <1>7, <1>8, <1>9, <1>10, <1>11, <1>12,
       <1>13, <1>14, <1>15, <1>16, <1>17 DEF Next

\* ino:271, 835, 1062: whatever the button, the web page, the portal and the
\* server do, no factor is zero and no weight is divided by zero.
THEOREM FactorNeverZero == Spec => []TypeOK
  BY InitTypes, NextTypes, PTL DEF Spec

-----------------------------------------------------------------------------
(***************************************************************************)
(* The requests of the web page are executed in the pass that queued them. *)
(***************************************************************************)

\* The requests that may be queued at a stage of loop(): http queues at most one,
\* and the three stages after it take theirs out, each before the next one.
QueueAt(stage) ==
    CASE stage = "tare"      -> {{}, {"tare"}, {"calibrate"}, {"empty"}}
      [] stage = "calibrate" -> {{}, {"calibrate"}, {"empty"}}
      [] stage = "empty"     -> {{}, {"empty"}}
      [] OTHER               -> {{}}

QueueInv == pc # "off" => pending \in QueueAt(pc)

\* A queue of one stage holds at most one request.
LEMMA QueueSmall ==
    ASSUME NEW stage, NEW q \in QueueAt(stage)
    PROVE  Cardinality(q) <= 1
  <1>1. q = {} \/ q = {"tare"} \/ q = {"calibrate"} \/ q = {"empty"}
    BY DEF QueueAt
  <1>2. CASE q = {}
    BY <1>2, FS_EmptySet
  <1>3. CASE q # {}
    <2>1. PICK x : q = {x}
      BY <1>1, <1>3
    <2> QED
      BY <2>1, FS_Singleton
  <1> QED
    BY <1>2, <1>3

\* The queues from which one stage makes those of the next.
LEMMA QueueMoves ==
    /\ \A q \in QueueAt("tare") : q \ {"tare"} \in QueueAt("calibrate")
    /\ \A q \in QueueAt("calibrate") : q \ {"calibrate"} \in QueueAt("empty")
    /\ \A q \in QueueAt("empty") : q \ {"empty"} \in QueueAt("net")
    /\ \A stage \in {"setup", "button", "http", "net"} : QueueAt(stage) = {{}}
  BY DEF QueueAt

\* Every step keeps the queue of its stage.
LEMMA NextQueue == QueueInv /\ [Next]_vars => QueueInv'
  <1> SUFFICES ASSUME QueueInv, [Next]_vars
               PROVE  QueueInv'
    OBVIOUS
  <1> USE DEF At, requests
  <1>1. CASE Boot
    BY <1>1, QueueMoves DEF Boot, QueueInv
  <1>2. CASE WifiJoined \/ Button \/ EndPass
    BY <1>2, QueueMoves DEF WifiJoined, Button, EndPass, QueueInv
  <1>3. CASE Http
    <2>1. pending = {}
      BY <1>3, QueueMoves DEF Http, QueueInv
    <2>2. pending' \in {{}, {"tare"}, {"calibrate"}, {"empty"}}
      BY <1>3, <2>1 DEF Http
    <2> QED
      BY <1>3, <2>2 DEF Http, QueueInv, QueueAt
  <1>4. CASE PendingTare
    BY <1>4, QueueMoves DEF PendingTare, QueueInv
  <1>5. CASE PendingCalibrate
    BY <1>5, QueueMoves DEF PendingCalibrate, QueueInv
  <1>6. CASE PendingEmpty
    BY <1>6, QueueMoves DEF PendingEmpty, QueueInv
  <1>7. CASE PortalSave \/ NetTare \/ NetCalibrate \/ NetSetEmpty \/ NetSetOther
    BY <1>7 DEF PortalSave, NetTare, NetCalibrate, NetSetEmpty, NetSetOther, QueueInv
  <1>8. CASE Commit \/ World
    BY <1>8 DEF Commit, World, QueueInv
  <1>9. CASE Restart
    BY <1>9 DEF Restart, QueueInv
  <1>10. CASE UNCHANGED vars
    BY <1>10 DEF vars, QueueInv
  <1> QED
    BY <1>1, <1>2, <1>3, <1>4, <1>5, <1>6, <1>7, <1>8, <1>9, <1>10 DEF Next

\* ino:1289-1309: a request is executed in the pass that queued it, before the
\* network part and before another request is accepted.
THEOREM RequestsExecutedInOrder == Spec => []RequestsInOrder
  <1>1. Init => QueueInv
    BY DEF Init, QueueInv
  <1>2. QueueInv => RequestsInOrder
    BY QueueSmall, QueueMoves DEF QueueInv, RequestsInOrder, Stages
  <1> QED
    BY <1>1, <1>2, NextQueue, PTL DEF Spec

-----------------------------------------------------------------------------
(***************************************************************************)
(* The settings survive: refinement of ScaleSettings, by a scale whose     *)
(* setup portal submits no factor.                                         *)
(***************************************************************************)

\* Between two saves the flash holds the configuration and the registers do too;
\* in the middle of a save the flash lags by at most one setting.
SettingsInv ==
    /\ pc # "off" => OFFSET = cfg.offset /\ SCALE = cfg.factor
    /\ pc # "off" /\ ~saving => eeprom # Blank /\ cfg = eeprom
    /\ saving => /\ pc # "off"
                 /\ \E f \in Fields :
                      \A g \in Fields \ {f} : cfg[g] = Loaded(eeprom)[g]

Inv == TypeOK /\ SettingsInv

\* A save that changes one field of the configuration.
OneField(c, f) == \A g \in Fields \ {f} : c[g] = cfg[g]

\* An operation: it saves a configuration that differs in one field, or none, and
\* sets the registers to match.
Operation ==
    /\ pc' # "off" /\ pc # "off" /\ ~saving
    /\ UNCHANGED eeprom
    /\ OFFSET' = cfg'.offset /\ SCALE' = cfg'.factor
    /\ \/ UNCHANGED <<cfg, saving>>
       \/ saving' = TRUE /\ \E f \in Fields : OneField(cfg', f)

\* An operation keeps the invariant.
LEMMA OperationInv ==
    ASSUME Inv, Operation
    PROVE  SettingsInv'
  <1>1. eeprom # Blank /\ cfg = eeprom /\ Loaded(eeprom) = cfg
    BY DEF Inv, SettingsInv, Operation, Loaded
  <1>2. CASE UNCHANGED <<cfg, saving>>
    BY <1>1, <1>2 DEF Operation, SettingsInv
  <1>3. CASE saving' = TRUE /\ \E f \in Fields : OneField(cfg', f)
    BY <1>1, <1>3 DEF Operation, SettingsInv, OneField, Loaded
  <1> QED
    BY <1>2, <1>3 DEF Operation

\* A configuration in which one field was set.
LEMMA OneFieldSaved ==
    ASSUME NEW f \in Fields, NEW c, Save(c), OneField(c, f)
    PROVE  saving' = TRUE /\ \E g \in Fields : OneField(cfg', g)
  <1>1. cfg' = c /\ saving' = TRUE
    BY DEF Save
  <1>2. OneField(cfg', f)
    BY <1>1 DEF OneField
  <1> QED
    BY <1>1, <1>2

\* The operations on the scale are operations in this sense.
LEMMA TareField ==
    ASSUME Inv, DoTare, pc # "off", ~saving
    PROVE  /\ OFFSET' = cfg'.offset /\ cfg'.factor = cfg.factor
           /\ \/ UNCHANGED <<cfg, saving>>
              \/ saving' = TRUE /\ \E f \in Fields : OneField(cfg', f)
  <1>1. cfg \in Configs /\ OFFSET = cfg.offset
    BY DEF Inv, TypeOK, SettingsInv
  <1>2. CASE AverageRaw = 0
    BY <1>1, <1>2 DEF DoTare, NoSave
  <1>3. CASE AverageRaw # 0
    <2> DEFINE c == [cfg EXCEPT !.offset = AverageRaw]
    <2>1. OFFSET' = AverageRaw /\ Save(c)
      BY <1>3 DEF DoTare
    <2>2. c.offset = AverageRaw /\ c.factor = cfg.factor
      BY <1>1 DEF Configs
    <2>3. "offset" \in Fields /\ OneField(c, "offset")
      BY <1>1 DEF OneField, Fields, Configs
    <2> HIDE DEF c
    <2>4. saving' = TRUE /\ \E g \in Fields : OneField(cfg', g)
      BY <2>1, <2>3, OneFieldSaved
    <2>5. cfg' = c
      BY <2>1 DEF Save
    <2> QED
      BY <2>1, <2>2, <2>4, <2>5, Zenon
  <1> QED
    BY <1>2, <1>3

\* A calibration sets the factor and its register.
LEMMA CalibrateField ==
    ASSUME Inv, NEW known_g, DoCalibrate(known_g), pc # "off", ~saving
    PROVE  /\ SCALE' = cfg'.factor /\ cfg'.offset = cfg.offset
           /\ \/ UNCHANGED <<cfg, saving>>
              \/ saving' = TRUE /\ \E f \in Fields : OneField(cfg', f)
  <1> DEFINE factor == [num |-> AverageRaw - OFFSET, den |-> known_g]
             c == [cfg EXCEPT !.factor = factor]
  <1>1. cfg \in Configs /\ SCALE = cfg.factor
    BY DEF Inv, TypeOK, SettingsInv
  <1>2. \/ NoSave /\ UNCHANGED SCALE
        \/ SCALE' = factor /\ Save(c)
    BY DEF DoCalibrate
  <1>3. CASE NoSave /\ UNCHANGED SCALE
    BY <1>1, <1>3 DEF NoSave
  <1>4. CASE SCALE' = factor /\ Save(c)
    <2> HIDE DEF factor
    <2>1. c.factor = factor /\ c.offset = cfg.offset
      BY <1>1 DEF Configs
    <2>2. "factor" \in Fields /\ OneField(c, "factor")
      BY <1>1 DEF OneField, Fields, Configs
    <2> HIDE DEF c
    <2>3. saving' = TRUE /\ \E g \in Fields : OneField(cfg', g)
      BY <1>4, <2>2, OneFieldSaved
    <2>4. cfg' = c
      BY <1>4 DEF Save
    <2> QED
      BY <1>4, <2>1, <2>3, <2>4, Zenon
  <1> QED
    BY <1>2, <1>3, <1>4

\* So are the settings that have no register.
LEMMA PlainField ==
    ASSUME Inv, NEW v,
           \/ Save([cfg EXCEPT !.empty = v])
           \/ Save([cfg EXCEPT !.other = v])
    PROVE  /\ cfg'.offset = cfg.offset /\ cfg'.factor = cfg.factor
           /\ saving' = TRUE /\ \E f \in Fields : OneField(cfg', f)
  <1>1. cfg \in Configs
    BY DEF Inv, TypeOK
  <1>2. ASSUME NEW c, NEW f \in Fields, Save(c), OneField(c, f),
               c.offset = cfg.offset, c.factor = cfg.factor
        PROVE  /\ cfg'.offset = cfg.offset /\ cfg'.factor = cfg.factor
               /\ saving' = TRUE /\ \E g \in Fields : OneField(cfg', g)
    <2>1. cfg' = c
      BY <1>2 DEF Save
    <2>2. saving' = TRUE /\ \E g \in Fields : OneField(cfg', g)
      BY <1>2, OneFieldSaved
    <2> QED
      BY <1>2, <2>1, <2>2, Zenon
  <1>3. CASE Save([cfg EXCEPT !.empty = v])
    <2> DEFINE c == [cfg EXCEPT !.empty = v]
    <2>1. c.offset = cfg.offset /\ c.factor = cfg.factor
      BY <1>1 DEF Configs
    <2>2. "empty" \in Fields /\ OneField(c, "empty")
      BY <1>1 DEF OneField, Fields, Configs
    <2> QED
      BY <1>2, <1>3, <2>1, <2>2, Zenon
  <1>4. CASE Save([cfg EXCEPT !.other = v])
    <2> DEFINE c == [cfg EXCEPT !.other = v]
    <2>1. c.offset = cfg.offset /\ c.factor = cfg.factor
      BY <1>1 DEF Configs
    <2>2. "other" \in Fields /\ OneField(c, "other")
      BY <1>1 DEF OneField, Fields, Configs
    <2> QED
      BY <1>2, <1>4, <2>1, <2>2, Zenon
  <1> QED
    BY <1>3, <1>4

\* A step that leaves the settings alone is an operation that changes nothing.
LEMMA IdleField ==
    ASSUME Inv, NoSave, pc # "off"
    PROVE  /\ cfg'.offset = OFFSET /\ cfg'.factor = SCALE
           /\ UNCHANGED <<cfg, saving>>
  BY DEF Inv, SettingsInv, NoSave

\* The steps of loop() and the setup portal that may save.
Saving ==
    \/ PortalSave \/ Button \/ Http
    \/ PendingTare \/ PendingCalibrate \/ PendingEmpty
    \/ NetTare \/ NetCalibrate \/ NetSetEmpty \/ NetSetOther

LEMMA SavingOperation ==
    ASSUME PortalFactors = {}, Inv, Saving
    PROVE  Operation
  <1> USE DEF regs, requests, world, At
  <1>0. /\ OFFSET = cfg.offset /\ SCALE = cfg.factor /\ cfg \in Configs
        /\ pc # "off" /\ ~saving
    BY DEF Saving, Inv, SettingsInv, TypeOK, PortalSave, Button, Http, PendingTare,
           PendingCalibrate, PendingEmpty, NetTare, NetCalibrate, NetSetEmpty, NetSetOther
  <1>a. ASSUME UNCHANGED <<eeprom, OFFSET, SCALE>>, pc' # "off",
               cfg'.offset = cfg.offset, cfg'.factor = cfg.factor,
               \/ UNCHANGED <<cfg, saving>>
               \/ saving' = TRUE /\ \E f \in Fields : OneField(cfg', f)
        PROVE  Operation
    <2>1. OFFSET' = cfg'.offset /\ SCALE' = cfg'.factor
      BY <1>0, <1>a
    <2> QED
      BY <1>0, <1>a, <2>1, Zenon DEF Operation
  <1>b. ASSUME UNCHANGED <<eeprom, OFFSET, SCALE>>, pc' # "off", NoSave
        PROVE  Operation
    BY <1>0, <1>a, <1>b, IdleField
  <1>c. ASSUME UNCHANGED <<eeprom, OFFSET, SCALE>>, pc' # "off", NEW v,
               \/ Save([cfg EXCEPT !.empty = v])
               \/ Save([cfg EXCEPT !.other = v])
        PROVE  Operation
    <2>1. /\ cfg'.offset = cfg.offset /\ cfg'.factor = cfg.factor
          /\ saving' = TRUE /\ \E f \in Fields : OneField(cfg', f)
      BY <1>c, PlainField
    <2> QED
      BY <1>a, <1>c, <2>1, Zenon
  <1>d. ASSUME UNCHANGED <<eeprom, SCALE>>, pc' # "off", DoTare
        PROVE  Operation
    <2>1. /\ OFFSET' = cfg'.offset /\ cfg'.factor = cfg.factor
          /\ \/ UNCHANGED <<cfg, saving>>
             \/ saving' = TRUE /\ \E f \in Fields : OneField(cfg', f)
      BY <1>0, <1>d, TareField
    <2>2. SCALE' = cfg'.factor
      BY <1>0, <1>d, <2>1
    <2> QED
      BY <1>0, <1>d, <2>1, <2>2, Zenon DEF Operation
  <1>e. ASSUME UNCHANGED <<eeprom, OFFSET>>, pc' # "off", NEW g, DoCalibrate(g)
        PROVE  Operation
    <2>1. /\ SCALE' = cfg'.factor /\ cfg'.offset = cfg.offset
          /\ \/ UNCHANGED <<cfg, saving>>
             \/ saving' = TRUE /\ \E f \in Fields : OneField(cfg', f)
      BY <1>0, <1>e, CalibrateField
    <2>2. OFFSET' = cfg'.offset
      BY <1>0, <1>e, <2>1
    <2> QED
      BY <1>0, <1>e, <2>1, <2>2, Zenon DEF Operation
  <1>f. ASSUME UNCHANGED <<eeprom, OFFSET, SCALE>>, pc' # "off", DoSetEmptyKeg
        PROVE  Operation
    <2>1. PICK g : Save([cfg EXCEPT !.empty = IF g > 0 THEN g ELSE 0])
      BY <1>f, Zenon DEF DoSetEmptyKeg
    <2> QED
      BY <1>c, <1>f, <2>1, Zenon
  <1>1. CASE PortalSave
    <2>1. PICK o \in Others : Save([cfg EXCEPT !.factor = cfg.factor, !.other = o])
      BY <1>1 DEF PortalSave
    <2>2. [cfg EXCEPT !.factor = cfg.factor, !.other = o] = [cfg EXCEPT !.other = o]
      BY <1>0 DEF Configs
    <2>3. Save([cfg EXCEPT !.other = o])
      BY <2>1, <2>2
    <2> QED
      BY <1>0, <1>1, <1>c, <2>3 DEF PortalSave
  <1>2. CASE Button
    BY <1>2, <1>b, <1>d DEF Button
  <1>3. CASE Http
    <2>1. UNCHANGED <<eeprom, OFFSET, SCALE>> /\ pc' # "off"
      BY <1>3 DEF Http
    <2>2. \/ NoSave
          \/ \E g \in Known \cup {0} : Save([cfg EXCEPT !.empty = g])
          \/ \E o \in Others : Save([cfg EXCEPT !.other = o])
      BY <1>3, Zenon DEF Http
    <2> QED
      BY <1>b, <1>c, <2>1, <2>2, Zenon
  <1>4. CASE PendingTare
    BY <1>4, <1>b, <1>d DEF PendingTare
  <1>5. CASE PendingCalibrate
    BY <1>5, <1>b, <1>e DEF PendingCalibrate
  <1>6. CASE PendingEmpty
    BY <1>6, <1>b, <1>f DEF PendingEmpty
  <1>7. CASE NetTare
    BY <1>0, <1>7, <1>d DEF NetTare
  <1>8. CASE NetCalibrate
    BY <1>0, <1>8, <1>e DEF NetCalibrate
  <1>9. CASE NetSetEmpty
    <2>1. UNCHANGED <<eeprom, OFFSET, SCALE>> /\ pc' # "off"
      BY <1>0, <1>9 DEF NetSetEmpty
    <2>2. DoSetEmptyKeg \/ \E g \in Known \cup {0} : Save([cfg EXCEPT !.empty = g])
      BY <1>9, Zenon DEF NetSetEmpty
    <2> QED
      BY <1>c, <1>f, <2>1, <2>2, Zenon
  <1>10. CASE NetSetOther
    <2>1. UNCHANGED <<eeprom, OFFSET, SCALE>> /\ pc' # "off"
      BY <1>0, <1>10 DEF NetSetOther
    <2>2. \E o \in Others : Save([cfg EXCEPT !.other = o])
      BY <1>10, Zenon DEF NetSetOther
    <2> QED
      BY <1>c, <2>1, <2>2, Zenon
  <1> QED
    BY <1>1, <1>2, <1>3, <1>4, <1>5, <1>6, <1>7, <1>8, <1>9, <1>10 DEF Saving

\* With the flash and the registers in step, the settings in effect are those of
\* the flash, at every moment.
InFlash == settings = Loaded(eeprom)

LEMMA SettingsInFlash == Inv => InFlash
  <1> SUFFICES ASSUME Inv
               PROVE  settings = Loaded(eeprom)
    BY DEF InFlash
  <1>1. CASE pc \in Stages /\ ~saving
    <2>1. /\ OFFSET = cfg.offset /\ SCALE = cfg.factor
          /\ cfg = eeprom /\ eeprom # Blank /\ cfg \in Configs
      BY <1>1 DEF Inv, SettingsInv, TypeOK, Stages
    <2>2. cfg = [offset |-> cfg.offset, factor |-> cfg.factor,
                 empty |-> cfg.empty, other |-> cfg.other]
      BY <2>1 DEF Configs
    <2> QED
      BY <1>1, <2>1, <2>2 DEF settings, Loaded
  <1>2. CASE ~(pc \in Stages /\ ~saving)
    BY <1>2 DEF settings
  <1> QED
    BY <1>1, <1>2

LEMMA NextSettingsInFlash == Inv' => InFlash'
  BY SettingsInFlash, PTL

\* The invariant holds of a new device.
LEMMA InitInv == Init => Inv
  <1>1. Init => SettingsInv
    BY DEF Init, SettingsInv
  <1> QED
    BY <1>1, InitTypes DEF Inv

\* Every step keeps it.
LEMMA NextSettings ==
    ASSUME PortalFactors = {}, Inv, [Next]_vars
    PROVE  SettingsInv'
  <1> USE DEF regs, requests, world
  <1>1. CASE Saving
    BY <1>1, SavingOperation, OperationInv
  <1>2. CASE Boot
    <2>1. Loaded(eeprom) \in Configs
      BY DefaultsConfig DEF Inv, TypeOK, Loaded
    <2>2. CASE eeprom = Blank
      BY <1>2, <2>2 DEF Boot, Save, SettingsInv, Loaded, Fields
    <2>3. CASE eeprom # Blank
      BY <1>2, <2>3 DEF Boot, SettingsInv, Loaded
    <2> QED
      BY <2>2, <2>3
  <1>3. CASE WifiJoined \/ EndPass
    BY <1>3 DEF WifiJoined, EndPass, At, Inv, SettingsInv, Loaded
  <1>4. CASE Commit
    BY <1>4, DefaultsConfig DEF Commit, Inv, SettingsInv, TypeOK
  <1>5. CASE Restart
    BY <1>5 DEF Restart, SettingsInv
  <1>6. CASE World \/ UNCHANGED vars
    BY <1>6 DEF World, vars, Inv, SettingsInv, Loaded
  <1> QED
    BY <1>1, <1>2, <1>3, <1>4, <1>5, <1>6 DEF Next, Saving

LEMMA NextInv ==
    ASSUME PortalFactors = {}, Inv, [Next]_vars
    PROVE  Inv'
  BY NextTypes, NextSettings DEF Inv

\* Every step is a step of the contract, or changes nothing it can see.
LEMMA ContractStep ==
    ASSUME PortalFactors = {}, Inv, Inv', [Next]_vars
    PROVE  [Contract!Next]_(Contract!setvars)
  <1> USE DEF regs, requests, world
  <1>0. settings = Loaded(eeprom) /\ settings' = Loaded(eeprom')
    BY SettingsInFlash, NextSettingsInFlash DEF InFlash
  <1>a. ASSUME UNCHANGED eeprom, ~saving, saving' \in {saving, TRUE}
        PROVE  [Contract!Next]_(Contract!setvars)
    <2>1. UNCHANGED settings
      BY <1>0, <1>a
    <2>2. CASE saving' = saving
      BY <2>1, <2>2 DEF Contract!setvars
    <2>3. CASE saving' = TRUE
      BY <1>a, <2>1, <2>3 DEF Contract!Next, Contract!Begin
    <2> QED
      BY <1>a, <2>2, <2>3
  <1>1. CASE Saving
    BY <1>1, <1>a, SavingOperation DEF Operation
  <1>2. CASE Boot
    <2>1. saving = FALSE
      BY <1>2 DEF Boot, Inv, SettingsInv, TypeOK
    <2>2. UNCHANGED eeprom /\ saving' \in {saving, TRUE}
      BY <1>2, <2>1 DEF Boot, Save
    <2> QED
      BY <1>a, <2>1, <2>2, Zenon
  <1>3. CASE WifiJoined \/ EndPass
    BY <1>3, <1>a DEF WifiJoined, EndPass, At
  <1>4. CASE Commit
    <2>1. saving /\ saving' = FALSE /\ eeprom' = cfg /\ cfg \in Configs
      BY <1>4 DEF Commit, Inv, TypeOK
    <2>2. settings' = cfg
      BY <1>0, <2>1, DefaultsConfig DEF Loaded
    <2>3. DOMAIN settings' = Fields
      BY <2>1, <2>2 DEF Configs, Fields
    <2>4. \E f \in Fields : \A g \in Fields \ {f} : settings'[g] = settings[g]
      BY <1>0, <2>1, <2>2 DEF Inv, SettingsInv
    <2> QED
      BY <2>1, <2>3, <2>4, Zenon DEF Contract!Next, Contract!Change
  <1>5. CASE Restart
    <2>1. settings' \in {settings, Defaults}
      BY <1>0, <1>5 DEF Restart, Loaded
    <2>2. CASE saving
      BY <1>5, <2>1, <2>2 DEF Restart, Contract!Next, Contract!Interrupt
    <2>3. CASE ~saving
      BY <1>0, <1>5, <2>3 DEF Restart, Contract!setvars, Inv, TypeOK
    <2> QED
      BY <2>2, <2>3
  <1>6. CASE World \/ UNCHANGED vars
    BY <1>0, <1>6 DEF World, vars, Contract!setvars
  <1> QED
    BY <1>1, <1>2, <1>3, <1>4, <1>5, <1>6 DEF Next, Saving

\* ino:187-188, 1254-1255: while the setup portal submits no factor, the registers
\*  of the HX711 are those of the configuration.
THEOREM RegistersFollow ==
    ASSUME PortalFactors = {}
    PROVE  Spec => []ConfigInEffect
  <1>1. Inv /\ [Next]_vars => Inv'
    BY NextInv
  <1>2. Inv => ConfigInEffect
    BY DEF Inv, SettingsInv, ConfigInEffect, Stages
  <1> QED
    BY <1>1, <1>2, InitInv, PTL DEF Spec

\* ino:254-282: the settings change one at a time, and survive every restart that
\* does not interrupt a save.
THEOREM SettingsSurvive ==
    ASSUME PortalFactors = {}
    PROVE  Spec => ImplementsSettings
  <1>1. Inv /\ [Next]_vars => Inv'
    BY NextInv
  <1>2. Init => Contract!Init
    BY DEF Init, Contract!Init, settings, Stages, Loaded
  <1>3. Inv /\ Inv' /\ [Next]_vars => [Contract!Next]_(Contract!setvars)
    BY ContractStep
  <1> QED
    BY <1>1, <1>2, <1>3, InitInv, PTL DEF Spec, ImplementsSettings, Contract!Spec
=============================================================================
