--------------------------- MODULE HandlersProofs ---------------------------
(***************************************************************************)
(* What a handler and HomeKit end up with, for every set of kinds, levels, *)
(* temperatures and hues, and any number of writes and events under way.   *)
(***************************************************************************)
EXTENDS Handlers, WellFoundedInduction, TLAPS

-----------------------------------------------------------------------------
(* The invariant                                                           *)

\* What a datapoint may hold: what the CCU has for it or HomeKit writes to it.
Legal(dp) ==
  CASE dp \in {"STATE", "ERROR", "WORKING", "LOW_BAT", "RAINING"} -> Bool
    [] dp = "LEVEL"   -> 0..100
    [] dp = "LEVEL_2" -> 0..900
    [] dp = "COLTEMP" -> 0..1800
    [] dp = "COLOR"   -> 0..200
    [] dp \notin {"STATE", "ERROR", "WORKING", "LOW_BAT", "RAINING",
                  "LEVEL", "LEVEL_2", "COLTEMP", "COLOR"} -> Int

\* The stages of a pull of dp.
PullType(dp) ==
  [at : {"asked", "done"}] \cup [at : {"answered"}, value : Legal(dp), late : BOOLEAN]

\* The datapoint that a write changes.
Reaches(w) == IF w.dp \in {"AUTO_MODE", "MANU_MODE"} THEN "SET_TEMPERATURE" ELSE w.dp

\* A write is for a datapoint of the behaviour and carries what that may hold.
GoodWrite(w) ==
  /\ Reaches(w) \in DOMAIN device
  /\ w.dp # "AUTO_MODE" => w.raw \in Legal(Reaches(w))
  /\ w.dp = "COLOR" => w.raw \in IF kind = "bsl" THEN 1..7 ELSE 0..200

\* What HomeKit takes for a level.
Levels == {"Brightness", "CurrentPosition", "TargetPosition", "BatteryLevel", "CurrentRelativeHumidity"}

\* The parts of the state that do not depend on the order of events.
Types ==
  /\ kind \in Kinds
  /\ form \in {"typed", "text"} /\ (form = "text" => kind \in {"switch", "sensor", "lock", "blind", "slat"})
  /\ cache \in Cached /\ (kind = "weather" => cache.lux >= 1)
  /\ shown = [ch \in DOMAIN Get(kind, cache) |-> shown[ch]]
  /\ \A ch \in DOMAIN shown \cap Levels : shown[ch] \in 0..100
  /\ DOMAIN device \in Groups(kind)
  /\ device = [dp \in DOMAIN device |-> device[dp]]
  /\ \A dp \in DOMAIN device : device[dp] \in Legal(dp)
  /\ DOMAIN pull = Pulled(kind) \cap DOMAIN device
  /\ \A dp \in DOMAIN pull : pull[dp] \in PullType(dp)
  /\ \A w \in writes : GoodWrite(w)
  /\ events \in Seq((DOMAIN device) \X Int)
  /\ \A n \in DOMAIN events : events[n][2] \in Legal(events[n][1])
  /\ excused \subseteq DOMAIN device

\* An event of dp is still to come.
Coming(dp) == \E n \in DOMAIN events : events[n][1] = dp

\* The last event of a datapoint says what the device holds.
LastTells ==
  \A n \in DOMAIN events :
    \/ events[n][2] = device[events[n][1]]
    \/ \E m \in DOMAIN events : m > n /\ events[m][1] = events[n][1]

\* The answer to a pull does so too if no event overtook it, or is about to.
AnswerTells ==
  \A dp \in DOMAIN pull :
    pull[dp].at = "answered" /\ ~pull[dp].late /\ ~Coming(dp) => pull[dp].value = device[dp]

\* The cache may differ from the device: what is under way will settle it, or
\* nothing will and the difference is excused.
Open(dp) == dp \in excused \/ Coming(dp) \/ \E w \in writes : Reaches(w) = dp

\* Otherwise it does not.
Settled == \A dp \in DOMAIN pull : Open(dp) \/ Says(cache, dp, Read(dp, device[dp]))

\* HomeKit holds what a read would answer, unless a datapoint that will push
\* the characteristic is open.
Told ==
  \A ch \in DOMAIN shown \ {"CurrentMode"} :
    \/ shown[ch] = Get(kind, cache)[ch]
    \/ \E dp \in Pulled(kind) : ch \in Pushed("event", dp) /\ Open(dp)

Inv == Types /\ LastTells /\ AnswerTells /\ Settled /\ Told

-----------------------------------------------------------------------------
(* The tables, a handler at a time                                         *)

\* What each handler keeps, ...
LEMMA CachedIs ==
  /\ kind \in {"switch", "sensor"} => Cached = OnCache
  /\ kind = "lock"       => Cached = LockCache
  /\ kind = "blind"      => Cached = BlindCache
  /\ kind = "slat"       => Cached = SlatCache
  /\ kind = "dimmer"     => Cached = DimmerCache
  /\ kind = "coltemp"    => Cached = ColTempCache
  /\ kind \in Rgb        => Cached = RgbCache
  /\ kind = "battery"    => Cached = BatteryCache
  /\ kind = "weather"    => Cached = WeatherCache
  /\ kind = "meter"      => Cached = MeterCache
  /\ kind = "thermostat" => Cached = ClimateCache
BY SMT DEF Cached, Rgb

\* ... what it does with a value, ...
LEMMA HandleIs ==
  ASSUME NEW c, NEW dp, NEW v
  PROVE
  /\ kind = "switch"     => Handle(c, dp, v) = Switch(c, dp, v)
  /\ kind = "sensor"     => Handle(c, dp, v) = Sensor(c, dp, v)
  /\ kind = "lock"       => Handle(c, dp, v) = Lock(c, dp, v)
  /\ kind = "blind"      => Handle(c, dp, v) = Blind(c, dp, v)
  /\ kind = "slat"       => Handle(c, dp, v) = SlatBlind(c, dp, v)
  /\ kind = "dimmer"     => Handle(c, dp, v) = Dimmer(c, dp, v)
  /\ kind = "coltemp"    => Handle(c, dp, v) = ColorTempDimmer(c, dp, v)
  /\ kind \in Rgb        => Handle(c, dp, v) = RgbLight(c, dp, v)
  /\ kind = "battery"    => Handle(c, dp, v) = Battery(c, dp, v)
  /\ kind = "weather"    => Handle(c, dp, v) = Weather(c, dp, v)
  /\ kind = "meter"      => Handle(c, dp, v) = PowerMeter(c, dp, v)
  /\ kind = "thermostat" => Handle(c, dp, v) = Thermostat(c, dp, v)
BY SMT DEF Handle, Rgb

\* ... and what it listens to.
LEMMA ListenedIs ==
  /\ kind \in {"switch", "sensor"} => DOMAIN Listened(kind) = {"STATE"}
  /\ kind = "lock"       => DOMAIN Listened(kind) = {"STATE", "ERROR"}
  /\ kind = "blind"      => DOMAIN Listened(kind) = {"LEVEL", "WORKING"}
  /\ kind = "slat"       => DOMAIN Listened(kind) = {"LEVEL", "LEVEL_2", "WORKING"}
  /\ kind = "dimmer"     => DOMAIN Listened(kind) = {"LEVEL"}
  /\ kind = "coltemp"    => DOMAIN Listened(kind) = {"LEVEL", "COLTEMP"}
  /\ kind \in Rgb        => DOMAIN Listened(kind) = {"LEVEL", "COLOR"}
  /\ kind = "battery"    => DOMAIN Listened(kind) = {"LOW_BAT", "OPERATING_VOLTAGE"}
  /\ kind = "weather"    => DOMAIN Listened(kind) = {"TEMPERATURE", "HUMIDITY", "ILLUMINATION", "RAINING"}
  /\ kind = "meter"      => DOMAIN Listened(kind) = {"VOLTAGE", "CURRENT", "POWER", "ENERGY_COUNTER"}
  /\ kind = "thermostat" => DOMAIN Listened(kind) = {"ACTUAL_TEMPERATURE", "SET_TEMPERATURE"}
BY SMT DEF Listened, Rgb

\* Which datapoints share a behaviour.
LEMMA GroupsIs ==
  ASSUME kind \in Kinds, NEW G \in Groups(kind)
  PROVE
  /\ G \subseteq DOMAIN Listened(kind)
  /\ kind \in {"lock", "blind", "thermostat"} => G = DOMAIN Listened(kind)
  /\ kind = "slat" => G \in {{"LEVEL_2"}, {"LEVEL", "WORKING"}}
  /\ kind \notin {"lock", "blind", "slat", "thermostat"} => \A d, e \in G : d = e
<1>1. CASE kind \in {"slat"}
  BY SMT, <1>1 DEF Groups, Listened, Rgb
<1>2. CASE kind = "coltemp"
  BY SMT, <1>2 DEF Groups, Listened, Rgb
<1>3. CASE kind \in Rgb
  BY SMT, <1>3 DEF Groups, Listened, Rgb
<1>4. CASE kind \in {"battery", "weather", "meter"}
  BY SMT, <1>4 DEF Groups, Listened, Rgb
<1>5. CASE kind \in {"switch", "sensor", "dimmer"}
  BY SMT, <1>5 DEF Groups, Listened, Rgb
<1>6. CASE kind \in {"lock", "blind", "thermostat"}
  BY SMT, <1>6 DEF Groups, Listened, Rgb
<1> QED
  BY <1>1, <1>2, <1>3, <1>4, <1>5, <1>6, KindsAssumption DEF Rgb

\* What is pushed ...
LEMMA PushedIs ==
  ASSUME NEW how, NEW dp
  PROVE
  /\ kind \in {"switch", "sensor"} => Pushed(how, dp) = {"On"}
  /\ kind = "lock" => Pushed(how, dp) = {"LockCurrentState"} \cup (IF dp = "STATE" THEN {"LockTargetState"} ELSE {})
  /\ kind \in {"blind", "slat"} => Pushed(how, dp) = BlindPushes(dp)
  /\ kind \in {"dimmer", "coltemp"} \cup Rgb =>
         Pushed(how, dp) = IF dp = "LEVEL" THEN LightPushes ELSE DOMAIN shown \ {"On", "Brightness"}
  /\ kind \in {"battery", "weather", "meter"} => Pushed(how, dp) = MeasurementPushes(dp)
  /\ kind = "thermostat" => Pushed(how, dp) = ThermostatPushes(how, dp)
BY SMT DEF Pushed, Rgb

\* ... and what a read answers.
LEMMA GetIs ==
  ASSUME NEW c
  PROVE
  /\ kind \in {"switch", "sensor"} => Get(kind, c) = [On |-> c.on]
  /\ kind = "lock" =>
       Get(kind, c) = [LockCurrentState |-> c.current, LockTargetState |-> c.target]
  /\ kind = "blind" =>
       Get(kind, c) = [CurrentPosition |-> c.current, TargetPosition |-> c.target,
                       PositionState |-> derivePositionState(c)]
  /\ kind = "slat" =>
       Get(kind, c) = [CurrentPosition |-> c.current, TargetPosition |-> c.target,
                       PositionState |-> derivePositionState(c),
                       CurrentTilt |-> c.currentTilt, TargetTilt |-> c.targetTilt]
  /\ kind = "dimmer" =>
       Get(kind, c) = [On |-> IF c.level > 0 THEN 1 ELSE 0, Brightness |-> c.level]
  /\ kind = "coltemp" =>
       Get(kind, c) = [On |-> IF c.level > 0 THEN 1 ELSE 0, Brightness |-> c.level,
                       ColorTemperature |-> c.mired]
  /\ kind \in Rgb =>
       Get(kind, c) = [On |-> IF c.level > 0 THEN 1 ELSE 0, Brightness |-> c.level,
                       Hue |-> c.hue, Saturation |-> c.sat]
  /\ kind = "battery" =>
       Get(kind, c) = [StatusLowBattery |-> c.low, BatteryLevel |-> c.charge]
  /\ kind = "weather" =>
       Get(kind, c) = [CurrentTemperature |-> c.temp, CurrentRelativeHumidity |-> c.humidity,
                       CurrentAmbientLightLevel |-> c.lux, LeakDetected |-> c.raining]
  /\ kind = "meter" =>
       Get(kind, c) = [Voltage |-> c.voltage, ElectricCurrent |-> c.current,
                       Consumption |-> c.power, TotalConsumption |-> c.total,
                       On |-> IF c.lastPowerW > 0 THEN 1 ELSE 0,
                       OutletInUse |-> IF c.lastPowerW > 10 THEN 1 ELSE 0]
  /\ kind = "thermostat" =>
       Get(kind, c) = [CurrentTemperature |-> c.temp, TargetTemperature |-> c.target,
                       TargetMode |-> c.mode, CurrentMode |-> deriveCurrentMode(c)]
BY SMT DEF Get, Rgb

\* What a datapoint may hold, a datapoint at a time.
LEMMA LegalIs ==
  ASSUME NEW dp, NEW v \in Legal(dp)
  PROVE  /\ v \in Int
         /\ dp \in {"STATE", "ERROR", "WORKING", "LOW_BAT", "RAINING"} => v \in Bool
         /\ dp = "LEVEL" => v \in 0..100
         /\ dp = "LEVEL_2" => v \in 0..900
         /\ dp = "COLTEMP" => v \in 0..1800
         /\ dp = "COLOR" => v \in 0..200
BY SMT DEF Legal, Bool

-----------------------------------------------------------------------------
(* Conversions                                                             *)

\* A level is a percentage, and a percentage a level.
LEMMA LevelRange ==
  ASSUME NEW v \in 0..100
  PROVE  normalizeLevelToPercent(v) = v /\ percentToLevelFraction(v) = v
BY SMT DEF normalizeLevelToPercent, percentToLevelFraction, clamp

\* Whatever comes, the result of a conversion is in its range.
LEMMA ConversionRange ==
  ASSUME NEW v \in Int
  PROVE  /\ normalizeLevelToPercent(v) \in Percent /\ percentToLevelFraction(v) \in Percent
         /\ tiltAngle(v) \in Angle /\ mired(v) \in Mireds
         /\ round(v) \in Int /\ Humidity(v) \in Percent /\ Charge(v) \in Percent
         /\ Lux(v) \in Int /\ Lux(v) >= 1
<1>1. normalizeLevelToPercent(v) \in Percent /\ percentToLevelFraction(v) \in Percent
  BY SMT DEF normalizeLevelToPercent, percentToLevelFraction, clamp, Percent
<1>2. tiltAngle(v) \in Angle /\ mired(v) \in Mireds
  BY SMT DEF tiltAngle, mired, clamp, Angle, Mireds
<1>3. round(v) \in Int /\ Humidity(v) \in Percent /\ Charge(v) \in Percent
  BY SMT DEF round, Humidity, Charge, clamp, Percent
<1>4. Lux(v) \in Int /\ Lux(v) >= 1
  BY SMT DEF Lux, clamp
<1> QED
  BY <1>1, <1>2, <1>3, <1>4

LEMMA BslHues ==
  ASSUME NEW i \in 1..6
  PROVE  HMIP_BSL_COLOR_TO_HUE[i] \in 0..360
BY SMT DEF HMIP_BSL_COLOR_TO_HUE

LEMMA TurnIs == FullTurn \in Int /\ FullTurn >= 0
BY DEF FullTurn

\* The hues that the ring has.
LEMMA RingIs == \A x : x \in Ring <=> x \in Int /\ 0 <= x /\ x <= FullTurn
BY TurnIs DEF Ring

\* A hue in degrees is on the ring, and so is a COLOR below 200.
LEMMA OnRing ==
  ASSUME NEW h \in 0..360
  PROVE  199 * h \in Ring
<1>1. 199 * h \in Int /\ 0 <= 199 * h /\ 199 * h <= FullTurn
  BY DEF FullTurn
<1> QED
  BY Zenon, <1>1, RingIs

LEMMA ColorOnRing ==
  ASSUME NEW v \in 0..199
  PROVE  360 * v \in Ring
<1>1. 360 * v \in Int /\ 0 <= 360 * v /\ 360 * v <= FullTurn
  BY DEF FullTurn
<1> QED
  BY Zenon, <1>1, RingIs

LEMMA ColorRange ==
  ASSUME NEW k, NEW v \in 0..200
  PROVE  applyColorFromCcu(k, v).hue \in Ring /\ applyColorFromCcu(k, v).sat \in Percent
<1>1. CASE k = "bsl" /\ v \in 1..6
  <2>1. 199 * HMIP_BSL_COLOR_TO_HUE[v] \in Ring
    BY <1>1, BslHues, OnRing
  <2>2. applyColorFromCcu(k, v) = [hue |-> 199 * HMIP_BSL_COLOR_TO_HUE[v], sat |-> 100]
    BY Zenon, <1>1 DEF applyColorFromCcu
  <2> QED
    BY <2>1, <2>2 DEF Percent
<1>2. CASE k = "bsl" /\ v \notin 1..6
  <2>1. 0 \in Ring
    BY RingIs, TurnIs
  <2> QED
    BY SMT, <1>2, <2>1 DEF applyColorFromCcu, Percent
<1>3. CASE k # "bsl"
  <2>1. CASE v >= 200
    <3>1. 0 \in Ring
      BY RingIs, TurnIs
    <3> QED
      BY SMT, <1>3, <2>1, <3>1 DEF applyColorFromCcu, Percent
  <2>2. CASE v < 200
    <3>1. v \in 0..199
      BY <2>2
    <3>2. 360 * v \in Ring
      BY <3>1, ColorOnRing
    <3>3. applyColorFromCcu(k, v) = [hue |-> 360 * v, sat |-> 100]
      BY SMT, <1>3, <2>2 DEF applyColorFromCcu
    <3> QED
      BY <3>3, <3>2 DEF Percent
  <2> QED
    BY <2>1, <2>2
<1> QED
  BY <1>1, <1>2, <1>3

-----------------------------------------------------------------------------
(* What a value does to the cache                                          *)

\* It stays in its type.
LEMMA HandleTyped ==
  ASSUME kind \in Kinds, NEW c \in Cached, kind = "weather" => c.lux >= 1,
         NEW dp \in DOMAIN Listened(kind), NEW v \in Legal(dp)
  PROVE  /\ Handle(c, dp, v) \in Cached
         /\ kind = "weather" => Handle(c, dp, v).lux >= 1
<1>i. v \in Int
  BY LegalIs
<1>a. /\ v \in Int /\ normalizeLevelToPercent(v) \in Percent
      /\ tiltAngle(v) \in Angle /\ mired(v) \in Mireds
      /\ round(v) \in Int /\ Humidity(v) \in Percent /\ Charge(v) \in Percent
      /\ Lux(v) \in Int
  BY Zenon, <1>i, ConversionRange
<1>b. Lux(v) >= 1
  BY Zenon, <1>i, ConversionRange
<1>1. CASE kind = "switch"
  <2>1. c \in OnCache /\ dp \in {"STATE"} /\ v \in Bool
    BY <1>1, CachedIs, ListenedIs, LegalIs DEF Rgb
  <2>2. Handle(c, dp, v) = Switch(c, dp, v)
    BY <1>1, HandleIs
  <2>3. Switch(c, dp, v) \in OnCache
    BY Zenon, <1>a, <2>1 DEF Switch, OnCache
  <2> QED
    BY <1>1, <2>2, <2>3, CachedIs DEF Rgb
<1>2. CASE kind = "sensor"
  <2>1. c \in OnCache /\ dp \in {"STATE"} /\ v \in Bool
    BY <1>2, CachedIs, ListenedIs, LegalIs DEF Rgb
  <2>2. Handle(c, dp, v) = Sensor(c, dp, v)
    BY <1>2, HandleIs
  <2>3. Sensor(c, dp, v) \in OnCache
    BY Zenon, <1>a, <2>1 DEF Sensor, OnCache
  <2> QED
    BY <1>2, <2>2, <2>3, CachedIs DEF Rgb
<1>3. CASE kind = "lock"
  <2>1. c \in LockCache /\ dp \in {"STATE", "ERROR"}
    BY <1>3, CachedIs, ListenedIs, LegalIs DEF Rgb
  <2>2. Handle(c, dp, v) = Lock(c, dp, v)
    BY <1>3, HandleIs
  <2>3. Lock(c, dp, v) \in LockCache
    BY SMT, <1>a, <2>1 DEF Lock, LockState, LockCache
  <2> QED
    BY <1>3, <2>2, <2>3, CachedIs
<1>4. CASE kind = "blind"
  <2>1. c \in BlindCache /\ dp \in {"LEVEL", "WORKING"}
    BY <1>4, CachedIs, ListenedIs, LegalIs DEF Rgb
  <2>2. Handle(c, dp, v) = Blind(c, dp, v)
    BY <1>4, HandleIs
  <2>3. Blind(c, dp, v) \in BlindCache
    BY Zenon, <1>a, <2>1 DEF Blind, BlindCache
  <2> QED
    BY <1>4, <2>2, <2>3, CachedIs DEF Rgb
<1>5. CASE kind = "slat"
  <2>1. c \in SlatCache /\ dp \in {"LEVEL", "LEVEL_2", "WORKING"}
    BY <1>5, CachedIs, ListenedIs, LegalIs DEF Rgb
  <2>2. Handle(c, dp, v) = SlatBlind(c, dp, v)
    BY <1>5, HandleIs
  <2>3. SlatBlind(c, dp, v) \in SlatCache
    BY Zenon, <1>a, <2>1 DEF SlatBlind, SlatCache
  <2> QED
    BY <1>5, <2>2, <2>3, CachedIs DEF Rgb
<1>6. CASE kind = "dimmer"
  <2>1. c \in DimmerCache /\ dp \in {"LEVEL"}
    BY <1>6, CachedIs, ListenedIs, LegalIs DEF Rgb
  <2>2. Handle(c, dp, v) = Dimmer(c, dp, v)
    BY <1>6, HandleIs
  <2>3. Dimmer(c, dp, v) \in DimmerCache
    BY Zenon, <1>a, <2>1 DEF Dimmer, DimmerCache
  <2> QED
    BY <1>6, <2>2, <2>3, CachedIs DEF Rgb
<1>7. CASE kind = "coltemp"
  <2>1. c \in ColTempCache /\ dp \in {"LEVEL", "COLTEMP"}
    BY <1>7, CachedIs, ListenedIs, LegalIs DEF Rgb
  <2>2. Handle(c, dp, v) = ColorTempDimmer(c, dp, v)
    BY <1>7, HandleIs
  <2>3. ColorTempDimmer(c, dp, v) \in ColTempCache
    BY Zenon, <1>a, <2>1 DEF ColorTempDimmer, Dimmer, ColTempCache
  <2> QED
    BY <1>7, <2>2, <2>3, CachedIs DEF Rgb
<1>8. CASE kind \in Rgb
  <2>1. c \in RgbCache /\ dp \in {"LEVEL", "COLOR"} /\ (dp = "COLOR" => v \in 0..200)
    BY <1>8, CachedIs, ListenedIs, LegalIs DEF Rgb
  <2>2. Handle(c, dp, v) = RgbLight(c, dp, v)
    BY <1>8, HandleIs
  <2>3. dp = "COLOR" => applyColorFromCcu(kind, v).hue \in Ring /\ applyColorFromCcu(kind, v).sat \in Percent
    BY <2>1, ColorRange
  <2>4. RgbLight(c, dp, v) \in RgbCache
    BY Zenon, <1>a, <2>1, <2>3 DEF RgbLight, Dimmer, RgbCache
  <2> QED
    BY <1>8, <2>2, <2>4, CachedIs DEF Rgb
<1>9. CASE kind = "battery"
  <2>1. c \in BatteryCache /\ dp \in {"LOW_BAT", "OPERATING_VOLTAGE"} /\ (dp = "LOW_BAT" => v \in Bool)
    BY <1>9, CachedIs, ListenedIs, LegalIs DEF Rgb
  <2>2. Handle(c, dp, v) = Battery(c, dp, v)
    BY <1>9, HandleIs
  <2>3. Battery(c, dp, v) \in BatteryCache
    BY Zenon, <1>a, <2>1 DEF Battery, BatteryCache
  <2> QED
    BY <1>9, <2>2, <2>3, CachedIs DEF Rgb
<1>10. CASE kind = "weather"
  <2>1. c \in WeatherCache /\ dp \in {"TEMPERATURE", "HUMIDITY", "ILLUMINATION", "RAINING"} /\ (dp = "RAINING" => v \in Bool)
    BY <1>10, CachedIs, ListenedIs, LegalIs DEF Rgb
  <2>2. Handle(c, dp, v) = Weather(c, dp, v)
    BY <1>10, HandleIs
  <2>3. Weather(c, dp, v) \in WeatherCache
    BY Zenon, <1>a, <2>1 DEF Weather, WeatherCache
  <2>4. Weather(c, dp, v).lux \in {c.lux, Lux(v)}
    BY Zenon, <2>1 DEF Weather, WeatherCache
  <2> QED
    BY <1>b, <1>10, <2>2, <2>3, <2>4, CachedIs
<1>11. CASE kind = "meter"
  <2>1. c \in MeterCache /\ dp \in {"VOLTAGE", "CURRENT", "POWER", "ENERGY_COUNTER"}
    BY <1>11, CachedIs, ListenedIs, LegalIs DEF Rgb
  <2>2. Handle(c, dp, v) = PowerMeter(c, dp, v)
    BY <1>11, HandleIs
  <2>3. PowerMeter(c, dp, v) \in MeterCache
    BY Zenon, <1>a, <2>1 DEF PowerMeter, MeterCache
  <2> QED
    BY <1>11, <2>2, <2>3, CachedIs DEF Rgb
<1>12. CASE kind = "thermostat"
  <2>1. c \in ClimateCache /\ dp \in {"ACTUAL_TEMPERATURE", "SET_TEMPERATURE"}
    BY <1>12, CachedIs, ListenedIs, LegalIs DEF Rgb
  <2>2. Handle(c, dp, v) = Thermostat(c, dp, v)
    BY <1>12, HandleIs
  <2>3. Thermostat(c, dp, v) \in ClimateCache
    BY Zenon, <1>a, <2>1 DEF Thermostat, ClimateCache
  <2> QED
    BY <1>12, <2>2, <2>3, CachedIs DEF Rgb
<1> QED
  BY <1>1, <1>2, <1>3, <1>4, <1>5, <1>6, <1>7, <1>8, <1>9, <1>10, <1>11, <1>12, KindsAssumption DEF Rgb






\* Then the cache says so.
LEMMA HandleSays ==
  ASSUME kind \in Kinds, NEW c \in Cached, NEW dp \in Pulled(kind), NEW v \in Legal(dp)
  PROVE  Says(Handle(c, dp, v), dp, v)
<1>1. dp \in DOMAIN Listened(kind) \ {"ERROR", "WORKING"}
  BY DEF Pulled
<1>2. CASE kind \in {"switch", "sensor"}
  <2>1. c \in OnCache /\ dp = "STATE" /\ Handle(c, dp, v) = [c EXCEPT !.on = v]
    BY <1>1, <1>2, CachedIs, ListenedIs, HandleIs DEF Switch, Sensor
  <2> QED
    BY Zenon, <1>2, <2>1 DEF Says, OnCache, Rgb
<1>3. CASE kind = "lock"
  <2>1. dp = "STATE" /\ Handle(c, dp, v) = [current |-> LockState(v), target |-> LockState(v)]
    BY <1>1, <1>3, CachedIs, ListenedIs, HandleIs DEF Lock
  <2>2. Handle(c, dp, v).current = LockState(v) /\ Handle(c, dp, v).target = LockState(v)
    BY <2>1
  <2> QED
    BY Zenon, <1>3, <2>1, <2>2 DEF Says, Rgb
<1>4. CASE kind = "blind"
  <2>1. dp = "LEVEL" /\ v \in 0..100
    BY <1>1, <1>4, ListenedIs, LegalIs
  <2>2. Handle(c, dp, v) = [current |-> v, target |-> v]
    BY <1>4, <2>1, HandleIs, LevelRange DEF Blind
  <2>3. Handle(c, dp, v).current = v /\ Handle(c, dp, v).target = v
    BY <2>2
  <2> QED
    BY Zenon, <1>4, <2>1, <2>3 DEF Says, Rgb
<1>5. CASE kind = "slat"
  <2>1. dp \in {"LEVEL", "LEVEL_2"} /\ (dp = "LEVEL" => v \in 0..100) /\ c \in SlatCache
    BY <1>1, <1>5, ListenedIs, LegalIs, CachedIs
  <2>h. Handle(c, dp, v) = SlatBlind(c, dp, v)
    BY <1>5, HandleIs
  <2>2. dp = "LEVEL" => Handle(c, dp, v) = [c EXCEPT !.current = v, !.target = v]
    BY <2>1, <2>h, LevelRange DEF SlatBlind
  <2>3. dp = "LEVEL_2" => Handle(c, dp, v) = [c EXCEPT !.currentTilt = tiltAngle(v), !.targetTilt = tiltAngle(v)]
    BY <2>1, <2>h DEF SlatBlind
  <2> QED
    BY Zenon, <1>5, <2>1, <2>2, <2>3 DEF Says, Rgb, SlatCache
<1>6. CASE kind = "dimmer"
  <2>1. dp = "LEVEL" /\ v \in 0..100 /\ c \in DimmerCache
    BY <1>1, <1>6, ListenedIs, LegalIs, CachedIs
  <2>2. Handle(c, dp, v) = [c EXCEPT !.level = v]
    BY <1>6, <2>1, HandleIs, LevelRange DEF Dimmer
  <2> QED
    BY Zenon, <1>6, <2>1, <2>2 DEF Says, Rgb, DimmerCache
<1>7. CASE kind = "coltemp"
  <2>1. dp \in {"LEVEL", "COLTEMP"} /\ (dp = "LEVEL" => v \in 0..100) /\ c \in ColTempCache
    BY <1>1, <1>7, ListenedIs, LegalIs, CachedIs
  <2>2. dp = "LEVEL" => Handle(c, dp, v) = [c EXCEPT !.level = v]
    BY <1>7, <2>1, HandleIs, LevelRange DEF ColorTempDimmer, Dimmer
  <2>3. dp = "COLTEMP" => Handle(c, dp, v) = [c EXCEPT !.mired = mired(v)]
    BY <1>7, <2>1, HandleIs DEF ColorTempDimmer
  <2> QED
    BY Zenon, <1>7, <2>1, <2>2, <2>3 DEF Says, Rgb, ColTempCache
<1>8. CASE kind \in Rgb
  <2> DEFINE a == applyColorFromCcu(kind, v)
  <2>1. dp \in {"LEVEL", "COLOR"} /\ (dp = "LEVEL" => v \in 0..100) /\ c \in RgbCache
        /\ (dp = "COLOR" => v \in 0..200)
    BY <1>1, <1>8, ListenedIs, LegalIs, CachedIs DEF Rgb
  <2>h. Handle(c, dp, v) = RgbLight(c, dp, v)
    BY <1>8, HandleIs
  <2>2. dp = "LEVEL" => Handle(c, dp, v) = [c EXCEPT !.level = v]
    BY <2>1, <2>h, LevelRange DEF RgbLight, Dimmer
  <2>3. dp = "COLOR" => Handle(c, dp, v) = [c EXCEPT !.hue = a.hue, !.sat = a.sat]
    BY Zenon, <2>h DEF RgbLight
  <2>4. a = [hue |-> a.hue, sat |-> a.sat]
    BY Zenon DEF applyColorFromCcu
  <2> HIDE DEF a
  <2>5. CASE dp = "LEVEL"
    BY Zenon, <1>8, <2>1, <2>2, <2>5 DEF Says, Rgb, RgbCache
  <2>6. CASE dp = "COLOR"
    BY Zenon, <1>8, <2>1, <2>3, <2>4, <2>6 DEF Says, Rgb, RgbCache, a
  <2> QED
    BY <2>1, <2>5, <2>6
<1>9. CASE kind \in {"battery", "weather", "meter"}
  <2>1. Handle(Handle(c, dp, v), dp, v) = Handle(c, dp, v)
    <3>1. CASE kind = "battery"
      <4>1. c \in BatteryCache /\ dp \in {"LOW_BAT", "OPERATING_VOLTAGE"}
        BY <1>1, <3>1, CachedIs, ListenedIs
      <4> QED
        BY SMT, <3>1, <4>1, HandleIs DEF Battery, BatteryCache
    <3>2. CASE kind = "weather"
      <4>1. c \in WeatherCache /\ dp \in {"TEMPERATURE", "HUMIDITY", "ILLUMINATION", "RAINING"}
        BY <1>1, <3>2, CachedIs, ListenedIs
      <4> QED
        BY SMT, <3>2, <4>1, HandleIs DEF Weather, WeatherCache
    <3>3. CASE kind = "meter"
      <4>1. c \in MeterCache /\ dp \in {"VOLTAGE", "CURRENT", "POWER", "ENERGY_COUNTER"}
        BY <1>1, <3>3, CachedIs, ListenedIs
      <4>2. Handle(c, dp, v) = PowerMeter(c, dp, v)
        BY <3>3, HandleIs
      <4>3. Handle(Handle(c, dp, v), dp, v) = PowerMeter(Handle(c, dp, v), dp, v)
        BY <3>3, HandleIs
      <4>4. CASE dp = "VOLTAGE"
        <5>1. \A d : PowerMeter(d, dp, v) = [d EXCEPT !.voltage = round(v)]
          BY <4>4 DEF PowerMeter
        <5> QED
          BY SMT, <4>1, <4>2, <4>3, <5>1 DEF MeterCache
      <4>5. CASE dp = "CURRENT"
        <5>1. \A d : PowerMeter(d, dp, v) = [d EXCEPT !.current = round(v)]
          BY <4>5 DEF PowerMeter
        <5> QED
          BY SMT, <4>1, <4>2, <4>3, <5>1 DEF MeterCache
      <4>6. CASE dp = "ENERGY_COUNTER"
        <5>1. \A d : PowerMeter(d, dp, v) = [d EXCEPT !.total = round(v)]
          BY <4>6 DEF PowerMeter
        <5> QED
          BY SMT, <4>1, <4>2, <4>3, <5>1 DEF MeterCache
      <4>7. CASE dp = "POWER"
        <5> DEFINE w(d) == [d EXCEPT !.lastPowerW = v]
        <5>1. \A d : PowerMeter(d, dp, v) = [w(d) EXCEPT !.power = round(v)]
          BY Zenon, <4>7 DEF PowerMeter
        <5>2. w(c) = [voltage |-> c.voltage, current |-> c.current, power |-> c.power,
                      total |-> c.total, lastPowerW |-> v]
          BY SMT, <4>1 DEF MeterCache
        <5> DEFINE p == [voltage |-> c.voltage, current |-> c.current, power |-> round(v),
                         total |-> c.total, lastPowerW |-> v]
        <5>3. w(p) = p /\ [p EXCEPT !.power = round(v)] = p
          BY SMT
        <5> HIDE DEF w
        <5>4. PowerMeter(c, dp, v) = p
          BY SMT, <5>1, <5>2
        <5>5. PowerMeter(p, dp, v) = p
          BY Zenon, <5>1, <5>3
        <5> QED
          BY <4>2, <4>3, <5>4, <5>5
      <4> QED
        BY <4>1, <4>4, <4>5, <4>6, <4>7
    <3> QED
      BY <1>9, <3>1, <3>2, <3>3
  <2>2. dp \notin {"LEVEL", "LEVEL_2", "COLTEMP", "COLOR", "ACTUAL_TEMPERATURE", "SET_TEMPERATURE"}
    BY <1>1, <1>9, ListenedIs
  <2> QED
    BY Zenon, <1>9, <2>1, <2>2 DEF Says, Rgb
<1>10. CASE kind = "thermostat"
  <2>1. dp \in {"ACTUAL_TEMPERATURE", "SET_TEMPERATURE"} /\ c \in ClimateCache
    BY <1>1, <1>10, ListenedIs, CachedIs
  <2>2. dp = "ACTUAL_TEMPERATURE" => Handle(c, dp, v) = [c EXCEPT !.temp = v]
    BY <1>10, HandleIs DEF Thermostat
  <2>3. dp = "SET_TEMPERATURE" => Handle(c, dp, v) = [c EXCEPT !.target = v]
    BY <1>10, HandleIs DEF Thermostat
  <2> QED
    BY Zenon, <1>10, <2>1, <2>2, <2>3 DEF Says, Rgb, ClimateCache
<1> QED
  BY <1>2, <1>3, <1>4, <1>5, <1>6, <1>7, <1>8, <1>9, <1>10, KindsAssumption DEF Rgb

\* Few datapoints share a behaviour with another.
LEMMA Beside ==
  ASSUME kind \in Kinds, NEW G \in Groups(kind), NEW dp \in G, NEW e \in G, e \in Pulled(kind), dp # e
  PROVE  \/ kind = "lock" /\ dp = "ERROR" /\ e = "STATE"
         \/ kind \in {"blind", "slat"} /\ dp = "WORKING" /\ e = "LEVEL"
         \/ kind = "thermostat" /\ dp = "ACTUAL_TEMPERATURE" /\ e = "SET_TEMPERATURE"
         \/ kind = "thermostat" /\ dp = "SET_TEMPERATURE" /\ e = "ACTUAL_TEMPERATURE"
<1>1. dp \in DOMAIN Listened(kind) /\ e \in DOMAIN Listened(kind) \ {"ERROR", "WORKING"}
  BY GroupsIs DEF Pulled
<1>2. CASE kind = "lock"
  BY <1>1, <1>2, ListenedIs
<1>3. CASE kind = "blind"
  BY <1>1, <1>3, ListenedIs
<1>4. CASE kind = "slat"
  BY <1>1, <1>4, GroupsIs
<1>5. CASE kind = "thermostat"
  BY <1>1, <1>5, ListenedIs
<1> QED
  BY <1>2, <1>3, <1>4, <1>5, GroupsIs

\* What it says of another datapoint stays.
LEMMA HandleKeeps ==
  ASSUME kind \in Kinds, NEW c \in Cached, NEW G \in Groups(kind), NEW dp \in G, NEW e \in G,
         e \in Pulled(kind), dp # e, NEW u \in Legal(dp), NEW v, Says(c, e, v)
  PROVE  Says(Handle(c, dp, u), e, v)
<1>1. CASE kind = "lock" /\ dp = "ERROR" /\ e = "STATE"
  <2>1. c \in LockCache /\ Handle(c, dp, u) \in {c, [c EXCEPT !.current = "JAMMED"]}
    <3>1. c \in LockCache /\ Handle(c, dp, u) = Lock(c, dp, u) /\ u \in Int
      BY <1>1, CachedIs, HandleIs, LegalIs
    <3> QED
      BY <1>1, <3>1 DEF Lock
  <2>2. c.target = LockState(v) /\ c.current \in {LockState(v), "JAMMED"}
    BY Zenon, <1>1 DEF Says
  <2> QED
    BY Zenon, <1>1, <2>1, <2>2 DEF Says, Rgb, LockCache
<1>2. CASE kind \in {"blind", "slat"} /\ dp = "WORKING" /\ e = "LEVEL"
  <2>1. Handle(c, dp, u) = c
    <3>1. Handle(c, dp, u) \in {Blind(c, dp, u), SlatBlind(c, dp, u)}
      BY <1>2, HandleIs
    <3> QED
      BY Zenon, <1>2, <3>1 DEF Blind, SlatBlind
  <2> QED
    BY <2>1
<1>3. CASE kind = "thermostat" /\ dp = "ACTUAL_TEMPERATURE" /\ e = "SET_TEMPERATURE"
  <2>1. c \in ClimateCache /\ Handle(c, dp, u) = [c EXCEPT !.temp = u] /\ c.target = v
    BY <1>3, CachedIs, HandleIs DEF Thermostat, Says
  <2> QED
    BY Zenon, <1>3, <2>1 DEF Says, Rgb, ClimateCache
<1>4. CASE kind = "thermostat" /\ dp = "SET_TEMPERATURE" /\ e = "ACTUAL_TEMPERATURE"
  <2>1. c \in ClimateCache /\ Handle(c, dp, u) = [c EXCEPT !.target = u] /\ c.temp = v
    BY <1>4, CachedIs, HandleIs DEF Thermostat, Says
  <2> QED
    BY Zenon, <1>4, <2>1 DEF Says, Rgb, ClimateCache
<1> QED
  BY <1>1, <1>2, <1>3, <1>4, Beside

-----------------------------------------------------------------------------
(* What HomeKit is told of it                                              *)

\* The characteristics do not depend on the cache.
LEMMA SameCharacteristics ==
  ASSUME kind \in Kinds, NEW c, NEW d
  PROVE  /\ DOMAIN Get(kind, c) = DOMAIN Get(kind, d)
         /\ Get(kind, c) = [ch \in DOMAIN Get(kind, c) |-> Get(kind, c)[ch]]
<1>1. CASE kind \in {"switch", "sensor"}
  BY <1>1, GetIs
<1>2. CASE kind = "lock"
  BY <1>2, GetIs
<1>3. CASE kind = "blind"
  BY <1>3, GetIs
<1>4. CASE kind = "slat"
  BY <1>4, GetIs
<1>5. CASE kind = "dimmer"
  BY <1>5, GetIs
<1>6. CASE kind = "coltemp"
  BY <1>6, GetIs
<1>7. CASE kind \in Rgb
  BY <1>7, GetIs
<1>8. CASE kind = "battery"
  BY <1>8, GetIs
<1>9. CASE kind = "weather"
  BY <1>9, GetIs
<1>10. CASE kind = "meter"
  BY <1>10, GetIs
<1>11. CASE kind = "thermostat"
  BY <1>11, GetIs
<1> QED
  BY <1>1, <1>2, <1>3, <1>4, <1>5, <1>6, <1>7, <1>8, <1>9, <1>10, <1>11, KindsAssumption DEF Rgb

\* A level is read in its range.
LEMMA LevelsInRange ==
  ASSUME kind \in Kinds, NEW c \in Cached, NEW ch \in DOMAIN Get(kind, c) \cap Levels
  PROVE  Get(kind, c)[ch] \in Percent
<1> USE DEF Levels
<1>1. CASE kind \in {"switch", "sensor", "lock", "meter", "thermostat"}
  BY <1>1, GetIs
<1>2. CASE kind \in {"blind", "slat"}
  <2>1. c.current \in Percent /\ c.target \in Percent
    <3>1. c \in BlindCache \/ c \in SlatCache
      BY <1>2, CachedIs
    <3> QED
      BY <3>1 DEF BlindCache, SlatCache
  <2> QED
    BY <1>2, <2>1, GetIs
<1>3. CASE kind \in {"dimmer", "coltemp"} \cup Rgb
  <2>1. c.level \in Percent
    <3>1. c \in DimmerCache \/ c \in ColTempCache \/ c \in RgbCache
      BY <1>3, CachedIs
    <3> QED
      BY <3>1 DEF DimmerCache, ColTempCache, RgbCache
  <2> QED
    BY <1>3, <2>1, GetIs
<1>4. CASE kind = "battery"
  <2>1. c.charge \in Percent
    <3>1. c \in BatteryCache
      BY <1>4, CachedIs
    <3> QED
      BY <3>1 DEF BatteryCache
  <2>2. Get(kind, c) = [StatusLowBattery |-> c.low, BatteryLevel |-> c.charge]
    BY <1>4, GetIs
  <2>3. ch = "BatteryLevel"
    BY <2>2
  <2> QED
    BY <2>1, <2>2, <2>3
<1>5. CASE kind = "weather"
  <2>1. c.humidity \in Percent
    <3>1. c \in WeatherCache
      BY <1>5, CachedIs
    <3> QED
      BY <3>1 DEF WeatherCache
  <2>2. Get(kind, c) = [CurrentTemperature |-> c.temp, CurrentRelativeHumidity |-> c.humidity,
                        CurrentAmbientLightLevel |-> c.lux, LeakDetected |-> c.raining]
    BY <1>5, GetIs
  <2>3. ch = "CurrentRelativeHumidity"
    BY <2>2
  <2> QED
    BY <2>1, <2>2, <2>3
<1> QED
  BY <1>1, <1>2, <1>3, <1>4, <1>5, KindsAssumption DEF Rgb

\* What a value changes is pushed, whichever way the value came.
LEMMA ChangesArePushed ==
  ASSUME kind \in Kinds, NEW c \in Cached, DOMAIN shown = DOMAIN Get(kind, c),
         NEW how \in {"event", "pull"}, NEW dp \in DOMAIN Listened(kind), NEW v \in Legal(dp),
         NEW ch \in DOMAIN shown \ {"CurrentMode"}, ch \notin Pushed(how, dp)
  PROVE  Get(kind, Handle(c, dp, v))[ch] = Get(kind, c)[ch]
<1> DEFINE h == Handle(c, dp, v)
<1>1. CASE kind \in {"switch", "sensor"}
  BY <1>1, GetIs, PushedIs
<1>2. CASE kind = "lock"
  <2>1. ch = "LockTargetState" /\ dp # "STATE"
    BY <1>2, GetIs, PushedIs
  <2>2. dp = "ERROR" /\ v \in Int /\ c \in LockCache /\ h = Lock(c, dp, v)
    BY <1>2, <2>1, ListenedIs, LegalIs, HandleIs, CachedIs
  <2>3. h.target = c.target
    BY <2>2 DEF Lock, LockCache
  <2> QED
    BY <1>2, <2>1, <2>3, GetIs
<1>3. CASE kind = "blind"
  <2>1. dp \in {"LEVEL", "WORKING"} /\ Pushed(how, dp) = BlindPushes(dp) /\ h = Blind(c, dp, v)
    BY <1>3, ListenedIs, PushedIs, HandleIs
  <2>2. dp = "WORKING"
    BY <1>3, <2>1, GetIs DEF BlindPushes
  <2>3. h = c
    BY <2>1, <2>2 DEF Blind
  <2> QED
    BY <2>3
<1>4. CASE kind = "slat"
  <2>1. /\ dp \in {"LEVEL", "LEVEL_2", "WORKING"} /\ Pushed(how, dp) = BlindPushes(dp)
        /\ h = SlatBlind(c, dp, v) /\ c \in SlatCache
    BY <1>4, ListenedIs, PushedIs, HandleIs, CachedIs
  <2>2. CASE dp = "WORKING"
    <3>1. h = c
      BY <2>1, <2>2 DEF SlatBlind
    <3> QED
      BY <3>1
  <2>3. CASE dp = "LEVEL"
    <3>1. ch \in {"CurrentTilt", "TargetTilt"}
      BY <1>4, <2>1, <2>3, GetIs DEF BlindPushes
    <3>2. h.currentTilt = c.currentTilt /\ h.targetTilt = c.targetTilt
      BY Zenon, <2>1, <2>3 DEF SlatBlind, SlatCache
    <3> QED
      BY <1>4, <3>1, <3>2, GetIs
  <2>4. CASE dp = "LEVEL_2"
    <3>1. ch \in {"CurrentPosition", "TargetPosition", "PositionState"}
      BY <1>4, <2>1, <2>4, GetIs DEF BlindPushes
    <3>2. h.current = c.current /\ h.target = c.target
      BY Zenon, <2>1, <2>4 DEF SlatBlind, SlatCache
    <3> QED
      BY <1>4, <3>1, <3>2, GetIs DEF derivePositionState
  <2> QED
    BY <2>1, <2>2, <2>3, <2>4
<1>5. CASE kind = "dimmer"
  BY <1>5, ListenedIs, GetIs, PushedIs DEF LightPushes
<1>6. CASE kind = "coltemp"
  <2>1. /\ dp \in {"LEVEL", "COLTEMP"} /\ h = ColorTempDimmer(c, dp, v) /\ c \in ColTempCache
        /\ Pushed(how, dp) = IF dp = "LEVEL" THEN LightPushes ELSE DOMAIN shown \ {"On", "Brightness"}
    BY <1>6, ListenedIs, HandleIs, CachedIs, PushedIs
  <2>2. CASE dp = "LEVEL"
    <3>1. ch = "ColorTemperature"
      BY <1>6, <2>1, <2>2, GetIs DEF LightPushes
    <3>2. h.mired = c.mired
      BY Zenon, <2>1, <2>2 DEF ColorTempDimmer, Dimmer, ColTempCache
    <3> QED
      BY <1>6, <3>1, <3>2, GetIs
  <2>3. CASE dp = "COLTEMP"
    <3>1. ch \in {"On", "Brightness"}
      BY <2>1, <2>3
    <3>2. h.level = c.level
      BY Zenon, <2>1, <2>3 DEF ColorTempDimmer, ColTempCache
    <3> QED
      BY <1>6, <3>1, <3>2, GetIs
  <2> QED
    BY <2>1, <2>2, <2>3
<1>7. CASE kind \in Rgb
  <2>1. /\ dp \in {"LEVEL", "COLOR"} /\ h = RgbLight(c, dp, v) /\ c \in RgbCache
        /\ Pushed(how, dp) = IF dp = "LEVEL" THEN LightPushes ELSE DOMAIN shown \ {"On", "Brightness"}
    BY <1>7, ListenedIs, HandleIs, CachedIs, PushedIs
  <2>2. CASE dp = "LEVEL"
    <3>1. ch \in {"Hue", "Saturation"}
      BY <1>7, <2>1, <2>2, GetIs DEF LightPushes
    <3>2. h.hue = c.hue /\ h.sat = c.sat
      BY Zenon, <2>1, <2>2 DEF RgbLight, Dimmer, RgbCache
    <3> QED
      BY <1>7, <3>1, <3>2, GetIs
  <2>3. CASE dp = "COLOR"
    <3>1. ch \in {"On", "Brightness"}
      BY <2>1, <2>3
    <3>2. h.level = c.level
      BY Zenon, <2>1, <2>3 DEF RgbLight, RgbCache
    <3> QED
      BY <1>7, <3>1, <3>2, GetIs
  <2> QED
    BY <2>1, <2>2, <2>3
<1>8. CASE kind = "battery"
  <2>1. /\ dp \in {"LOW_BAT", "OPERATING_VOLTAGE"} /\ h = Battery(c, dp, v) /\ c \in BatteryCache
        /\ Pushed(how, dp) = MeasurementPushes(dp)
    BY <1>8, ListenedIs, HandleIs, CachedIs, PushedIs
  <2>2. CASE dp = "LOW_BAT"
    <3>1. ch = "BatteryLevel" /\ h.charge = c.charge
      BY <1>8, <2>1, <2>2, GetIs DEF MeasurementPushes, Battery, BatteryCache
    <3> QED
      BY <1>8, <3>1, GetIs
  <2>3. CASE dp = "OPERATING_VOLTAGE"
    <3>1. ch = "StatusLowBattery" /\ h.low = c.low
      BY <1>8, <2>1, <2>3, GetIs DEF MeasurementPushes, Battery, BatteryCache
    <3> QED
      BY <1>8, <3>1, GetIs
  <2> QED
    BY <2>1, <2>2, <2>3
<1>9. CASE kind = "weather"
  <2>1. /\ dp \in {"TEMPERATURE", "HUMIDITY", "ILLUMINATION", "RAINING"} /\ h = Weather(c, dp, v)
        /\ c \in WeatherCache /\ Pushed(how, dp) = MeasurementPushes(dp)
    BY <1>9, ListenedIs, HandleIs, CachedIs, PushedIs
  <2>2. /\ ch = "CurrentTemperature" => dp # "TEMPERATURE" /\ h.temp = c.temp
        /\ ch = "CurrentRelativeHumidity" => dp # "HUMIDITY" /\ h.humidity = c.humidity
        /\ ch = "CurrentAmbientLightLevel" => dp # "ILLUMINATION" /\ h.lux = c.lux
        /\ ch = "LeakDetected" => dp # "RAINING" /\ h.raining = c.raining
    BY SMT, <2>1 DEF MeasurementPushes, Weather, WeatherCache
  <2> QED
    BY <1>9, <2>2, GetIs
<1>10. CASE kind = "meter"
  <2>1. /\ dp \in {"VOLTAGE", "CURRENT", "POWER", "ENERGY_COUNTER"} /\ h = PowerMeter(c, dp, v)
        /\ c \in MeterCache /\ Pushed(how, dp) = MeasurementPushes(dp)
    BY <1>10, ListenedIs, HandleIs, CachedIs, PushedIs
  <2>2. /\ ch = "Voltage" => h.voltage = c.voltage
        /\ ch = "ElectricCurrent" => h.current = c.current
        /\ ch = "Consumption" => h.power = c.power
        /\ ch = "TotalConsumption" => h.total = c.total
        /\ ch \in {"On", "OutletInUse"} => h.lastPowerW = c.lastPowerW
    BY SMT, <2>1 DEF MeasurementPushes, PowerMeter, MeterCache
  <2> QED
    BY <1>10, <2>2, GetIs
<1>11. CASE kind = "thermostat"
  <2>1. /\ dp \in {"ACTUAL_TEMPERATURE", "SET_TEMPERATURE"} /\ h = Thermostat(c, dp, v)
        /\ c \in ClimateCache /\ Pushed(how, dp) = ThermostatPushes(how, dp)
    BY <1>11, ListenedIs, HandleIs, CachedIs, PushedIs
  <2>2. /\ ch = "CurrentTemperature" => h.temp = c.temp
        /\ ch = "TargetTemperature" => h.target = c.target
        /\ h.mode = c.mode
    BY SMT, <2>1 DEF ThermostatPushes, Thermostat, ClimateCache
  <2> QED
    BY <1>11, <2>2, GetIs
<1> QED
  BY <1>1, <1>2, <1>3, <1>4, <1>5, <1>6, <1>7, <1>8, <1>9, <1>10, <1>11, KindsAssumption DEF Rgb

\* An event pushes nothing that a pull does not, but for the thermostat's mode.
LEMMA PullPushesToo ==
  ASSUME kind \in Kinds, NEW dp \in Pulled(kind)
  PROVE  Pushed("event", dp) \ {"CurrentMode"} \subseteq Pushed("pull", dp)
<1>1. CASE kind = "thermostat"
  <2>1. dp \in {"ACTUAL_TEMPERATURE", "SET_TEMPERATURE"}
    BY <1>1, ListenedIs DEF Pulled
  <2> QED
    BY <1>1, <2>1, PushedIs DEF ThermostatPushes
<1>2. CASE kind # "thermostat"
  BY <1>2, KindsAssumption DEF Pushed, Rgb
<1> QED
  BY <1>1, <1>2

\* WORKING pushes the position's state, which LEVEL pushes too; a blind at its
\* target has stopped.
LEMMA Working ==
  ASSUME kind \in Kinds, NEW G \in Groups(kind), "WORKING" \in G, NEW how, NEW c \in Cached, NEW v
  PROVE  /\ Pushed(how, "WORKING") = {"PositionState"} /\ Handle(c, "WORKING", v) = c
         /\ "LEVEL" \in G \cap Pulled(kind) /\ "PositionState" \in Pushed("event", "LEVEL")
         /\ \A u : Says(c, "LEVEL", u) => Get(kind, c)["PositionState"] = "STOPPED"
<1>1. kind \in {"blind", "slat"} /\ "LEVEL" \in G \cap Pulled(kind)
  <2>1. "WORKING" \in DOMAIN Listened(kind) /\ kind # "slat" => kind = "blind"
    BY ListenedIs, KindsAssumption DEF Rgb
  <2>2. kind \in {"blind", "slat"}
    BY <2>1, GroupsIs
  <2>3. "LEVEL" \in G /\ G \subseteq DOMAIN Listened(kind)
    BY <2>2, GroupsIs, ListenedIs
  <2> QED
    BY <2>2, <2>3 DEF Pulled
<1>2. Pushed(how, "WORKING") = {"PositionState"} /\ "PositionState" \in Pushed("event", "LEVEL")
  BY <1>1, PushedIs DEF BlindPushes
<1>3. Handle(c, "WORKING", v) = c
  <2>1. Handle(c, "WORKING", v) \in {Blind(c, "WORKING", v), SlatBlind(c, "WORKING", v)}
    BY <1>1, HandleIs
  <2> QED
    BY Zenon, <2>1 DEF Blind, SlatBlind
<1>4. ASSUME NEW u, Says(c, "LEVEL", u)
      PROVE  Get(kind, c)["PositionState"] = "STOPPED"
  <2>1. c.current = c.target /\ c.current \in Percent
    <3>1. c \in BlindCache \/ c \in SlatCache
      BY <1>1, CachedIs
    <3>2. c.current = u /\ c.target = u
      BY Zenon, <1>1, <1>4 DEF Says
    <3> QED
      BY <3>1, <3>2 DEF BlindCache, SlatCache
  <2>2. derivePositionState(c) = "STOPPED"
    BY <2>1 DEF derivePositionState, Percent
  <2> QED
    BY <1>1, <2>2, GetIs
<1> QED
  BY <1>1, <1>2, <1>3, <1>4

-----------------------------------------------------------------------------
(* What HomeKit sets                                                       *)

\* A set of numbers has a least one.
LEMMA LeastOf ==
  ASSUME NEW S, S \subseteq Nat, S # {}
  PROVE  \E x \in S : \A y \in S : x <= y
<1> DEFINE R == OpToRel(<, Nat)
<1>1. \A x, y \in Nat : y < x => <<y, x>> \in R
  BY DEF OpToRel
<1>2. \E x \in S : \A y \in S : <<y, x>> \notin R
  <2> HIDE DEF R
  <2>1. IsWellFoundedOn(R, Nat)
    BY NatLessThanWellFounded DEF R
  <2> QED
    BY <2>1, WFMin
<1> HIDE DEF R
<1>3. PICK x \in S : \A y \in S : <<y, x>> \notin R
  BY <1>2
<1>4. ASSUME NEW y \in S
      PROVE  x <= y
  <2>1. x \in Nat /\ y \in Nat /\ ~(y < x)
    BY <1>1, <1>3
  <2> QED
    BY <2>1
<1> QED
  BY <1>4

\* Every hue has a nearest colour, and a first one of these.
LEMMA SnapRange ==
  ASSUME NEW hue \in Ring, NEW sat \in Percent
  PROVE  snapHueToBslIndex(hue, sat) \in 1..7
<1> DEFINE D(i) == hueDistance(hue, i)
           F(i) == 7 * D(i) + i
<1>1. ASSUME NEW i \in 1..6
      PROVE  D(i) \in Nat
  <2>1. HMIP_BSL_COLOR_TO_HUE[i] \in 0..360
    BY BslHues
  <2> DEFINE t == 199 * HMIP_BSL_COLOR_TO_HUE[i]
  <2>2. t \in Ring
    BY <2>1, OnRing
  <2> HIDE DEF t
  <2> DEFINE d == hue - t
             a == IF d < 0 THEN -d ELSE d
  <2>3. d \in Int /\ -FullTurn <= d /\ d <= FullTurn
    BY <2>2, RingIs, TurnIs
  <2>4. a \in Nat /\ a <= FullTurn
    <3> HIDE DEF d
    <3> QED
      BY SMT, <2>3, TurnIs
  <2>5. D(i) = IF a < FullTurn - a THEN a ELSE FullTurn - a
    BY DEF hueDistance, t
  <2> HIDE DEF a, D
  <2> QED
    BY SMT, <2>4, <2>5, TurnIs
<1> HIDE DEF D
<1>2. {F(i) : i \in 1..6} \subseteq Nat /\ {F(i) : i \in 1..6} # {}
  <2>1. \A i \in 1..6 : F(i) \in Nat
    BY <1>1
  <2>2. 1 \in 1..6
    OBVIOUS
  <2> HIDE DEF F
  <2> QED
    BY Zenon, <2>1, <2>2
<1>3. PICK i \in 1..6 : \A j \in 1..6 : F(i) <= F(j)
  <2> HIDE DEF F
  <2>1. \E x \in {F(k) : k \in 1..6} : \A y \in {F(k) : k \in 1..6} : x <= y
    BY <1>2, LeastOf
  <2> QED
    BY Zenon, <2>1
<1>4. \A j \in 1..6 : D(i) <= D(j) /\ (j < i => D(i) < D(j))
  BY <1>1, <1>3
<1>5. \A j \in 1..(i - 1) : j \in 1..6 /\ j < i
  OBVIOUS
<1>6. CASE sat >= 10
  <2>1. \E k \in 1..6 : /\ \A j \in 1..6 : hueDistance(hue, k) <= hueDistance(hue, j)
                        /\ \A j \in 1..(k - 1) : hueDistance(hue, k) < hueDistance(hue, j)
    <3>1. /\ \A j \in 1..6 : hueDistance(hue, i) <= hueDistance(hue, j)
          /\ \A j \in 1..(i - 1) : hueDistance(hue, i) < hueDistance(hue, j)
      BY <1>4, <1>5 DEF D
    <3> QED
      BY Zenon, <3>1
  <2>2. ~(sat < 10)
    BY <1>6 DEF Percent
  <2>3. snapHueToBslIndex(hue, sat) \in 1..6
    BY Zenon, <2>1, <2>2 DEF snapHueToBslIndex
  <2> QED
    BY <2>3
<1>7. CASE sat < 10
  BY <1>7 DEF snapHueToBslIndex
<1> QED
  BY <1>6, <1>7 DEF Percent

\* Whatever the hue and saturation, what is written is a colour.
LEMMA WriteColorRange ==
  ASSUME NEW c, c.hue \in Ring, c.sat \in Percent
  PROVE  writeColor(kind, c) \in IF kind = "bsl" THEN 1..7 ELSE 0..200
<1>1. CASE kind = "bsl"
  BY <1>1, SnapRange DEF writeColor
<1>2. CASE kind # "bsl"
  <2>1. c.hue \in Int /\ 0 <= c.hue /\ c.hue <= 71640
    BY RingIs DEF FullTurn
  <2>2. (c.hue + 180) \div 360 \in 0..200
    BY SMT, <2>1
  <2>3. c.sat \in Int
    BY DEF Percent
  <2> QED
    BY SMT, <1>2, <2>2, <2>3 DEF writeColor
<1> QED
  BY <1>1, <1>2

\* The part of the types that a set depends on.
Steady ==
  /\ kind \in Kinds /\ cache \in Cached
  /\ DOMAIN shown = DOMAIN Get(kind, cache) /\ DOMAIN device \in Groups(kind)

\* What holds of a write w that HomeKit's set sends and the cache c it leaves.
GoodSet(w, c) ==
  /\ c \in Cached /\ kind # "weather" /\ GoodWrite(w)
  /\ w.char \in DOMAIN shown /\ (w.char \in Levels => w.asked \in Percent)
  /\ \A e \in DOMAIN device \cap Pulled(kind) : \A u :
       e # Reaches(w) /\ Says(cache, e, u) => Says(c, e, u)
  /\ \A ch \in DOMAIN shown \ {"CurrentMode"} :
       \/ Reaches(w) \in Pulled(kind) /\ ch \in Pushed("event", Reaches(w))
       \/ IF ch = w.char THEN Get(kind, c)[ch] = w.asked ELSE Get(kind, c)[ch] = Get(kind, cache)[ch]

\* Is dp set in the behaviour, nothing else is pulled, but for the thermostat.
LEMMA Alone ==
  ASSUME Steady, kind # "thermostat", NEW dp \in DOMAIN device \ {"ERROR", "WORKING"},
         NEW e \in DOMAIN device \cap Pulled(kind)
  PROVE  e = dp
BY Beside DEF Steady

\* What may be written to which datapoint.
LEMMA MayWrite ==
  ASSUME NEW v
  PROVE  /\ v \in Bool => v \in Legal("STATE")
         /\ v \in Percent => v \in Legal("LEVEL")
         /\ v \in {0, 450, 900} => v \in Legal("LEVEL_2")
         /\ v \in {0, 595, 1800} => v \in Legal("COLTEMP")
         /\ v \in 0..200 => v \in Legal("COLOR")
         /\ v \in Int => v \in Legal("SET_TEMPERATURE")
BY SMT DEF Legal, Percent

LEMMA SwitchSetsGood ==
  ASSUME Steady, kind = "switch", NEW v \in Bool, "STATE" \in DOMAIN device
  PROVE  GoodSet(Write("On", v, "STATE", v), [cache EXCEPT !.on = v])
<1> DEFINE w == Write("On", v, "STATE", v)
           c == [cache EXCEPT !.on = v]
<1>1. w.char = "On" /\ w.asked = v /\ w.dp = "STATE" /\ w.raw = v /\ Reaches(w) = "STATE"
  BY DEF Write, Reaches
<1>2. c \in Cached
  <2>1. cache \in OnCache /\ Cached = OnCache
    BY CachedIs DEF Steady
  <2> QED
    BY Zenon, <2>1 DEF OnCache
<1>3. GoodWrite(w)
  BY <1>1, MayWrite DEF GoodWrite
<1> HIDE DEF w, c
<1>4. DOMAIN shown = {"On"} /\ Pushed("event", "STATE") = {"On"} /\ "STATE" \in Pulled(kind)
  BY GetIs, PushedIs, ListenedIs DEF Steady, Pulled
<1>5. \A e \in DOMAIN device \cap Pulled(kind) : e = "STATE"
  BY Alone
<1> QED
  BY Zenon, <1>1, <1>2, <1>3, <1>4, <1>5 DEF GoodSet, Levels, w, c

LEMMA LockSetsGood ==
  ASSUME Steady, kind = "lock", NEW v \in Bool, "STATE" \in DOMAIN device
  PROVE  GoodSet(Write("LockTargetState", LockState(v), "STATE", v), [cache EXCEPT !.target = LockState(v)])
<1> DEFINE w == Write("LockTargetState", LockState(v), "STATE", v)
           c == [cache EXCEPT !.target = LockState(v)]
<1>1. w.char = "LockTargetState" /\ w.dp = "STATE" /\ w.raw = v /\ Reaches(w) = "STATE"
  BY DEF Write, Reaches
<1>2. c \in Cached
  <2>1. LockState(v) \in {"SECURED", "UNSECURED"}
    BY DEF LockState
  <2>2. cache \in LockCache /\ Cached = LockCache
    BY CachedIs DEF Steady
  <2> QED
    BY Zenon, <2>1, <2>2 DEF LockCache
<1>3. GoodWrite(w)
  BY <1>1, MayWrite DEF GoodWrite
<1> HIDE DEF w, c
<1>4. /\ DOMAIN shown = {"LockCurrentState", "LockTargetState"} /\ "STATE" \in Pulled(kind)
      /\ Pushed("event", "STATE") = {"LockCurrentState", "LockTargetState"}
  BY GetIs, PushedIs, ListenedIs DEF Steady, Pulled
<1>5. \A e \in DOMAIN device \cap Pulled(kind) : e = "STATE"
  BY Alone
<1> QED
  BY Zenon, <1>1, <1>2, <1>3, <1>4, <1>5 DEF GoodSet, Levels, w, c

LEMMA BlindSetsGood ==
  ASSUME Steady, kind \in {"blind", "slat"}, NEW v \in Percent, NEW r \in Percent, NEW a \in Percent,
         "LEVEL" \in DOMAIN device
  PROVE  GoodSet(Write("TargetPosition", a, "LEVEL", r), [cache EXCEPT !.target = v])
<1> DEFINE w == Write("TargetPosition", a, "LEVEL", r)
           c == [cache EXCEPT !.target = v]
<1>1. w.char = "TargetPosition" /\ w.asked = a /\ w.dp = "LEVEL" /\ w.raw = r /\ Reaches(w) = "LEVEL"
  BY DEF Write, Reaches
<1>2. c \in Cached
  <2>1. \/ cache \in BlindCache /\ Cached = BlindCache
        \/ cache \in SlatCache /\ Cached = SlatCache
    BY CachedIs DEF Steady
  <2> QED
    BY Zenon, <2>1 DEF BlindCache, SlatCache
<1>3. GoodWrite(w)
  BY <1>1, MayWrite DEF GoodWrite
<1> HIDE DEF w
<1>4. /\ "TargetPosition" \in DOMAIN shown /\ "LEVEL" \in Pulled(kind)
      /\ Pushed("event", "LEVEL") = {"CurrentPosition", "TargetPosition", "PositionState"}
  BY GetIs, PushedIs, ListenedIs DEF Steady, Pulled, BlindPushes
<1>5. \A e \in DOMAIN device \cap Pulled(kind) : e = "LEVEL"
  BY Alone
<1>6. ASSUME NEW ch \in DOMAIN shown, ch \notin Pushed("event", "LEVEL")
      PROVE  Get(kind, c)[ch] = Get(kind, cache)[ch] /\ ch # "TargetPosition"
  <2>1. kind = "slat" /\ ch \in {"CurrentTilt", "TargetTilt"} /\ cache \in SlatCache
    BY <1>4, <1>6, GetIs, CachedIs DEF Steady
  <2>2. c.currentTilt = cache.currentTilt /\ c.targetTilt = cache.targetTilt
    BY Zenon, <2>1 DEF SlatCache
  <2> HIDE DEF c
  <2> QED
    BY <2>1, <2>2, GetIs
<1> HIDE DEF c
<1>7. kind # "weather" /\ "TargetPosition" \in DOMAIN shown
  BY <1>4
<1> QED
  BY Zenon, <1>1, <1>2, <1>3, <1>4, <1>5, <1>6, <1>7 DEF GoodSet, w, c

LEMMA TiltSetsGood ==
  ASSUME Steady, kind = "slat", NEW a \in {-90, 0, 90}, "LEVEL_2" \in DOMAIN device
  PROVE  GoodSet(Write("TargetTilt", a, "LEVEL_2", tiltFraction(a)), [cache EXCEPT !.targetTilt = a])
<1> DEFINE w == Write("TargetTilt", a, "LEVEL_2", tiltFraction(a))
           c == [cache EXCEPT !.targetTilt = a]
<1>1. /\ w.char = "TargetTilt" /\ w.asked = a /\ w.dp = "LEVEL_2" /\ w.raw = tiltFraction(a)
      /\ Reaches(w) = "LEVEL_2"
  BY DEF Write, Reaches
<1>2. cache \in SlatCache /\ Cached = SlatCache /\ c \in Cached
  <2>1. cache \in SlatCache /\ Cached = SlatCache
    BY CachedIs DEF Steady
  <2>2. a \in Angle
    BY SMT DEF Angle
  <2> QED
    BY Zenon, <2>1, <2>2 DEF SlatCache
<1>3. GoodWrite(w)
  <2>1. tiltFraction(a) \in {0, 450, 900}
    BY SMT DEF tiltFraction
  <2> QED
    BY <1>1, <2>1, MayWrite DEF GoodWrite
<1> HIDE DEF w
<1>4. /\ DOMAIN shown = {"CurrentPosition", "TargetPosition", "PositionState", "CurrentTilt", "TargetTilt"}
      /\ Pushed("event", "LEVEL_2") = {"CurrentTilt", "TargetTilt"} /\ "LEVEL_2" \in Pulled(kind)
  BY GetIs, PushedIs, ListenedIs DEF Steady, Pulled, BlindPushes
<1>5. \A e \in DOMAIN device \cap Pulled(kind) : e = "LEVEL_2"
  BY Alone
<1>6. ASSUME NEW ch \in DOMAIN shown, ch \notin Pushed("event", "LEVEL_2")
      PROVE  Get(kind, c)[ch] = Get(kind, cache)[ch] /\ ch # "TargetTilt"
  <2>1. ch \in {"CurrentPosition", "TargetPosition", "PositionState"}
    BY <1>4, <1>6
  <2>2. c.current = cache.current /\ c.target = cache.target
    BY Zenon, <1>2 DEF SlatCache
  <2> HIDE DEF c
  <2> QED
    BY <2>1, <2>2, GetIs DEF derivePositionState
<1> HIDE DEF c
<1>7. kind # "weather" /\ "TargetTilt" \in DOMAIN shown /\ "TargetTilt" \notin Levels
  BY <1>4 DEF Levels
<1> QED
  BY Zenon, <1>1, <1>2, <1>3, <1>4, <1>5, <1>6, <1>7 DEF GoodSet, w, c

\* Of On a light keeps nothing, of Brightness the level.
LEMMA LightSetsGood ==
  ASSUME Steady, kind \in {"dimmer", "coltemp"} \cup Rgb, NEW r \in Percent, NEW a, NEW c,
         NEW char \in {"On", "Brightness"}, char = "Brightness" => a \in Percent,
         c = cache \/ \E v \in Percent : c = [cache EXCEPT !.level = v],
         "LEVEL" \in DOMAIN device
  PROVE  GoodSet(Write(char, a, "LEVEL", r), c)
<1> DEFINE w == Write(char, a, "LEVEL", r)
<1>1. w.char = char /\ w.asked = a /\ w.dp = "LEVEL" /\ w.raw = r /\ Reaches(w) = "LEVEL"
  BY DEF Write, Reaches
<1>2. c \in Cached /\ (kind = "coltemp" => c.mired = cache.mired)
      /\ (kind \in Rgb => c.hue = cache.hue /\ c.sat = cache.sat)
  <2>1. CASE kind = "dimmer"
    <3>1. cache \in DimmerCache /\ Cached = DimmerCache /\ kind \notin {"coltemp"} \cup Rgb
      BY <2>1, CachedIs DEF Steady, Rgb
    <3> QED
      BY Zenon, <3>1 DEF DimmerCache
  <2>2. CASE kind = "coltemp"
    <3>1. cache \in ColTempCache /\ Cached = ColTempCache /\ kind \notin Rgb
      BY <2>2, CachedIs DEF Steady, Rgb
    <3> QED
      BY Zenon, <3>1 DEF ColTempCache
  <2>3. CASE kind \in Rgb
    <3>1. cache \in RgbCache /\ Cached = RgbCache /\ kind # "coltemp"
      BY <2>3, CachedIs DEF Steady, Rgb
    <3> QED
      BY Zenon, <3>1 DEF RgbCache
  <2> QED
    BY <2>1, <2>2, <2>3
<1>3. GoodWrite(w)
  BY <1>1, MayWrite DEF GoodWrite
<1> HIDE DEF w
<1>4. /\ {"On", "Brightness"} \subseteq DOMAIN shown /\ "LEVEL" \in Pulled(kind)
      /\ Pushed("event", "LEVEL") = {"On", "Brightness"}
  BY GetIs, PushedIs, ListenedIs DEF Steady, Pulled, LightPushes
<1>5. \A e \in DOMAIN device \cap Pulled(kind) : e = "LEVEL"
  BY Alone DEF Rgb
<1>6. ASSUME NEW ch \in DOMAIN shown, ch \notin Pushed("event", "LEVEL")
      PROVE  Get(kind, c)[ch] = Get(kind, cache)[ch] /\ ch # char
  <2>1. CASE kind = "dimmer"
    BY <1>4, <1>6, <2>1, GetIs DEF Steady
  <2>2. CASE kind = "coltemp"
    <3>1. ch = "ColorTemperature"
      BY <1>4, <1>6, <2>2, GetIs DEF Steady
    <3> QED
      BY <1>2, <2>2, <3>1, GetIs
  <2>3. CASE kind \in Rgb
    <3>1. ch \in {"Hue", "Saturation"}
      BY <1>4, <1>6, <2>3, GetIs DEF Steady
    <3> QED
      BY <1>2, <2>3, <3>1, GetIs
  <2> QED
    BY <2>1, <2>2, <2>3
<1>7. kind # "weather" /\ char \in DOMAIN shown /\ (char \in Levels => char = "Brightness")
  BY <1>4 DEF Levels, Rgb
<1> QED
  BY Zenon, <1>1, <1>2, <1>3, <1>4, <1>5, <1>6, <1>7 DEF GoodSet, w

LEMMA ColorTempSetsGood ==
  ASSUME Steady, kind = "coltemp", NEW m \in Mireds, NEW r \in Legal("COLTEMP"),
         "COLTEMP" \in DOMAIN device
  PROVE  GoodSet(Write("ColorTemperature", m, "COLTEMP", r), [cache EXCEPT !.mired = m])
<1> DEFINE w == Write("ColorTemperature", m, "COLTEMP", r)
           c == [cache EXCEPT !.mired = m]
<1>1. /\ w.char = "ColorTemperature" /\ w.asked = m /\ w.dp = "COLTEMP" /\ w.raw = r
      /\ Reaches(w) = "COLTEMP"
  BY DEF Write, Reaches
<1>3. GoodWrite(w)
  BY <1>1 DEF GoodWrite
<1> HIDE DEF w
<1>4. cache \in ColTempCache /\ Cached = ColTempCache
  BY CachedIs DEF Steady
<1>5. c \in Cached /\ c.level = cache.level
  BY Zenon, <1>4 DEF ColTempCache
<1> HIDE DEF c
<1>6. /\ DOMAIN shown = {"On", "Brightness", "ColorTemperature"} /\ "COLTEMP" \in Pulled(kind)
      /\ Pushed("event", "COLTEMP") = {"ColorTemperature"}
  BY GetIs, PushedIs, ListenedIs DEF Steady, Pulled
<1>7. \A e \in DOMAIN device \cap Pulled(kind) : e = "COLTEMP"
  BY Alone
<1>8. ASSUME NEW ch \in DOMAIN shown, ch \notin Pushed("event", "COLTEMP")
      PROVE  Get(kind, c)[ch] = Get(kind, cache)[ch] /\ ch # "ColorTemperature"
  BY <1>5, <1>6, <1>8, GetIs
<1>9. kind # "weather" /\ "ColorTemperature" \in DOMAIN shown /\ "ColorTemperature" \notin Levels
  BY <1>6 DEF Levels
<1> QED
  BY Zenon, <1>1, <1>3, <1>5, <1>6, <1>7, <1>8, <1>9 DEF GoodSet, w, c

\* Hue and saturation are set one by one, and the colour of both is written.
LEMMA ColorSetsGood ==
  ASSUME Steady, kind \in Rgb, NEW char \in {"Hue", "Saturation"}, NEW a, NEW c,
         \/ \E x \in Ring : c = [cache EXCEPT !.hue = x]
         \/ \E x \in Percent : c = [cache EXCEPT !.sat = x],
         "COLOR" \in DOMAIN device
  PROVE  GoodSet(Write(char, a, "COLOR", writeColor(kind, c)), c)
<1> DEFINE w == Write(char, a, "COLOR", writeColor(kind, c))
<1>1. cache \in RgbCache /\ Cached = RgbCache
  BY CachedIs DEF Steady, Rgb
<1>2. c \in Cached /\ c.level = cache.level /\ c.hue \in Ring /\ c.sat \in Percent
  BY Zenon, <1>1 DEF RgbCache
<1>3. writeColor(kind, c) \in IF kind = "bsl" THEN 1..7 ELSE 0..200
  BY <1>2, WriteColorRange
<1>4. /\ w.char = char /\ w.dp = "COLOR" /\ w.raw = writeColor(kind, c) /\ Reaches(w) = "COLOR"
  BY DEF Write, Reaches
<1>5. GoodWrite(w)
  <2>1. writeColor(kind, c) \in 0..200
    BY <1>3
  <2> QED
    BY <1>3, <1>4, <2>1, MayWrite DEF GoodWrite
<1> HIDE DEF w
<1>6. /\ DOMAIN shown = {"On", "Brightness", "Hue", "Saturation"} /\ "COLOR" \in Pulled(kind)
      /\ Pushed("event", "COLOR") = {"Hue", "Saturation"}
  BY GetIs, PushedIs, ListenedIs DEF Steady, Pulled
<1>7. \A e \in DOMAIN device \cap Pulled(kind) : e = "COLOR"
  BY Alone DEF Rgb
<1>8. ASSUME NEW ch \in DOMAIN shown, ch \notin Pushed("event", "COLOR")
      PROVE  Get(kind, c)[ch] = Get(kind, cache)[ch] /\ ch # char
  BY <1>2, <1>6, <1>8, GetIs
<1>9. kind # "weather" /\ char \in DOMAIN shown /\ char \notin Levels
  BY <1>6 DEF Levels, Rgb
<1> QED
  BY Zenon, <1>2, <1>4, <1>5, <1>6, <1>7, <1>8, <1>9 DEF GoodSet, w

\* The temperature a thermostat is set to.
LEMMA TemperatureSetsGood ==
  ASSUME Steady, kind = "thermostat", NEW v \in Int
  PROVE  GoodSet(Write("TargetTemperature", v, "SET_TEMPERATURE", v), [cache EXCEPT !.target = v])
<1> DEFINE w == Write("TargetTemperature", v, "SET_TEMPERATURE", v)
           c == [cache EXCEPT !.target = v]
<1>1. /\ w.char = "TargetTemperature" /\ w.dp = "SET_TEMPERATURE" /\ w.raw = v
      /\ Reaches(w) = "SET_TEMPERATURE"
  BY DEF Write, Reaches
<1>2. cache \in ClimateCache /\ Cached = ClimateCache
  BY CachedIs DEF Steady
<1>3. c \in Cached /\ c.temp = cache.temp /\ c.mode = cache.mode
  BY Zenon, <1>2 DEF ClimateCache
<1> HIDE DEF c
<1>4. DOMAIN device = {"ACTUAL_TEMPERATURE", "SET_TEMPERATURE"} /\ "SET_TEMPERATURE" \in Pulled(kind)
  BY GroupsIs, ListenedIs DEF Steady, Pulled
<1>5. GoodWrite(w)
  BY <1>1, <1>4, MayWrite DEF GoodWrite
<1> HIDE DEF w
<1>6. /\ DOMAIN shown = {"CurrentTemperature", "TargetTemperature", "TargetMode", "CurrentMode"}
      /\ Pushed("event", "SET_TEMPERATURE") = {"TargetTemperature"}
  BY GetIs, PushedIs DEF Steady, ThermostatPushes
<1>7. ASSUME NEW e \in DOMAIN device, e # "SET_TEMPERATURE", NEW u, Says(cache, e, u)
      PROVE  Says(c, e, u)
  <2>1. e = "ACTUAL_TEMPERATURE" /\ cache.temp = u
    BY <1>4, <1>7 DEF Says
  <2> QED
    BY Zenon, <1>3, <2>1 DEF Says, Rgb
<1>8. ASSUME NEW ch \in DOMAIN shown \ {"CurrentMode"}, ch \notin Pushed("event", "SET_TEMPERATURE")
      PROVE  Get(kind, c)[ch] = Get(kind, cache)[ch] /\ ch # "TargetTemperature"
  BY <1>3, <1>6, <1>8, GetIs
<1>9. kind # "weather" /\ "TargetTemperature" \in DOMAIN shown /\ "TargetTemperature" \notin Levels
  BY <1>6 DEF Levels
<1> QED
  BY Zenon, <1>1, <1>3, <1>4, <1>5, <1>6, <1>7, <1>8, <1>9 DEF GoodSet, w, c

\* The mode it is set to, which is pushed by nothing and read from the cache.
LEMMA ModeSetsGood ==
  ASSUME Steady, kind = "thermostat", NEW m \in {"OFF", "AUTO", "HEAT"}, NEW r \in Int,
         NEW dp \in {"SET_TEMPERATURE", "AUTO_MODE", "MANU_MODE"}
  PROVE  GoodSet(Write("TargetMode", m, dp, r), [cache EXCEPT !.mode = m])
<1> DEFINE w == Write("TargetMode", m, dp, r)
           c == [cache EXCEPT !.mode = m]
<1>1. /\ w.char = "TargetMode" /\ w.asked = m /\ w.dp = dp /\ w.raw = r
      /\ Reaches(w) = "SET_TEMPERATURE"
  BY DEF Write, Reaches
<1>2. cache \in ClimateCache /\ Cached = ClimateCache
  BY CachedIs DEF Steady
<1>3. c \in Cached /\ c.temp = cache.temp /\ c.target = cache.target /\ c.mode = m
  BY Zenon, <1>2 DEF ClimateCache
<1> HIDE DEF c
<1>4. DOMAIN device = {"ACTUAL_TEMPERATURE", "SET_TEMPERATURE"}
  BY GroupsIs, ListenedIs DEF Steady
<1>5. GoodWrite(w)
  BY <1>1, <1>4, MayWrite DEF GoodWrite
<1> HIDE DEF w
<1>6. DOMAIN shown = {"CurrentTemperature", "TargetTemperature", "TargetMode", "CurrentMode"}
  BY GetIs DEF Steady
<1>7. ASSUME NEW e \in DOMAIN device, NEW u, Says(cache, e, u)
      PROVE  Says(c, e, u)
  <2>1. \/ e = "ACTUAL_TEMPERATURE" /\ cache.temp = u
        \/ e = "SET_TEMPERATURE" /\ cache.target = u
    BY <1>4, <1>7 DEF Says
  <2> QED
    BY Zenon, <1>3, <2>1 DEF Says, Rgb
<1>8. ASSUME NEW ch \in DOMAIN shown \ {"CurrentMode"}
      PROVE  \/ ch = "TargetMode" /\ Get(kind, c)[ch] = m
             \/ ch # "TargetMode" /\ Get(kind, c)[ch] = Get(kind, cache)[ch]
  BY <1>3, <1>6, <1>8, GetIs
<1>9. kind # "weather" /\ "TargetMode" \in DOMAIN shown /\ "TargetMode" \notin Levels
  BY <1>6 DEF Levels
<1> QED
  BY Zenon, <1>1, <1>3, <1>4, <1>5, <1>6, <1>7, <1>8, <1>9 DEF GoodSet, w, c

\* Whatever HomeKit may set: the cache stays in its type, only the datapoint
\* that is written goes out of step, and HomeKit shows what it asked for.
LEMMA SetsAreGood ==
  ASSUME Steady, NEW s \in Sets, s[1].dp \in DOMAIN device \cup {"AUTO_MODE", "MANU_MODE"}
  PROVE  GoodSet(s[1], s[2])
<1>1. ASSUME NEW x \in Int
      PROVE  normalizeLevelToPercent(x) \in Percent /\ percentToLevelFraction(x) \in Percent
  BY ConversionRange
<1>2. \A v \in Level : v \in Percent /\ 100 * v \in Int
  BY LevelAssumption DEF Percent
<1>3. ASSUME NEW v \in Level
      PROVE  LET n == normalizeLevelToPercent(100 * v) IN n \in Percent /\ percentToLevelFraction(n) \in Percent
  <2>1. normalizeLevelToPercent(100 * v) \in Percent
    BY <1>1, <1>2
  <2>2. normalizeLevelToPercent(100 * v) \in Int
    BY <2>1 DEF Percent
  <2> QED
    BY <1>1, <2>1, <2>2
<1>4. DOMAIN device \subseteq DOMAIN Listened(kind)
  BY GroupsIs DEF Steady
<1>5. CASE kind = "switch"
  <2>1. PICK v \in Bool : s = <<Write("On", v, "STATE", v), [cache EXCEPT !.on = v]>>
    BY <1>5, KindsAssumption DEF Sets, Rgb
  <2>2. s[1].dp = "STATE"
    BY <2>1 DEF Write
  <2> QED
    BY <1>5, <2>1, <2>2, SwitchSetsGood
<1>6. CASE kind = "lock"
  <2>1. s \in LockSets
    BY <1>6 DEF Sets, Rgb
  <2>2. PICK v \in Bool : s = <<Write("LockTargetState", LockState(v), "STATE", v),
                                [cache EXCEPT !.target = LockState(v)]>>
    BY <2>1 DEF LockSets
  <2>3. s[1].dp = "STATE"
    BY <2>2 DEF Write
  <2> QED
    BY <1>6, <2>2, <2>3, LockSetsGood
<1>7. ASSUME kind \in {"blind", "slat"}, s \in BlindSets
      PROVE  GoodSet(s[1], s[2])
  <2>1. PICK v \in Level :
          s = <<Write("TargetPosition", v, "LEVEL", percentToLevelFraction(normalizeLevelToPercent(100 * v))),
                [cache EXCEPT !.target = normalizeLevelToPercent(100 * v)]>>
    BY <1>7 DEF BlindSets
  <2>2. s[1].dp = "LEVEL"
    BY <2>1 DEF Write
  <2> QED
    BY <1>2, <1>3, <1>7, <2>1, <2>2, BlindSetsGood
<1>8. ASSUME kind \in {"dimmer", "coltemp"} \cup Rgb, s \in DimmerSets
      PROVE  GoodSet(s[1], s[2])
  <2> DEFINE on(v) == IF v = 0 THEN 0 ELSE IF cache.level > 1 THEN cache.level ELSE 1
  <2>1. CASE \E v \in Bool : s = <<Write("On", v, "LEVEL", percentToLevelFraction(on(v))), cache>>
    <3>1. PICK v \in Bool : s = <<Write("On", v, "LEVEL", percentToLevelFraction(on(v))), cache>>
      BY <2>1
    <3>2. cache.level \in Percent
      <4>1. cache \in DimmerCache \/ cache \in ColTempCache \/ cache \in RgbCache
        BY <1>8, CachedIs DEF Steady
      <4> QED
        BY <4>1 DEF DimmerCache, ColTempCache, RgbCache
    <3>3. on(v) \in Int
      BY <3>2 DEF Percent
    <3>4. s[1].dp = "LEVEL"
      BY <3>1 DEF Write
    <3> HIDE DEF on
    <3> QED
      BY <1>1, <1>8, <3>1, <3>3, <3>4, LightSetsGood
  <2>2. CASE \E v \in Level :
               s = <<Write("Brightness", v, "LEVEL", percentToLevelFraction(normalizeLevelToPercent(100 * v))),
                     [cache EXCEPT !.level = normalizeLevelToPercent(100 * v)]>>
    <3>1. PICK v \in Level :
            s = <<Write("Brightness", v, "LEVEL", percentToLevelFraction(normalizeLevelToPercent(100 * v))),
                  [cache EXCEPT !.level = normalizeLevelToPercent(100 * v)]>>
      BY <2>2
    <3>2. s[1].dp = "LEVEL"
      BY <3>1 DEF Write
    <3> QED
      BY <1>2, <1>3, <1>8, <3>1, <3>2, LightSetsGood
  <2> QED
    BY <1>8, <2>1, <2>2 DEF DimmerSets
<1>9. CASE kind = "blind"
  <2>1. s \in BlindSets
    BY <1>9 DEF Sets, Rgb
  <2> QED
    BY <1>7, <1>9, <2>1
<1>10. CASE kind = "slat"
  <2>1. s \in SlatSets
    BY <1>10 DEF Sets, Rgb
  <2>2. CASE s \in BlindSets
    BY <1>7, <1>10, <2>2
  <2>3. CASE s \notin BlindSets
    <3>1. PICK a \in {-90, 0, 90} :
            s = <<Write("TargetTilt", a, "LEVEL_2", tiltFraction(a)), [cache EXCEPT !.targetTilt = a]>>
      BY <2>1, <2>3 DEF SlatSets
    <3>2. s[1].dp = "LEVEL_2"
      BY <3>1 DEF Write
    <3> QED
      BY <1>10, <3>1, <3>2, TiltSetsGood
  <2> QED
    BY <2>2, <2>3
<1>11. CASE kind = "dimmer"
  <2>1. s \in DimmerSets
    BY <1>11 DEF Sets, Rgb
  <2> QED
    BY <1>8, <1>11, <2>1
<1>12. CASE kind = "coltemp"
  <2>1. s \in ColorTempSets
    BY <1>12 DEF Sets, Rgb
  <2>2. CASE s \in DimmerSets
    BY <1>8, <1>12, <2>2
  <2>3. CASE s \notin DimmerSets
    <3>1. PICK m \in {700, 1295, 2500} :
            s = <<Write("ColorTemperature", m, "COLTEMP", m - 700), [cache EXCEPT !.mired = m]>>
      BY <2>1, <2>3 DEF ColorTempSets
    <3>2. s[1].dp = "COLTEMP"
      BY <3>1 DEF Write
    <3>3. m \in Mireds /\ m - 700 \in Legal("COLTEMP")
      <4>1. m \in Mireds /\ m - 700 \in {0, 595, 1800}
        BY SMT DEF Mireds
      <4> QED
        BY <4>1, MayWrite
    <3> QED
      BY <1>12, <3>1, <3>2, <3>3, ColorTempSetsGood
  <2> QED
    BY <2>2, <2>3
<1>13. CASE kind \in Rgb
  <2>1. s \in DimmerSets \cup ColorSets
    BY <1>13 DEF Sets, Rgb
  <2>2. CASE s \in DimmerSets
    BY <1>8, <1>13, <2>2
  <2>3. CASE \E h \in Hue : s = <<Write("Hue", 199 * h, "COLOR", writeColor(kind, [cache EXCEPT !.hue = 199 * h])),
                                  [cache EXCEPT !.hue = 199 * h]>>
    <3>1. PICK h \in Hue : s = <<Write("Hue", 199 * h, "COLOR", writeColor(kind, [cache EXCEPT !.hue = 199 * h])),
                                 [cache EXCEPT !.hue = 199 * h]>>
      BY <2>3
    <3>2. 199 * h \in Ring
      BY OnRing, HueAssumption
    <3>3. s[1].dp = "COLOR"
      BY <3>1 DEF Write
    <3> QED
      BY <1>13, <3>1, <3>2, <3>3, ColorSetsGood
  <2>4. CASE \E x \in {0, 100} : s = <<Write("Saturation", x, "COLOR", writeColor(kind, [cache EXCEPT !.sat = x])),
                                       [cache EXCEPT !.sat = x]>>
    <3>1. PICK x \in {0, 100} : s = <<Write("Saturation", x, "COLOR", writeColor(kind, [cache EXCEPT !.sat = x])),
                                      [cache EXCEPT !.sat = x]>>
      BY <2>4
    <3>2. x \in Percent
      BY DEF Percent
    <3>3. s[1].dp = "COLOR"
      BY <3>1 DEF Write
    <3> QED
      BY <1>13, <3>1, <3>2, <3>3, ColorSetsGood
  <2> QED
    BY <2>1, <2>2, <2>3, <2>4 DEF ColorSets
<1>14. CASE kind = "thermostat"
  <2>1. s \in ThermostatSets
    BY <1>14 DEF Sets, Rgb
  <2>2. cache.target \in Int
    <3>1. cache \in ClimateCache
      BY <1>14, CachedIs DEF Steady
    <3> QED
      BY <3>1 DEF ClimateCache
  <2>3. CASE \E v \in Temp : s = <<Write("TargetTemperature", v, "SET_TEMPERATURE", v), [cache EXCEPT !.target = v]>>
    BY <1>14, <2>3, TempAssumption, TemperatureSetsGood
  <2>4. CASE s = <<Write("TargetMode", "OFF", "SET_TEMPERATURE", Off), [cache EXCEPT !.mode = "OFF"]>>
    BY <1>14, <2>4, ModeSetsGood DEF Off
  <2>5. CASE s = <<Write("TargetMode", "AUTO", "AUTO_MODE", 1), [cache EXCEPT !.mode = "AUTO"]>>
    BY <1>14, <2>5, ModeSetsGood
  <2>6. CASE s = <<Write("TargetMode", "HEAT", "MANU_MODE", cache.target), [cache EXCEPT !.mode = "HEAT"]>>
    BY <1>14, <2>2, <2>6, ModeSetsGood
  <2> QED
    BY <2>1, <2>3, <2>4, <2>5, <2>6 DEF ThermostatSets
<1>15. CASE kind \in {"sensor", "battery", "weather", "meter"}
  BY <1>15 DEF Sets, Rgb
<1> QED
  BY <1>5, <1>6, <1>9, <1>10, <1>11, <1>12, <1>13, <1>14, <1>15, KindsAssumption DEF Steady, Rgb
-----------------------------------------------------------------------------
(* A value reaches the handler                                             *)

\* The tables are those of the kind and the form, which do not change.
LEMMA SameTables ==
  ASSUME kind' = kind, form' = form, DOMAIN shown' = DOMAIN shown
  PROVE  /\ Cached' = Cached
         /\ \A c, dp, v : Says(c, dp, v)' <=> Says(c, dp, v)
         /\ \A dp, v : Read(dp, v)' = Read(dp, v)
         /\ \A how, dp : Pushed(how, dp)' = Pushed(how, dp)
<1>1. Cached' = Cached
  BY DEF Cached, Rgb
<1>2. \A c, dp, v : Says(c, dp, v)' <=> Says(c, dp, v)
  BY DEF Says, Handle, Switch, Sensor, RgbLight
<1>3. \A dp, v : Read(dp, v)' = Read(dp, v)
  BY DEF Read
<1>4. \A how, dp : Pushed(how, dp)' = Pushed(how, dp)
  BY DEF Pushed, Rgb
<1> QED
  BY <1>1, <1>2, <1>3, <1>4

\* A value read as a Boolean is one.
LEMMA ReadLegal ==
  ASSUME NEW dp, NEW v \in Legal(dp)
  PROVE  Read(dp, v) \in Legal(dp)
<1>1. dp \in {"STATE", "WORKING"} => 1 \in Legal(dp)
  BY SMT DEF Legal, Bool
<1> QED
  BY <1>1 DEF Read

\* What a handler of this behaviour knows of its tables.
LEMMA TypesGive ==
  ASSUME Types
  PROVE  /\ Steady
         /\ DOMAIN device \subseteq DOMAIN Listened(kind)
         /\ \A dp \in DOMAIN device : device[dp] \in Legal(dp)
         /\ DOMAIN pull \subseteq DOMAIN device \cap Pulled(kind)
<1>1. Steady /\ DOMAIN pull = DOMAIN device \cap Pulled(kind)
  BY Zenon DEF Types, Steady
<1>2. DOMAIN device \subseteq DOMAIN Listened(kind)
  BY <1>1, GroupsIs DEF Steady
<1> QED
  BY <1>1, <1>2 DEF Types

\* Learning a value keeps the cache and what is shown in their types, ...
LEMMA LearnTyped ==
  ASSUME Types, NEW how, NEW dp \in DOMAIN device, NEW v \in Legal(dp), Learn(how, dp, v)
  PROVE  /\ cache' \in Cached /\ (kind = "weather" => cache'.lux >= 1)
         /\ shown' = [ch \in DOMAIN shown |-> shown'[ch]]
         /\ DOMAIN shown = DOMAIN Get(kind, cache')
         /\ \A ch \in DOMAIN shown \cap Levels : shown'[ch] \in Percent
<1> DEFINE r == Read(dp, v)
<1>1. r \in Legal(dp)
  BY ReadLegal
<1>2. /\ kind \in Kinds /\ cache \in Cached /\ (kind = "weather" => cache.lux >= 1)
      /\ DOMAIN shown = DOMAIN Get(kind, cache) /\ dp \in DOMAIN Listened(kind)
      /\ DOMAIN device \in Groups(kind)
  BY TypesGive DEF Types, Steady
<1>3. cache' = Handle(cache, dp, r)
  BY DEF Learn
<1> HIDE DEF r
<1>4. cache' \in Cached /\ (kind = "weather" => cache'.lux >= 1)
  BY <1>1, <1>2, <1>3, HandleTyped
<1>5. DOMAIN shown = DOMAIN Get(kind, cache')
  BY <1>2, SameCharacteristics
<1>6. /\ shown' = [ch \in DOMAIN shown |-> shown'[ch]]
      /\ \A ch \in DOMAIN shown :
           \/ shown'[ch] = shown[ch]
           \/ shown'[ch] = Get(kind, cache')[ch]
           \/ ch \in Pushed(how, dp) /\ dp = "WORKING"
  BY Zenon DEF Learn
<1>7. dp = "WORKING" => Pushed(how, dp) = {"PositionState"}
  BY <1>2, Working
<1>8. ASSUME NEW ch \in DOMAIN shown \cap Levels
      PROVE  shown'[ch] \in Percent
  <2>1. shown[ch] \in Percent
    BY DEF Types, Percent
  <2>2. Get(kind, cache')[ch] \in Percent
    BY <1>2, <1>4, <1>5, LevelsInRange
  <2>3. ch # "PositionState"
    BY DEF Levels
  <2> QED
    BY <1>6, <1>7, <2>1, <2>2, <2>3
<1> QED
  BY <1>4, <1>5, <1>6, <1>8

\* ... the cache says what the value says, and of the other datapoints what
\* it said, ...
LEMMA LearnSettles ==
  ASSUME Types, Settled, NEW how, NEW dp \in DOMAIN device, NEW v \in Legal(dp), Learn(how, dp, v),
         UNCHANGED <<kind, form, device>>, DOMAIN pull' = DOMAIN pull,
         \A e : e # dp /\ Open(e) => Open(e)',
         dp \in DOMAIN pull => Open(dp)' \/ v = device[dp]
  PROVE  Settled'
<1> DEFINE r == Read(dp, v)
<1>1. r \in Legal(dp)
  BY ReadLegal
<1>2. /\ kind \in Kinds /\ cache \in Cached /\ DOMAIN device \in Groups(kind)
      /\ DOMAIN pull \subseteq DOMAIN device \cap Pulled(kind)
  BY TypesGive DEF Steady
<1>3. cache' = Handle(cache, dp, r)
  BY DEF Learn
<1>4. DOMAIN shown' = DOMAIN shown
  BY DEF Learn
<1> SUFFICES ASSUME NEW e \in DOMAIN pull, ~Open(e)'
             PROVE  Says(cache', e, Read(e, device[e]))
  BY <1>4, SameTables DEF Settled
<1>5. CASE e = dp
  <2>1. v = device[dp] /\ dp \in Pulled(kind)
    BY <1>2, <1>5
  <2>2. Says(cache', dp, r)
    BY <1>1, <1>2, <1>3, <2>1, HandleSays
  <2> QED
    BY <1>5, <2>1, <2>2
<1>6. CASE e # dp
  <2>1. Says(cache, e, Read(e, device[e]))
    BY <1>6 DEF Settled
  <2> HIDE DEF r
  <2> QED
    BY <1>1, <1>2, <1>3, <1>6, <2>1, HandleKeeps
<1> QED
  BY <1>5, <1>6

\* ... and HomeKit is told of what changes.
LEMMA LearnTells ==
  ASSUME Types, Settled, Told, NEW how \in {"event", "pull"}, NEW dp \in DOMAIN device,
         NEW v \in Legal(dp), Learn(how, dp, v), UNCHANGED <<kind, form>>,
         how = "pull" => dp \in Pulled(kind),
         \A e : e # dp /\ Open(e) => Open(e)'
  PROVE  Told'
<1> DEFINE r == Read(dp, v)
<1>1. r \in Legal(dp)
  BY ReadLegal
<1>2. /\ kind \in Kinds /\ cache \in Cached /\ DOMAIN device \in Groups(kind)
      /\ DOMAIN shown = DOMAIN Get(kind, cache) /\ dp \in DOMAIN Listened(kind)
      /\ DOMAIN pull = DOMAIN device \cap Pulled(kind)
  BY TypesGive DEF Steady, Types
<1>3. cache' = Handle(cache, dp, r)
  BY DEF Learn
<1>4. DOMAIN shown' = DOMAIN shown
  BY DEF Learn
<1> SUFFICES ASSUME NEW ch \in DOMAIN shown \ {"CurrentMode"},
                    \A e \in Pulled(kind) : ch \in Pushed("event", e) => ~Open(e)'
             PROVE  shown'[ch] = Get(kind, cache')[ch]
  BY <1>4, SameTables DEF Told
<1>5. \/ ch \notin Pushed(how, dp) /\ shown'[ch] = shown[ch]
      \/ ch \in Pushed(how, dp) /\ dp = "WORKING" /\ r = 0 /\ shown'[ch] = "STOPPED"
      \/ ch \in Pushed(how, dp) /\ shown'[ch] = Get(kind, cache')[ch]
  BY Zenon DEF Learn
<1> HIDE DEF r
<1>6. CASE ch \notin Pushed(how, dp) /\ shown'[ch] = shown[ch]
  <2>1. Get(kind, cache')[ch] = Get(kind, cache)[ch]
    BY <1>1, <1>2, <1>3, <1>6, ChangesArePushed
  <2>2. ASSUME NEW e \in Pulled(kind), ch \in Pushed("event", e)
        PROVE  ~Open(e)
    <3>1. e # dp
      BY <1>2, <1>6, <2>2, PullPushesToo
    <3> QED
      BY <2>2, <3>1
  <2> QED
    BY <1>6, <2>1, <2>2 DEF Told
<1>7. CASE ch \in Pushed(how, dp) /\ dp = "WORKING" /\ shown'[ch] = "STOPPED"
  <2>1. /\ ch = "PositionState" /\ cache' = cache /\ "LEVEL" \in DOMAIN pull
        /\ "PositionState" \in Pushed("event", "LEVEL")
        /\ \A u : Says(cache, "LEVEL", u) => Get(kind, cache)["PositionState"] = "STOPPED"
    BY <1>2, <1>3, <1>7, Working
  <2>2. ~Open("LEVEL")
    BY <1>2, <1>7, <2>1
  <2>3. Says(cache, "LEVEL", Read("LEVEL", device["LEVEL"]))
    BY <2>1, <2>2 DEF Settled
  <2> QED
    BY <1>7, <2>1, <2>3
<1> QED
  BY <1>5, <1>6, <1>7
-----------------------------------------------------------------------------
(* The events                                                              *)

LEMMA PairIs ==
  ASSUME NEW A, NEW B
  PROVE  /\ \A x \in A \X B : x[1] \in A /\ x[2] \in B
         /\ \A a \in A, b \in B : <<a, b>> \in A \X B
OBVIOUS

\* The oldest event is for a datapoint of the behaviour, ...
LEMMA HeadIs ==
  ASSUME Types, events # <<>>
  PROVE  /\ 1 \in DOMAIN events /\ Head(events) = events[1]
         /\ Head(events)[1] \in DOMAIN device
         /\ Head(events)[2] \in Legal(Head(events)[1])
<1>1. events \in Seq((DOMAIN device) \X Int)
  BY DEF Types
<1>2. 1 \in DOMAIN events /\ Head(events) = events[1] /\ events[1] \in (DOMAIN device) \X Int
  BY <1>1
<1>3. events[1][2] \in Legal(events[1][1])
  BY Zenon, <1>2 DEF Types
<1>4. events[1][1] \in DOMAIN device
  BY <1>2, PairIs
<1> QED
  BY Zenon, <1>2, <1>3, <1>4

\* ... without it the others are as they were, ...
LEMMA TailIs ==
  ASSUME Types, events # <<>>, events' = Tail(events)
  PROVE  /\ events' \in Seq((DOMAIN device) \X Int)
         /\ \A n : n \in DOMAIN events' <=> n \in Nat \ {0} /\ n + 1 \in DOMAIN events
         /\ \A n \in DOMAIN events' : events'[n] = events[n + 1]
         /\ \A e : Coming(e) <=> e = Head(events)[1] \/ Coming(e)'
<1>1. events \in Seq((DOMAIN device) \X Int)
  BY DEF Types
<1>2. /\ events' \in Seq((DOMAIN device) \X Int)
      /\ Len(events) \in Nat /\ DOMAIN events = 1..Len(events)
      /\ Len(events') = Len(events) - 1 /\ DOMAIN events' = 1..Len(events')
      /\ \A n \in DOMAIN events' : events'[n] = events[n + 1]
  BY <1>1
<1>3. \A n : n \in DOMAIN events' <=> n \in Nat \ {0} /\ n + 1 \in DOMAIN events
  BY SMT, <1>2
<1>4. ASSUME NEW e, Coming(e)
      PROVE  e = Head(events)[1] \/ Coming(e)'
  <2>1. PICK n \in DOMAIN events : events[n][1] = e
    BY <1>4 DEF Coming
  <2>2. CASE n = 1
    BY <2>1, <2>2, HeadIs
  <2>3. CASE n # 1
    <3>1. n - 1 \in DOMAIN events' /\ (n - 1) + 1 = n
      BY SMT, <1>2, <2>3
    <3> QED
      BY <1>2, <2>1, <3>1 DEF Coming
  <2> QED
    BY <2>2, <2>3
<1>5. ASSUME NEW e, e = Head(events)[1] \/ Coming(e)'
      PROVE  Coming(e)
  BY <1>2, <1>3, <1>5, HeadIs DEF Coming
<1> QED
  BY <1>2, <1>3, <1>4, <1>5

\* ... and a new one is the last.
LEMMA AppendIs ==
  ASSUME Types, NEW dp \in DOMAIN device, NEW v \in Int, events' = Append(events, <<dp, v>>)
  PROVE  /\ events' \in Seq((DOMAIN device) \X Int)
         /\ Len(events) \in Nat /\ DOMAIN events = 1..Len(events)
         /\ DOMAIN events' = DOMAIN events \cup {Len(events) + 1}
         /\ \A n \in DOMAIN events : events'[n] = events[n]
         /\ events'[Len(events) + 1] = <<dp, v>>
         /\ \A e : Coming(e)' <=> e = dp \/ Coming(e)
<1>1. events \in Seq((DOMAIN device) \X Int)
  BY DEF Types
<1>2. /\ events' \in Seq((DOMAIN device) \X Int)
      /\ Len(events) \in Nat /\ DOMAIN events = 1..Len(events)
      /\ DOMAIN events' = 1..(Len(events) + 1)
      /\ \A n \in DOMAIN events : events'[n] = events[n]
      /\ events'[Len(events) + 1] = <<dp, v>>
  <2>1. <<dp, v>> \in (DOMAIN device) \X Int
    BY PairIs
  <2> QED
    BY <1>1, <2>1
<1>3. DOMAIN events' = DOMAIN events \cup {Len(events) + 1}
  BY SMT, <1>2
<1>4. <<dp, v>>[1] = dp
  OBVIOUS
<1>5. \A e : Coming(e)' <=> e = dp \/ Coming(e)
  BY Zenon, <1>2, <1>3, <1>4 DEF Coming
<1> QED
  BY <1>2, <1>3, <1>5

\* An event that goes leaves the last one of each datapoint, ...
LEMMA TailLastTells ==
  ASSUME Types, LastTells, events # <<>>, events' = Tail(events), device' = device
  PROVE  LastTells'
<1> SUFFICES ASSUME NEW n \in DOMAIN events', events'[n][2] # device[events'[n][1]]
             PROVE  \E m \in DOMAIN events' : m > n /\ events'[m][1] = events'[n][1]
  BY DEF LastTells
<1>1. DOMAIN events = 1..Len(events) /\ Len(events) \in Nat
  BY DEF Types
<1>2. n \in Nat /\ n + 1 \in DOMAIN events /\ events'[n] = events[n + 1]
  BY TailIs
<1>3. PICK m \in DOMAIN events : m > n + 1 /\ events[m][1] = events[n + 1][1]
  BY <1>2 DEF LastTells
<1>4. m - 1 \in Nat \ {0} /\ (m - 1) + 1 = m /\ m - 1 > n
  BY SMT, <1>1, <1>2, <1>3
<1>5. m - 1 \in DOMAIN events'
  BY Zenon, <1>4, TailIs
<1>6. events'[m - 1] = events[m]
  BY Zenon, <1>4, <1>5, TailIs
<1> QED
  BY <1>2, <1>3, <1>4, <1>5, <1>6

\* ... or else was that last one itself.
LEMMA HeadTells ==
  ASSUME Types, LastTells, events # <<>>, events' = Tail(events), NEW h, h = Head(events)[1]
  PROVE  Head(events)[2] = device[h] \/ Coming(h)'
<1>1. 1 \in DOMAIN events /\ Head(events) = events[1] /\ DOMAIN events = 1..Len(events) /\ Len(events) \in Nat
  BY HeadIs DEF Types
<1>2. CASE \E m \in DOMAIN events : m > 1 /\ events[m][1] = events[1][1]
  <2>1. PICK m \in DOMAIN events : m > 1 /\ events[m][1] = events[1][1]
    BY <1>2
  <2>2. m - 1 \in Nat \ {0} /\ (m - 1) + 1 = m
    BY SMT, <1>1, <2>1
  <2>3. m - 1 \in DOMAIN events'
    BY Zenon, <2>2, TailIs
  <2>4. events'[m - 1] = events[m]
    BY Zenon, <2>2, <2>3, TailIs
  <2>5. events'[m - 1][1] = h
    BY Zenon, <1>1, <2>1, <2>4
  <2> QED
    BY Zenon, <2>3, <2>5 DEF Coming
<1> QED
  BY <1>1, <1>2 DEF LastTells

\* An answer to a pull is late once the event is gone.
LEMMA TailAnswerTells ==
  ASSUME Types, AnswerTells, events # <<>>, events' = Tail(events), device' = device,
         pull' = Late(Head(events)[1])
  PROVE  AnswerTells'
<1> DEFINE h == Head(events)[1]
<1> SUFFICES ASSUME NEW dp \in DOMAIN pull,
                    pull'[dp].at = "answered" /\ ~pull'[dp].late /\ ~Coming(dp)'
             PROVE  pull'[dp].value = device[dp]
  BY DEF AnswerTells, Late
<1>1. pull[dp] \in PullType(dp)
  BY DEF Types
<1>2. dp # h /\ pull'[dp] = pull[dp]
  <2>1. pull'[dp] = IF dp = h /\ pull[dp].at = "answered" THEN [pull[dp] EXCEPT !.late = TRUE] ELSE pull[dp]
    BY DEF Late
  <2>2. ~(dp = h /\ pull[dp].at = "answered")
    BY Zenon, <1>1, <2>1 DEF PullType
  <2> QED
    BY <2>1, <2>2
<1>3. ~Coming(dp)
  BY <1>2, TailIs
<1> QED
  BY <1>2, <1>3 DEF AnswerTells

\* The stages of the pulls stay in their type.
LEMMA LateTyped ==
  ASSUME Types, NEW h
  PROVE  DOMAIN Late(h) = DOMAIN pull /\ \A dp \in DOMAIN pull : Late(h)[dp] \in PullType(dp)
<1>1. DOMAIN Late(h) = DOMAIN pull
  BY DEF Late
<1>2. ASSUME NEW dp \in DOMAIN pull
      PROVE  Late(h)[dp] \in PullType(dp)
  <2>1. pull[dp] \in PullType(dp)
    BY DEF Types
  <2>2. Late(h)[dp] = IF dp = h /\ pull[dp].at = "answered" THEN [pull[dp] EXCEPT !.late = TRUE] ELSE pull[dp]
    BY DEF Late
  <2> QED
    BY Zenon, <2>1, <2>2 DEF PullType
<1> QED
  BY <1>1, <1>2
-----------------------------------------------------------------------------
(* The steps keep the invariant                                            *)

\* What a step has to keep of the types.
LEMMA TypesNext ==
  ASSUME Types, UNCHANGED <<kind, form>>,
         cache' \in Cached, kind = "weather" => cache'.lux >= 1,
         DOMAIN shown = DOMAIN Get(kind, cache'), shown' = [ch \in DOMAIN shown |-> shown'[ch]],
         \A ch \in DOMAIN shown \cap Levels : shown'[ch] \in Percent,
         device' = [dp \in DOMAIN device |-> device'[dp]],
         \A dp \in DOMAIN device : device'[dp] \in Legal(dp),
         DOMAIN pull' = DOMAIN pull, \A dp \in DOMAIN pull : pull'[dp] \in PullType(dp),
         \A w \in writes' : w \in writes \/ GoodWrite(w),
         events' \in Seq((DOMAIN device) \X Int),
         \A n \in DOMAIN events' : events'[n][2] \in Legal(events'[n][1]),
         excused' \subseteq DOMAIN device
  PROVE  Types'
<1>1. DOMAIN shown' = DOMAIN shown /\ DOMAIN device' = DOMAIN device
  OBVIOUS
<1>2. Cached' = Cached
  BY <1>1, SameTables
<1>3. \A w \in writes' : GoodWrite(w)'
  <2>1. \A w \in writes' : GoodWrite(w)
    BY DEF Types
  <2> QED
    BY <1>1, <2>1 DEF GoodWrite
<1>4. \A ch \in DOMAIN shown' \cap Levels : shown'[ch] \in 0..100
  BY <1>1 DEF Percent
<1>5. /\ kind' \in Kinds
      /\ form' \in {"typed", "text"} /\ (form' = "text" => kind' \in {"switch", "sensor", "lock", "blind", "slat"})
      /\ cache' \in Cached' /\ (kind' = "weather" => cache'.lux >= 1)
      /\ shown' = [ch \in DOMAIN Get(kind', cache') |-> shown'[ch]]
  BY <1>2 DEF Types
<1>6. /\ DOMAIN device' \in Groups(kind')
      /\ device' = [dp \in DOMAIN device' |-> device'[dp]]
      /\ \A dp \in DOMAIN device' : device'[dp] \in Legal(dp)
      /\ DOMAIN pull' = Pulled(kind') \cap DOMAIN device'
      /\ \A dp \in DOMAIN pull' : pull'[dp] \in PullType(dp)
      /\ events' \in Seq((DOMAIN device') \X Int)
      /\ excused' \subseteq DOMAIN device'
  BY <1>1 DEF Types
<1> QED
  BY <1>3, <1>4, <1>5, <1>6 DEF Types

\* The types, put the same way.
LEMMA TypesNow ==
  ASSUME Types
  PROVE  /\ cache \in Cached /\ (kind = "weather" => cache.lux >= 1)
         /\ DOMAIN shown = DOMAIN Get(kind, cache) /\ shown = [ch \in DOMAIN shown |-> shown[ch]]
         /\ \A ch \in DOMAIN shown \cap Levels : shown[ch] \in Percent
         /\ device = [dp \in DOMAIN device |-> device[dp]]
         /\ \A dp \in DOMAIN device : device[dp] \in Legal(dp)
         /\ \A dp \in DOMAIN pull : pull[dp] \in PullType(dp)
         /\ events \in Seq((DOMAIN device) \X Int)
         /\ \A n \in DOMAIN events : events[n][2] \in Legal(events[n][1])
         /\ excused \subseteq DOMAIN device
         /\ DOMAIN pull \subseteq DOMAIN device \cap Pulled(kind)
BY DEF Types, Percent

\* What the cache and HomeKit hold stays settled where nothing is learnt and
\* what was open stays so.
LEMMA NothingLearnt ==
  ASSUME Settled, Told, UNCHANGED <<kind, form, cache, shown>>, DOMAIN pull' = DOMAIN pull,
         \A e : Open(e) => Open(e)', \A e \in DOMAIN pull : device'[e] = device[e] \/ Open(e)'
  PROVE  Settled' /\ Told'
<1>1. Settled'
  BY SameTables DEF Settled
<1>2. ASSUME NEW ch \in DOMAIN shown \ {"CurrentMode"}
      PROVE  \/ shown[ch] = Get(kind, cache)[ch]
             \/ \E dp \in Pulled(kind) : ch \in Pushed("event", dp) /\ Open(dp)'
  BY DEF Told
<1>3. Told'
  BY <1>2, SameTables DEF Told
<1> QED
  BY <1>1, <1>3

\* The CCU reads the datapoint.
LEMMA CcuAnswersStep ==
  ASSUME Inv, NEW dp \in DOMAIN pull, CcuAnswers(dp)
  PROVE  Inv'
<1> USE DEF CcuAnswers
<1>1. Types /\ LastTells /\ AnswerTells /\ Settled /\ Told
  BY DEF Inv
<1>2. pull'[dp] = [at |-> "answered", value |-> device[dp], late |-> FALSE]
      /\ DOMAIN pull' = DOMAIN pull /\ \A e \in DOMAIN pull \ {dp} : pull'[e] = pull[e]
  BY Zenon
<1>3. \A e \in DOMAIN pull : pull'[e] \in PullType(e)
  <2>1. device[dp] \in Legal(dp)
    BY <1>1, TypesNow
  <2>2. pull'[dp] \in PullType(dp)
    BY Zenon, <1>2, <2>1 DEF PullType
  <2> QED
    BY <1>1, <1>2, <2>2, TypesNow
<1>4. Types'
  BY <1>1, <1>2, <1>3, TypesNow, TypesNext
<1>5. LastTells'
  BY <1>1 DEF LastTells
<1>6. AnswerTells'
  BY <1>1, <1>2 DEF AnswerTells, Coming
<1>7. \A e : Open(e) <=> Open(e)'
  BY DEF Open, Coming
<1> QED
  BY <1>1, <1>2, <1>4, <1>5, <1>6, <1>7, NothingLearnt DEF Inv

\* The answer reaches the handler.
LEMMA PullSettlesStep ==
  ASSUME Inv, NEW dp \in DOMAIN pull, PullSettles(dp)
  PROVE  Inv'
<1> USE DEF PullSettles
<1>1. Types /\ LastTells /\ AnswerTells /\ Settled /\ Told
  BY DEF Inv
<1>2. pull'[dp].at = "done" /\ DOMAIN pull' = DOMAIN pull /\ \A e \in DOMAIN pull \ {dp} : pull'[e] = pull[e]
  BY Zenon
<1>3. dp \in DOMAIN device \cap Pulled(kind) /\ pull[dp].value \in Legal(dp)
  <2>1. pull[dp] \in PullType(dp) /\ pull[dp].at = "answered"
    BY <1>1, TypesNow
  <2>2. pull[dp].value \in Legal(dp)
    BY Zenon, <2>1 DEF PullType
  <2> QED
    BY <1>1, <2>2, TypesNow
<1>4. Learn("pull", dp, pull[dp].value)
  OBVIOUS
<1>5. /\ cache' \in Cached /\ (kind = "weather" => cache'.lux >= 1)
      /\ shown' = [ch \in DOMAIN shown |-> shown'[ch]]
      /\ DOMAIN shown = DOMAIN Get(kind, cache')
      /\ \A ch \in DOMAIN shown \cap Levels : shown'[ch] \in Percent
  BY <1>1, <1>3, <1>4, LearnTyped
<1>6. \A e \in DOMAIN pull : pull'[e] \in PullType(e)
  <2>1. pull'[dp] \in PullType(dp)
    BY Zenon DEF PullType
  <2> QED
    BY <1>1, <1>2, <2>1, TypesNow
<1>7. Types'
  BY <1>1, <1>2, <1>3, <1>5, <1>6, TypesNow, TypesNext
<1>8. LastTells'
  BY <1>1 DEF LastTells
<1>9. AnswerTells'
  BY <1>1, <1>2 DEF AnswerTells, Coming
<1>10. ASSUME NEW e
       PROVE  Coming(e)' <=> Coming(e)
  BY DEF Coming
<1>11. \A e : e # dp /\ Open(e) => Open(e)'
  BY <1>10 DEF Open
<1>12. Open(dp)' \/ pull[dp].value = device[dp]
  <2>1. CASE pull[dp].late
    BY <2>1 DEF Open
  <2>2. CASE ~pull[dp].late
    BY <1>1, <1>10, <2>2 DEF AnswerTells, Open
  <2> QED
    BY <2>1, <2>2
<1>13. Settled'
  BY <1>1, <1>2, <1>3, <1>4, <1>11, <1>12, LearnSettles
<1>14. Told'
  BY <1>1, <1>3, <1>4, <1>11, LearnTells
<1> QED
  BY <1>7, <1>8, <1>9, <1>13, <1>14 DEF Inv

\* It never comes.
LEMMA PullFailsStep ==
  ASSUME Inv, NEW dp \in DOMAIN pull, PullFails(dp)
  PROVE  Inv'
<1> USE DEF PullFails
<1>1. Types /\ LastTells /\ AnswerTells /\ Settled /\ Told
  BY DEF Inv
<1>2. pull'[dp].at = "done" /\ DOMAIN pull' = DOMAIN pull /\ \A e \in DOMAIN pull \ {dp} : pull'[e] = pull[e]
  BY Zenon
<1>3. \A e \in DOMAIN pull : pull'[e] \in PullType(e)
  <2>1. pull'[dp] \in PullType(dp)
    BY Zenon DEF PullType
  <2> QED
    BY <1>1, <1>2, <2>1, TypesNow
<1>4. Types'
  BY <1>1, <1>2, <1>3, TypesNow, TypesNext
<1>5. LastTells'
  BY <1>1 DEF LastTells
<1>6. AnswerTells'
  BY <1>1, <1>2 DEF AnswerTells, Coming
<1>7. \A e : Open(e) <=> Open(e)'
  BY DEF Open, Coming
<1> QED
  BY <1>1, <1>2, <1>4, <1>5, <1>6, <1>7, NothingLearnt DEF Inv

\* An event reaches the handler.
LEMMA EventArrivesStep ==
  ASSUME Inv, EventArrives
  PROVE  Inv'
<1> USE DEF EventArrives
<1>1. Types /\ LastTells /\ AnswerTells /\ Settled /\ Told
  BY DEF Inv
<1>2. PICK dp \in DOMAIN device : dp = Head(events)[1] /\ Head(events)[2] \in Legal(dp)
  BY <1>1, HeadIs
<1>v. PICK v \in Legal(dp) : v = Head(events)[2]
  BY <1>2
<1>3. /\ Learn("event", dp, v) /\ excused' = excused \ {dp} /\ pull' = Late(dp)
      /\ events # <<>> /\ events' = Tail(events) /\ UNCHANGED <<kind, form, writes, device>>
  BY <1>2, <1>v
<1>4. /\ cache' \in Cached /\ (kind = "weather" => cache'.lux >= 1)
      /\ shown' = [ch \in DOMAIN shown |-> shown'[ch]]
      /\ DOMAIN shown = DOMAIN Get(kind, cache')
      /\ \A ch \in DOMAIN shown \cap Levels : shown'[ch] \in Percent
  BY <1>1, <1>3, LearnTyped
<1>5. DOMAIN pull' = DOMAIN pull /\ \A e \in DOMAIN pull : pull'[e] \in PullType(e)
  BY <1>1, <1>3, LateTyped
<1>6. /\ events' \in Seq((DOMAIN device) \X Int)
      /\ \A n \in DOMAIN events' : events'[n][2] \in Legal(events'[n][1])
      /\ \A e : Coming(e) <=> e = dp \/ Coming(e)'
  BY <1>1, <1>2, <1>3, TailIs, TypesNow
<1>7. Types'
  BY <1>1, <1>3, <1>4, <1>5, <1>6, TypesNow, TypesNext
<1>8. LastTells'
  BY <1>1, <1>3, TailLastTells
<1>9. AnswerTells'
  BY <1>1, <1>2, <1>3, TailAnswerTells
<1>10. \A e : e # dp /\ Open(e) => Open(e)'
  BY <1>3, <1>6 DEF Open
<1>11. Open(dp)' \/ v = device[dp]
  BY <1>1, <1>2, <1>v, <1>3, HeadTells DEF Open
<1>12. Settled'
  BY <1>1, <1>3, <1>5, <1>10, <1>11, LearnSettles
<1>13. Told'
  BY <1>1, <1>3, <1>10, LearnTells
<1> QED
  BY <1>7, <1>8, <1>9, <1>12, <1>13 DEF Inv

\* It does not, and the datapoint is excused.
LEMMA EventLostStep ==
  ASSUME Inv, EventLost
  PROVE  Inv'
<1> USE DEF EventLost
<1>1. Types /\ LastTells /\ AnswerTells /\ Settled /\ Told
  BY DEF Inv
<1>2. PICK dp \in DOMAIN device : dp = Head(events)[1]
  BY <1>1, HeadIs
<1>3. /\ excused' = excused \cup {dp} /\ pull' = Late(dp)
      /\ events # <<>> /\ events' = Tail(events) /\ UNCHANGED <<kind, form, cache, shown, writes, device>>
  BY <1>2
<1>4. DOMAIN pull' = DOMAIN pull /\ \A e \in DOMAIN pull : pull'[e] \in PullType(e)
  BY <1>1, <1>3, LateTyped
<1>5. /\ events' \in Seq((DOMAIN device) \X Int)
      /\ \A n \in DOMAIN events' : events'[n][2] \in Legal(events'[n][1])
      /\ \A e : Coming(e) <=> e = dp \/ Coming(e)'
  BY <1>1, <1>2, <1>3, TailIs, TypesNow
<1>6. Types'
  BY <1>1, <1>3, <1>4, <1>5, TypesNow, TypesNext
<1>7. LastTells'
  BY <1>1, <1>3, TailLastTells
<1>8. AnswerTells'
  BY <1>1, <1>2, <1>3, TailAnswerTells
<1>9. \A e : Open(e) => Open(e)'
  BY <1>3, <1>5 DEF Open
<1> QED
  BY <1>1, <1>3, <1>4, <1>6, <1>7, <1>8, <1>9, NothingLearnt DEF Inv

\* A datapoint takes a value, by a write perhaps, and the CCU pushes it.
LEMMA ChangeStep ==
  ASSUME Inv, NEW dp \in DOMAIN device, NEW v \in Legal(dp), Change(dp, v),
         UNCHANGED <<kind, form, cache, shown, pull, excused>>,
         writes' \subseteq writes, \A w \in writes \ writes' : Reaches(w) = dp
  PROVE  Inv'
<1>1. Types /\ LastTells /\ AnswerTells /\ Settled /\ Told
  BY DEF Inv
<1>2. device' = [device EXCEPT ![dp] = v] /\ events' = Append(events, <<dp, v>>) /\ v \in Int
  BY LegalIs DEF Change
<1>3. /\ device' = [e \in DOMAIN device |-> device'[e]]
      /\ device'[dp] = v /\ \A e \in DOMAIN device \ {dp} : device'[e] = device[e]
  BY Zenon, <1>1, <1>2, TypesNow
<1>4. /\ events' \in Seq((DOMAIN device) \X Int)
      /\ Len(events) \in Nat /\ DOMAIN events = 1..Len(events)
      /\ DOMAIN events' = DOMAIN events \cup {Len(events) + 1}
      /\ \A n \in DOMAIN events : events'[n] = events[n]
      /\ events'[Len(events) + 1][1] = dp /\ events'[Len(events) + 1][2] = v
      /\ \A e : Coming(e)' <=> e = dp \/ Coming(e)
  <2>1. <<dp, v>>[1] = dp /\ <<dp, v>>[2] = v
    OBVIOUS
  <2> QED
    BY Zenon, <1>1, <1>2, <2>1, AppendIs
<1>5. Types'
  <2>1. \A n \in DOMAIN events' : events'[n][2] \in Legal(events'[n][1])
    BY Zenon, <1>1, <1>4, TypesNow
  <2>2. \A e \in DOMAIN device : device'[e] \in Legal(e)
    BY <1>1, <1>3, TypesNow
  <2> QED
    BY <1>1, <1>3, <1>4, <2>1, <2>2, TypesNow, TypesNext
<1>6. LastTells'
  <2> SUFFICES ASSUME NEW n \in DOMAIN events', events'[n][2] # device'[events'[n][1]]
               PROVE  \E m \in DOMAIN events' : m > n /\ events'[m][1] = events'[n][1]
    BY DEF LastTells
  <2>1. n \in DOMAIN events /\ events'[n] = events[n]
    BY Zenon, <1>3, <1>4
  <2>2. CASE events[n][1] = dp
    <3>1. Len(events) + 1 > n /\ Len(events) + 1 \in DOMAIN events'
      BY SMT, <1>4, <2>1
    <3> QED
      BY Zenon, <1>4, <2>1, <2>2, <3>1
  <2>3. CASE events[n][1] # dp
    <3>1. events[n][1] \in DOMAIN device
      BY <1>1, <2>1, PairIs, TypesNow
    <3>2. events[n][2] # device[events[n][1]]
      BY Zenon, <1>3, <2>1, <2>3, <3>1
    <3>3. PICK m \in DOMAIN events : m > n /\ events[m][1] = events[n][1]
      BY <1>1, <2>1, <3>2 DEF LastTells
    <3> QED
      BY Zenon, <1>4, <2>1, <3>3
  <2> QED
    BY <2>2, <2>3
<1>7. AnswerTells'
  BY <1>1, <1>3, <1>4, TypesNow DEF AnswerTells
<1>8. \A e : Open(e) => Open(e)'
  BY <1>4 DEF Open
<1>9. \A e \in DOMAIN pull : device'[e] = device[e] \/ Open(e)'
  BY <1>1, <1>3, <1>4, TypesNow DEF Open
<1> QED
  BY <1>1, <1>5, <1>6, <1>7, <1>8, <1>9, NothingLearnt DEF Inv

LEMMA WriteTakesEffectStep ==
  ASSUME Inv, NEW w \in writes, WriteTakesEffect(w)
  PROVE  Inv'
<1> USE DEF WriteTakesEffect
<1>1. GoodWrite(w)
  BY DEF Inv, Types
<1>2. Reaches(w) \in DOMAIN device /\ writes' \subseteq writes /\ \A x \in writes \ writes' : x = w
  BY <1>1 DEF GoodWrite
<1>3. CASE w.dp = "AUTO_MODE"
  <2>1. PICK v \in Temp : Change("SET_TEMPERATURE", v)
    BY <1>3
  <2>2. Reaches(w) = "SET_TEMPERATURE" /\ v \in Legal("SET_TEMPERATURE")
    BY <1>3, MayWrite, TempAssumption DEF Reaches
  <2> QED
    BY <1>2, <2>1, <2>2, ChangeStep
<1>4. CASE w.dp # "AUTO_MODE"
  <2>1. Change(Reaches(w), w.raw)
    BY <1>4 DEF Reaches
  <2>2. w.raw \in Legal(Reaches(w))
    BY <1>1, <1>4 DEF GoodWrite
  <2>3. \A x \in writes \ writes' : Reaches(x) = Reaches(w)
    BY <1>2
  <2> QED
    BY <1>2, <2>1, <2>2, <2>3, ChangeStep
<1> QED
  BY <1>3, <1>4

\* HomeKit sets something.
LEMMA HomeKitSetsStep ==
  ASSUME Inv, NEW s \in Sets, HomeKitSets(s[1], s[2])
  PROVE  Inv'
<1> DEFINE w == s[1]
           c == s[2]
<1>1. Types /\ LastTells /\ AnswerTells /\ Settled /\ Told
  BY DEF Inv
<1>2. GoodSet(w, c)
  BY <1>1, TypesGive, SetsAreGood DEF HomeKitSets
<1> HIDE DEF w, c
<1>3. /\ cache' = c /\ shown' = [shown EXCEPT ![w.char] = w.asked] /\ writes' = writes \cup {w}
      /\ UNCHANGED <<kind, form, pull, device, events, excused>>
  BY DEF HomeKitSets, w, c
<1>4. c \in Cached /\ kind # "weather" /\ GoodWrite(w) /\ DOMAIN shown = DOMAIN Get(kind, c)
      /\ w.char \in DOMAIN shown /\ (w.char \in Levels => w.asked \in Percent)
  BY <1>1, <1>2, TypesGive, SameCharacteristics DEF GoodSet, Steady
<1>5. /\ shown' = [ch \in DOMAIN shown |-> shown'[ch]]
      /\ shown'[w.char] = w.asked /\ \A ch \in DOMAIN shown \ {w.char} : shown'[ch] = shown[ch]
  BY Zenon, <1>1, <1>3, <1>4, TypesNow
<1>6. Types'
  <2>1. \A ch \in DOMAIN shown \cap Levels : shown'[ch] \in Percent
    BY <1>1, <1>4, <1>5, TypesNow
  <2> QED
    BY <1>1, <1>3, <1>4, <1>5, <2>1, TypesNow, TypesNext
<1>7. LastTells'
  BY <1>1, <1>3 DEF LastTells
<1>8. AnswerTells'
  BY <1>1, <1>3 DEF AnswerTells, Coming
<1>9. (\A e : Open(e) => Open(e)') /\ \A e : e = Reaches(w) => Open(e)'
  BY <1>3 DEF Open, Coming
<1>10. Settled'
  <2>1. ASSUME NEW e \in DOMAIN pull, ~Open(e)'
        PROVE  Says(c, e, Read(e, device[e]))
    <3>1. e # Reaches(w) /\ ~Open(e) /\ e \in DOMAIN device \cap Pulled(kind)
      BY <1>1, <1>9, <2>1, TypesNow
    <3>2. Says(cache, e, Read(e, device[e]))
      BY <1>1, <3>1 DEF Settled
    <3> QED
      BY <1>2, <3>1, <3>2 DEF GoodSet
  <2> QED
    BY <1>3, <1>5, <2>1, SameTables DEF Settled
<1>11. Told'
  <2>1. ASSUME NEW ch \in DOMAIN shown \ {"CurrentMode"},
               \A e \in Pulled(kind) : ch \in Pushed("event", e) => ~Open(e)'
        PROVE  shown'[ch] = Get(kind, c)[ch]
    <3>1. IF ch = w.char THEN Get(kind, c)[ch] = w.asked ELSE Get(kind, c)[ch] = Get(kind, cache)[ch]
      BY <1>2, <1>9, <2>1 DEF GoodSet
    <3>2. CASE ch = w.char
      BY <1>5, <3>1, <3>2
    <3>3. CASE ch # w.char
      BY <1>1, <1>5, <1>9, <2>1, <3>1, <3>3 DEF Told
    <3> QED
      BY <3>2, <3>3
  <2> QED
    BY <1>3, <1>5, <2>1, SameTables DEF Told
<1> QED
  BY <1>6, <1>7, <1>8, <1>10, <1>11 DEF Inv

\* A write fails, and its datapoint is excused.
LEMMA WriteFailsStep ==
  ASSUME Inv, NEW w \in writes, WriteFails(w)
  PROVE  Inv'
<1> USE DEF WriteFails
<1>1. Types /\ LastTells /\ AnswerTells /\ Settled /\ Told
  BY DEF Inv
<1>2. Reaches(w) \in DOMAIN device /\ excused' = excused \cup {Reaches(w)}
  <2>1. Reaches(w) \in DOMAIN device
    BY <1>1 DEF Types, GoodWrite
  <2>2. "AUTO_MODE" \notin DOMAIN device /\ "MANU_MODE" \notin DOMAIN device
    BY <1>1, TypesGive, ListenedIs, KindsAssumption DEF Steady, Rgb
  <2> QED
    BY <2>1, <2>2 DEF Reaches
<1>3. Types'
  BY <1>1, <1>2, TypesNow, TypesNext
<1>4. LastTells'
  BY <1>1 DEF LastTells
<1>5. AnswerTells'
  BY <1>1 DEF AnswerTells, Coming
<1>6. \A e : Open(e) => Open(e)'
  BY <1>2 DEF Open, Coming
<1> QED
  BY <1>1, <1>3, <1>4, <1>5, <1>6, NothingLearnt DEF Inv

-----------------------------------------------------------------------------
(* The start, and the theorems                                             *)

\* The values the CCU has for a datapoint are legal ones.
LEMMA ValuesLegal ==
  ASSUME kind \in Kinds, NEW dp \in DOMAIN Listened(kind), NEW v \in Values(dp)
  PROVE  v \in Legal(dp)
<1> USE DEF Values, Legal, Bool
<1>1. CASE kind \in {"switch", "sensor", "lock"}
  BY SMT, <1>1 DEF Listened, Rgb
<1>2. CASE kind \in {"blind", "slat", "dimmer"}
  BY SMT, <1>2, LevelAssumption DEF Listened, Rgb
<1>3. CASE kind \in {"coltemp"} \cup Rgb
  BY SMT, <1>3, LevelAssumption DEF Listened, Rgb
<1>4. CASE kind \in {"battery", "meter"}
  BY SMT, <1>4 DEF Listened, Rgb
<1>5. CASE kind \in {"weather", "thermostat"}
  BY SMT, <1>5, TempAssumption DEF Listened, Rgb
<1> QED
  BY <1>1, <1>2, <1>3, <1>4, <1>5, KindsAssumption DEF Rgb

\* A handler starts with defaults that are values of its fields.
LEMMA FieldsTyped ==
  ASSUME kind \in Kinds
  PROVE  Fields(kind) \in Cached /\ (kind = "weather" => Fields(kind).lux >= 1)
<1>1. /\ {0, 40, 50, 100, 10000} \subseteq Int /\ {0, 50, 100} \subseteq Percent
      /\ 0 \in Bool /\ 0 \in Angle /\ 0 \in Ring /\ 700 \in Mireds
  BY SMT, RingIs, TurnIs DEF Percent, Bool, Angle, Mireds
<1>2. /\ kind \in {"switch", "sensor"} => Fields(kind) = [on |-> 0]
      /\ kind = "lock"       => Fields(kind) = LockFields
      /\ kind = "blind"      => Fields(kind) = BlindFields
      /\ kind = "slat"       => Fields(kind) = SlatFields
      /\ kind = "dimmer"     => Fields(kind) = [level |-> 0]
      /\ kind = "coltemp"    => Fields(kind) = [level |-> 0, mired |-> 700]
      /\ kind \in Rgb        => Fields(kind) = [level |-> 0, hue |-> 0, sat |-> 0]
      /\ kind = "battery"    => Fields(kind) = [low |-> 0, charge |-> 100]
      /\ kind = "weather"    => Fields(kind) = WeatherFields
      /\ kind = "meter"      => Fields(kind) = MeterFields
      /\ kind = "thermostat" => Fields(kind) = ClimateFields
  BY SMT DEF Fields, Rgb
<1>3. /\ [on |-> 0] \in OnCache /\ LockFields \in LockCache /\ BlindFields \in BlindCache
      /\ SlatFields \in SlatCache /\ [level |-> 0] \in DimmerCache
      /\ [level |-> 0, mired |-> 700] \in ColTempCache
      /\ [level |-> 0, hue |-> 0, sat |-> 0] \in RgbCache
      /\ [low |-> 0, charge |-> 100] \in BatteryCache
  <2>1. [on |-> 0] \in OnCache
    BY SMT, <1>1 DEF OnCache
  <2>2. LockFields \in LockCache
    BY SMT DEF LockFields, LockCache
  <2>3. BlindFields \in BlindCache /\ SlatFields \in SlatCache
    BY SMT, <1>1 DEF BlindFields, BlindCache, SlatFields, SlatCache
  <2>4. [level |-> 0] \in DimmerCache /\ [level |-> 0, mired |-> 700] \in ColTempCache
    BY SMT, <1>1 DEF DimmerCache, ColTempCache
  <2>5. [level |-> 0, hue |-> 0, sat |-> 0] \in RgbCache /\ [low |-> 0, charge |-> 100] \in BatteryCache
    BY SMT, <1>1 DEF RgbCache, BatteryCache
  <2> QED
    BY <2>1, <2>2, <2>3, <2>4, <2>5
<1>4. WeatherFields \in WeatherCache /\ MeterFields \in MeterCache /\ ClimateFields \in ClimateCache
  BY SMT, <1>1 DEF WeatherFields, WeatherCache, MeterFields, MeterCache, ClimateFields, ClimateCache
<1>5. WeatherFields.lux >= 1
  BY SMT DEF WeatherFields
<1> QED
  BY <1>2, <1>3, <1>4, <1>5, CachedIs, KindsAssumption DEF Rgb

LEMMA InitInv == Init => Inv
<1> SUFFICES ASSUME Init
             PROVE  Inv
  OBVIOUS
<1>1. PICK used \in Groups(kind) :
        /\ device \in {d \in [used -> UNION {Values(dp) : dp \in used}] : \A dp \in used : d[dp] \in Values(dp)}
        /\ pull = [dp \in used \cap Pulled(kind) |-> [at |-> "asked"]]
  BY DEF Init
<1>2. /\ kind \in Kinds /\ cache = Fields(kind) /\ shown = Get(kind, cache)
      /\ writes = {} /\ events = <<>> /\ excused = DOMAIN pull
  BY DEF Init
<1>3. form \in {"typed", "text"} /\ (form = "text" => kind \in {"switch", "sensor", "lock", "blind", "slat"})
  BY DEF Init
<1>4. cache \in Cached /\ (kind = "weather" => cache.lux >= 1)
  BY <1>2, FieldsTyped
<1>5. /\ shown = [ch \in DOMAIN Get(kind, cache) |-> shown[ch]]
      /\ \A ch \in DOMAIN shown \cap Levels : shown[ch] \in 0..100
  BY <1>2, <1>4, SameCharacteristics, LevelsInRange DEF Percent
<1>6. /\ DOMAIN device = used /\ device = [dp \in DOMAIN device |-> device[dp]]
      /\ \A dp \in DOMAIN device : device[dp] \in Values(dp)
  BY Zenon, <1>1
<1>7. \A dp \in DOMAIN device : device[dp] \in Legal(dp)
  BY <1>1, <1>2, <1>6, GroupsIs, ValuesLegal
<1>8. DOMAIN pull = Pulled(kind) \cap DOMAIN device /\ \A dp \in DOMAIN pull : pull[dp] = [at |-> "asked"]
  BY <1>1, <1>6
<1>9. ASSUME NEW dp \in DOMAIN pull
      PROVE  pull[dp] \in PullType(dp)
  <2>1. [at |-> "asked"] \in [at : {"asked", "done"}]
    BY SMT
  <2> QED
    BY Zenon, <1>8, <2>1 DEF PullType
<1>10. events \in Seq((DOMAIN device) \X Int) /\ DOMAIN events = {}
  BY SMT, <1>2
<1>11. Types
  BY <1>1, <1>2, <1>3, <1>4, <1>5, <1>6, <1>7, <1>8, <1>9, <1>10 DEF Types
<1>12. LastTells
  BY <1>10 DEF LastTells
<1>13. AnswerTells
  BY <1>8 DEF AnswerTells
<1>14. Settled
  BY <1>2 DEF Settled, Open
<1>15. Told
  BY <1>2 DEF Told
<1> QED
  BY <1>11, <1>12, <1>13, <1>14, <1>15 DEF Inv

LEMMA NextInv == Inv /\ [Next]_vars => Inv'
<1> SUFFICES ASSUME Inv, [Next]_vars
             PROVE  Inv'
  OBVIOUS
<1>1. ASSUME NEW dp \in DOMAIN pull, CcuAnswers(dp)
      PROVE  Inv'
  BY <1>1, CcuAnswersStep
<1>2. ASSUME NEW dp \in DOMAIN pull, PullSettles(dp)
      PROVE  Inv'
  BY <1>2, PullSettlesStep
<1>3. ASSUME NEW dp \in DOMAIN pull, PullFails(dp)
      PROVE  Inv'
  BY <1>3, PullFailsStep
<1>4. CASE EventArrives
  BY <1>4, EventArrivesStep
<1>5. CASE EventLost
  BY <1>5, EventLostStep
<1>6. ASSUME NEW dp \in DOMAIN device, NEW v \in Values(dp), DeviceChanges(dp, v)
      PROVE  Inv'
  <2>1. dp \in DOMAIN Listened(kind) /\ kind \in Kinds
    BY TypesGive DEF Inv, Steady
  <2>2. v \in Legal(dp)
    BY <2>1, ValuesLegal
  <2> QED
    BY <1>6, <2>2, ChangeStep DEF DeviceChanges
<1>7. ASSUME NEW s \in Sets, HomeKitSets(s[1], s[2])
      PROVE  Inv'
  BY <1>7, HomeKitSetsStep
<1>8. ASSUME NEW w \in writes, WriteTakesEffect(w)
      PROVE  Inv'
  BY <1>8, WriteTakesEffectStep
<1>9. ASSUME NEW w \in writes, WriteFails(w)
      PROVE  Inv'
  BY <1>9, WriteFailsStep
<1>10. CASE UNCHANGED vars
  <2>1. UNCHANGED <<kind, form, cache, shown, pull, writes, device, events, excused>>
    BY <1>10 DEF vars
  <2>2. Types /\ LastTells /\ AnswerTells /\ Settled /\ Told
    BY DEF Inv
  <2>3. Types'
    BY <2>1, <2>2, TypesNow, TypesNext
  <2>4. LastTells' /\ AnswerTells'
    BY <2>1, <2>2 DEF LastTells, AnswerTells, Coming
  <2>5. \A e : Open(e) => Open(e)'
    BY <2>1 DEF Open, Coming
  <2> QED
    BY <2>1, <2>2, <2>3, <2>4, <2>5, NothingLearnt DEF Inv
<1> QED
  BY <1>1, <1>2, <1>3, <1>4, <1>5, <1>6, <1>7, <1>8, <1>9, <1>10 DEF Next

LEMMA Invariance == Spec => []Inv
BY InitInv, NextInv, PTL DEF Spec

\* Whatever arrives in whatever order, a handler's fields keep to their
\* types, HomeKit is never given a level outside 0..100 or a light level it
\* does not take, and no write carries a level or a colour the device lacks.
THEOREM TypeCorrect == Spec => []TypeOK
<1>1. Inv => TypeOK
  <2> SUFFICES ASSUME Inv
               PROVE  TypeOK
    OBVIOUS
  <2>1. Types
    BY DEF Inv
  <2>2. ASSUME NEW w \in writes
        PROVE  /\ w.dp = "LEVEL" => w.raw \in 0..100
               /\ w.dp = "COLOR" => w.raw \in IF kind = "bsl" THEN 1..7 ELSE 0..200
    <3>1. GoodWrite(w)
      BY <2>1 DEF Types
    <3>2. w.dp = "LEVEL" => w.raw \in Legal("LEVEL")
      BY <3>1 DEF GoodWrite, Reaches
    <3> QED
      BY <3>1, <3>2, LegalIs DEF GoodWrite
  <2>3. \A ch \in DOMAIN shown \cap Levels : shown[ch] \in Percent
    BY <2>1, TypesNow
  <2> QED
    BY <2>1, <2>2, <2>3, TypesNow DEF TypeOK, Types, Levels
<1> QED
  BY <1>1, Invariance, PTL

\* When nothing is under way the cache says what the device holds: however
\* the initial pulls, the CCU's events and HomeKit's own optimistic writes
\* crossed, and unless one of them was lost, failed or came late, it settles.
THEOREM CacheConverges == Spec => []Converges
<1>1. Inv => Converges
  BY DEF Inv, Settled, Open, Coming, Converges, Quiet
<1> QED
  BY <1>1, Invariance, PTL

\* HomeKit then holds what a read would answer, without reading: each change
\* of the cache was pushed, but for the thermostat's current mode.
THEOREM HomeKitIsTold == Spec => []HomeKitIsToldOfChanges
<1>1. Inv => HomeKitIsToldOfChanges
  BY DEF Inv, Told, Open, Coming, HomeKitIsToldOfChanges, Quiet
<1> QED
  BY <1>1, Invariance, PTL
=============================================================================
