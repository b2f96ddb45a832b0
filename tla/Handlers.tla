------------------------------ MODULE Handlers ------------------------------
(***************************************************************************)
(* One accessory's handler (src/services/impl) between HomeKit and the     *)
(* CCU.  It caches what it knows of its channel, answers HomeKit from the  *)
(* cache, and learns of changes in three ways that overtake each other:    *)
(* the initial pull of each datapoint, the events the CCU pushes (in       *)
(* order, through CcuClient.handleEvent), and its own writes, which most   *)
(* setters put into the cache before they are sent.                        *)
(*                                                                         *)
(* The handler's kind is chosen at the start.  Each kind is a table: what  *)
(* it listens to and pulls, how a value changes the cache, what HomeKit is *)
(* told, what HomeKit may set and which write that sends.                  *)
(*                                                                         *)
(* Units: booleans are 0 and 1; a native LEVEL is counted in hundredths of *)
(* its 0..1 range, so that it is also the percentage it means;             *)
(* temperatures are counted in half degrees, a tilt's LEVEL_2 in 900ths, a *)
(* colour temperature's LEVEL in 1800ths and its mireds in fifths, a hue   *)
(* in 199ths of a degree, a light level in units of 0.0001 lux, a humidity *)
(* and a meter's current and energy in tenths, its voltage and power and a *)
(* battery's voltage in hundredths: in these units every conversion below  *)
(* is exact.  COLTEMP is the LEVEL of the sibling channel.  A datapoint    *)
(* with two spellings (LOWBAT, BRIGHTNESS, ...) has one here.  The reply   *)
(* to a write is left out (only HomeKit's caller sees it).                 *)
(***************************************************************************)
EXTENDS Integers, Sequences, FiniteSets

CONSTANTS
  Kinds,      \* the handlers to model
  Level,      \* percentages that HomeKit sets and blinds and dimmers take
  Temp,       \* temperatures, in half degrees
  Hue,        \* hues that HomeKit sets, in degrees
  MaxPending  \* bound: writes and events under way, together

ASSUME KindsAssumption ==
  Kinds \subseteq {"switch", "sensor", "lock", "blind", "slat", "dimmer", "coltemp",
                   "rgb", "bsl", "battery", "weather", "meter", "thermostat"}
ASSUME LevelAssumption == Level \subseteq 0..100
ASSUME TempAssumption == Temp \subseteq Int
ASSUME HueAssumption == Hue \subseteq 0..360

VARIABLES
  kind,     \* the handler's class
  form,     \* external: the firmware sends values typed, or as text
  cache,    \* its private fields
  shown,    \* the value HomeKit holds of each characteristic
  pull,     \* the initial getValue of each datapoint
  writes,   \* setValue calls under way
  device,   \* external: the datapoints of the channel
  events,   \* external: <<datapoint, value>> pushed, oldest first
  excused   \* history: the datapoints on which the cache may be wrong

vars == <<kind, form, cache, shown, pull, writes, device, events, excused>>

Off == 9   \* 4.5 degrees, the CCU's "off"
Bool == {0, 1}

-----------------------------------------------------------------------------
(* Value coercion (src/util/sanitize.ts)                                   *)

clamp(n, lo, hi) == IF n < lo THEN lo ELSE IF n > hi THEN hi ELSE n

\* Fault: the naive `value * 100`.
normalizeNaively(h) == h

\* h is the value in hundredths: up to 1 it is taken for a fraction.
normalizeLevelToPercent(h) ==
  IF h \in -100..100 THEN clamp(h, 0, 100) ELSE clamp((h + 50) \div 100, 0, 100)

\* The fraction in hundredths.
percentToLevelFraction(p) == clamp(p, 0, 100)

-----------------------------------------------------------------------------
(* Angles, colours and measurements                                        *)

\* The angle for a LEVEL_2, rounded: -90 for 0 and 90 for 1.
tiltAngle(v) == (clamp(v, 0, 900) + 2) \div 5 - 90

tiltFraction(angle) == 5 * (angle + 90)

\* 140 mireds for a LEVEL of 0, 500 for 1; not rounded.
mired(v) == 700 + clamp(v, 0, 1800)

HMIP_BSL_COLOR_TO_HUE == <<246, 111, 176, 0, 319, 49>>

\* 360 degrees.
FullTurn == 199 * 360

hueDistance(h, i) ==
  LET d == h - 199 * HMIP_BSL_COLOR_TO_HUE[i]
      abs == IF d < 0 THEN -d ELSE d
  IN  IF abs < FullTurn - abs THEN abs ELSE FullTurn - abs

\* The colour that is nearest in hue; white for a faint one.
snapHueToBslIndex(hue, sat) ==
  IF sat < 10 THEN 7
  ELSE CHOOSE i \in 1..6 :
         /\ \A j \in 1..6 : hueDistance(hue, i) <= hueDistance(hue, j)
         /\ \A j \in 1..(i - 1) : hueDistance(hue, i) < hueDistance(hue, j)

\* What HomeKit is to show for a COLOR: an index of the discrete lights
\* ("bsl"), a position on the hue ring or white for the continuous ones.
applyColorFromCcu(k, v) ==
  IF k = "bsl" THEN IF v \in 1..6 THEN [hue |-> 199 * HMIP_BSL_COLOR_TO_HUE[v], sat |-> 100]
                                  ELSE [hue |-> 0, sat |-> IF v \in {0, 7} THEN 0 ELSE 100]
  ELSE IF v >= 200 THEN [hue |-> 0, sat |-> 0] ELSE [hue |-> 360 * v, sat |-> 100]

\* The COLOR that a hue and a saturation are written as.
writeColor(k, c) ==
  IF k = "bsl" THEN snapHueToBslIndex(c.hue, c.sat)
  ELSE IF c.sat < 10 THEN 200 ELSE (c.hue + 180) \div 360

\* A tenth of v, rounded.
round(v) == (v + 5) \div 10

Humidity(v) == round(clamp(v, 0, 1000))
Lux(v) == clamp(v, 1, 1000000000)
Charge(v) == clamp((5 * (v - 240) + 2) \div 4, 0, 100)

-----------------------------------------------------------------------------
(* The handlers: Xxx(c, dp, v) is the cache after a value of dp arrived    *)

BlindFields == [current |-> 0, target |-> 0]
LockFields  == [current |-> "UNKNOWN", target |-> "SECURED"]
WeatherFields == [temp |-> 40, humidity |-> 50, lux |-> 10000, raining |-> 0]
MeterFields == [voltage |-> 0, current |-> 0, power |-> 0, total |-> 0, lastPowerW |-> 0]
SlatFields  == [current |-> 0, target |-> 0, currentTilt |-> 0, targetTilt |-> 0]
ClimateFields == [temp |-> 40, target |-> 40, mode |-> "OFF"]

Switch(c, dp, v) == [c EXCEPT !.on = v]

Sensor(c, dp, v) == [c EXCEPT !.on = v]

LockState(v) == IF v = 1 THEN "UNSECURED" ELSE "SECURED"

Lock(c, dp, v) ==
  CASE dp = "STATE"           -> [current |-> LockState(v), target |-> LockState(v)]
    [] dp = "ERROR" /\ v > 0  -> [c EXCEPT !.current = "JAMMED"]
    [] dp = "ERROR" /\ v <= 0 -> c

\* Fault: a LEVEL event moves only the current position.
BlindKeepsTarget(c, dp, v) ==
  CASE dp = "LEVEL"   -> [c EXCEPT !.current = normalizeLevelToPercent(v)]
    [] dp = "WORKING" -> c

Blind(c, dp, v) ==
  CASE dp = "LEVEL"   -> [current |-> normalizeLevelToPercent(v),
                          target  |-> normalizeLevelToPercent(v)]
    [] dp = "WORKING" -> c

SlatBlind(c, dp, v) ==
  CASE dp = "LEVEL"   -> [c EXCEPT !.current = normalizeLevelToPercent(v),
                                   !.target = normalizeLevelToPercent(v)]
    [] dp = "LEVEL_2" -> [c EXCEPT !.currentTilt = tiltAngle(v), !.targetTilt = tiltAngle(v)]
    [] dp = "WORKING" -> c

Dimmer(c, dp, v) == [c EXCEPT !.level = normalizeLevelToPercent(v)]

ColorTempDimmer(c, dp, v) ==
  IF dp = "LEVEL" THEN Dimmer(c, dp, v) ELSE [c EXCEPT !.mired = mired(v)]

RgbLight(c, dp, v) ==
  IF dp = "LEVEL" THEN Dimmer(c, dp, v)
  ELSE [c EXCEPT !.hue = applyColorFromCcu(kind, v).hue, !.sat = applyColorFromCcu(kind, v).sat]

Battery(c, dp, v) ==
  IF dp = "LOW_BAT" THEN [c EXCEPT !.low = v] ELSE [c EXCEPT !.charge = Charge(v)]

Thermostat(c, dp, v) ==
  CASE dp = "ACTUAL_TEMPERATURE" -> [c EXCEPT !.temp = v]
    [] dp = "SET_TEMPERATURE"    -> [c EXCEPT !.target = v]

Weather(c, dp, v) ==
  CASE dp = "TEMPERATURE"  -> [c EXCEPT !.temp = v]
    [] dp = "HUMIDITY"     -> [c EXCEPT !.humidity = Humidity(v)]
    [] dp = "ILLUMINATION" -> [c EXCEPT !.lux = Lux(v)]
    [] dp = "RAINING"      -> [c EXCEPT !.raining = v]

\* All but the last power are values of characteristics without an onGet.
PowerMeter(c, dp, v) ==
  CASE dp = "VOLTAGE"        -> [c EXCEPT !.voltage = round(v)]
    [] dp = "CURRENT"        -> [c EXCEPT !.current = round(v)]
    [] dp = "POWER"          -> [c EXCEPT !.lastPowerW = v, !.power = round(v)]
    [] dp = "ENERGY_COUNTER" -> [c EXCEPT !.total = round(v)]

\* The coloured light, by its subtype "continuous" or "discrete".
Rgb == {"rgb", "bsl"}

Handle(c, dp, v) ==
  CASE kind = "switch"     -> Switch(c, dp, v)
    [] kind = "sensor"     -> Sensor(c, dp, v)
    [] kind = "lock"       -> Lock(c, dp, v)
    [] kind = "blind"      -> Blind(c, dp, v)
    [] kind = "slat"       -> SlatBlind(c, dp, v)
    [] kind = "dimmer"     -> Dimmer(c, dp, v)
    [] kind = "coltemp"    -> ColorTempDimmer(c, dp, v)
    [] kind \in Rgb        -> RgbLight(c, dp, v)
    [] kind = "battery"    -> Battery(c, dp, v)
    [] kind = "weather"    -> Weather(c, dp, v)
    [] kind = "meter"      -> PowerMeter(c, dp, v)
    [] kind = "thermostat" -> Thermostat(c, dp, v)

Fields(k) ==
  CASE k \in {"switch", "sensor"} -> [on |-> 0]
    [] k = "lock"                 -> LockFields
    [] k = "blind"                -> BlindFields
    [] k = "slat"                 -> SlatFields
    [] k = "dimmer"               -> [level |-> 0]
    [] k = "coltemp"              -> [level |-> 0, mired |-> 700]
    [] k \in Rgb                  -> [level |-> 0, hue |-> 0, sat |-> 0]
    [] k = "battery"              -> [low |-> 0, charge |-> 100]
    [] k = "weather"              -> WeatherFields
    [] k = "meter"                -> MeterFields
    [] k = "thermostat"           -> ClimateFields

\* The datapoints with a listener, and the values the CCU has for them.
Listened(k) ==
  CASE k \in {"switch", "sensor"} -> [STATE |-> Bool]
    [] k = "lock"                 -> [STATE |-> Bool, ERROR |-> {0, 1}]
    [] k = "blind"                -> [LEVEL |-> Level, WORKING |-> Bool]
    [] k = "slat"                 -> [LEVEL |-> Level, LEVEL_2 |-> {0, 297, 900},
                                      WORKING |-> Bool]
    [] k = "dimmer"               -> [LEVEL |-> Level]
    [] k = "coltemp"              -> [LEVEL |-> Level, COLTEMP |-> {0, 594, 1800}]
    [] k = "rgb"                  -> [LEVEL |-> Level, COLOR |-> {0, 67, 200}]
    [] k = "bsl"                  -> [LEVEL |-> Level, COLOR |-> {0, 2, 7}]
    [] k = "battery"              -> [LOW_BAT |-> Bool, OPERATING_VOLTAGE |-> {200, 261, 330}]
    [] k = "weather"              -> [TEMPERATURE |-> Temp, HUMIDITY |-> {0, 504, 1010},
                                      ILLUMINATION |-> {0, 5, 2000000000}, RAINING |-> Bool]
    [] k = "meter"                -> [VOLTAGE |-> {23014, 23016}, CURRENT |-> {0, 15},
                                      POWER |-> {0, 10, 11}, ENERGY_COUNTER |-> {0, 15}]
    [] k = "thermostat"           -> [ACTUAL_TEMPERATURE |-> Temp, SET_TEMPERATURE |-> Temp]

\* Bound: these datapoints share no field with one another (a tilt, colour or
\* colour temperature with the LEVEL beside it, two measurements), so that one
\* behaviour exercises one of them.
Groups(k) ==
  LET all == DOMAIN Listened(k)
      own == all \ {"LEVEL", "WORKING"}
  IN  IF k \in {"slat", "coltemp"} \cup Rgb THEN {own, all \ own}
      ELSE IF k \in {"battery", "weather", "meter"} THEN {{dp} : dp \in all} ELSE {all}

Values(dp) == Listened(kind)[dp]

Pulled(k) == DOMAIN Listened(k) \ {"ERROR", "WORKING"}

\* What the handler takes a value for.  Numbers are parsed from a text, but
\* these are read with Boolean(raw), and every text but the empty one is true.
Read(dp, v) == IF form = "text" /\ dp \in {"STATE", "WORKING"} THEN 1 ELSE v

\* What the onGet handlers answer.
derivePositionState(c) ==
  CASE c.target > c.current -> "INCREASING"
    [] c.target < c.current -> "DECREASING"
    [] c.target = c.current -> "STOPPED"

deriveCurrentMode(c) ==
  IF c.target > Off /\ c.target > c.temp THEN "HEAT" ELSE "OFF"

Get(k, c) ==
  CASE k \in {"switch", "sensor"} -> [On |-> c.on]
    [] k = "lock"       -> [LockCurrentState |-> c.current, LockTargetState |-> c.target]
    [] k = "blind"      -> [CurrentPosition |-> c.current, TargetPosition |-> c.target,
                            PositionState |-> derivePositionState(c)]
    [] k = "slat"       -> [CurrentPosition |-> c.current, TargetPosition |-> c.target,
                            PositionState |-> derivePositionState(c),
                            CurrentTilt |-> c.currentTilt, TargetTilt |-> c.targetTilt]
    [] k = "dimmer"     -> [On |-> IF c.level > 0 THEN 1 ELSE 0, Brightness |-> c.level]
    [] k = "coltemp"    -> [On |-> IF c.level > 0 THEN 1 ELSE 0, Brightness |-> c.level,
                            ColorTemperature |-> c.mired]
    [] k \in Rgb        -> [On |-> IF c.level > 0 THEN 1 ELSE 0, Brightness |-> c.level,
                            Hue |-> c.hue, Saturation |-> c.sat]
    [] k = "battery"    -> [StatusLowBattery |-> c.low, BatteryLevel |-> c.charge]
    [] k = "weather"    -> [CurrentTemperature |-> c.temp, CurrentRelativeHumidity |-> c.humidity,
                            CurrentAmbientLightLevel |-> c.lux, LeakDetected |-> c.raining]
    [] k = "meter"      -> [Voltage |-> c.voltage, ElectricCurrent |-> c.current,
                            Consumption |-> c.power, TotalConsumption |-> c.total,
                            On |-> IF c.lastPowerW > 0 THEN 1 ELSE 0,
                            OutletInUse |-> IF c.lastPowerW > 10 THEN 1 ELSE 0]
    [] k = "thermostat" -> [CurrentTemperature |-> c.temp, TargetTemperature |-> c.target,
                            TargetMode |-> c.mode, CurrentMode |-> deriveCurrentMode(c)]

\* Fault: a light's LEVEL event pushes the brightness only.
BrightnessOnly == {"Brightness"}

\* What a light's LEVEL pushes.
LightPushes == {"On", "Brightness"}

BlindPushes(dp) ==
  CASE dp = "LEVEL"   -> {"CurrentPosition", "TargetPosition", "PositionState"}
    [] dp = "LEVEL_2" -> {"CurrentTilt", "TargetTilt"}
    [] dp = "WORKING" -> {"PositionState"}

ThermostatPushes(how, dp) ==
  CASE dp = "ACTUAL_TEMPERATURE" ->
         {"CurrentTemperature"} \cup (IF how = "event" THEN {"CurrentMode"} ELSE {})
    [] dp = "SET_TEMPERATURE" ->
         {"TargetTemperature"} \cup (IF how = "pull" THEN {"CurrentMode"} ELSE {})

MeasurementPushes(dp) ==
  CASE dp = "LOW_BAT"           -> {"StatusLowBattery"}
    [] dp = "OPERATING_VOLTAGE" -> {"BatteryLevel"}
    [] dp = "TEMPERATURE"       -> {"CurrentTemperature"}
    [] dp = "HUMIDITY"          -> {"CurrentRelativeHumidity"}
    [] dp = "ILLUMINATION"      -> {"CurrentAmbientLightLevel"}
    [] dp = "RAINING"           -> {"LeakDetected"}
    [] dp = "VOLTAGE"           -> {"Voltage"}
    [] dp = "CURRENT"           -> {"ElectricCurrent"}
    [] dp = "POWER"             -> {"Consumption", "On", "OutletInUse"}
    [] dp = "ENERGY_COUNTER"    -> {"TotalConsumption"}

\* The characteristics that an event or a pull of dp pushes to HomeKit.
Pushed(how, dp) ==
  CASE kind \in {"switch", "sensor"} -> {"On"}
    [] kind = "lock"  -> {"LockCurrentState"} \cup (IF dp = "STATE" THEN {"LockTargetState"} ELSE {})
    [] kind \in {"blind", "slat"} -> BlindPushes(dp)
    [] kind \in {"dimmer", "coltemp"} \cup Rgb ->
         IF dp = "LEVEL" THEN LightPushes ELSE DOMAIN shown \ {"On", "Brightness"}
    [] kind \in {"battery", "weather", "meter"} -> MeasurementPushes(dp)
    [] kind = "thermostat" -> ThermostatPushes(how, dp)

\* A write: HomeKit set `char` to `asked`, which sends `raw` to datapoint `dp`.
Write(char, asked, dp, raw) == [char |-> char, asked |-> asked, dp |-> dp, raw |-> raw]

\* What HomeKit may set: the write it sends and the cache it leaves.
DimmerSets ==
  {<<Write("On", v, "LEVEL",
           percentToLevelFraction(IF v = 0 THEN 0 ELSE IF cache.level > 1 THEN cache.level ELSE 1)),
     cache>> : v \in Bool}
  \cup {<<Write("Brightness", v, "LEVEL", percentToLevelFraction(normalizeLevelToPercent(100 * v))),
          [cache EXCEPT !.level = normalizeLevelToPercent(100 * v)]>> : v \in Level}

BlindSets ==
  {<<Write("TargetPosition", v, "LEVEL", percentToLevelFraction(normalizeLevelToPercent(100 * v))),
     [cache EXCEPT !.target = normalizeLevelToPercent(100 * v)]>> : v \in Level}

SlatSets ==
  BlindSets \cup
  {<<Write("TargetTilt", a, "LEVEL_2", tiltFraction(a)), [cache EXCEPT !.targetTilt = a]>> :
     a \in {-90, 0, 90}}

ColorTempSets ==
  DimmerSets \cup
  {<<Write("ColorTemperature", m, "COLTEMP", m - 700), [cache EXCEPT !.mired = m]>> :
     m \in {700, 1295, 2500}}

\* HomeKit sets hue and saturation one by one; each writes the colour that
\* the cache then holds.
ColorSets ==
  LET Ask(char, v, c) == <<Write(char, v, "COLOR", writeColor(kind, c)), c>>
  IN  {Ask("Hue", 199 * h, [cache EXCEPT !.hue = 199 * h]) : h \in Hue}
      \cup {Ask("Saturation", s, [cache EXCEPT !.sat = s]) : s \in {0, 100}}

LockSets ==
  {<<Write("LockTargetState", LockState(v), "STATE", v),
     [cache EXCEPT !.target = LockState(v)]>> : v \in Bool}

ThermostatSets ==
  {<<Write("TargetTemperature", v, "SET_TEMPERATURE", v), [cache EXCEPT !.target = v]>> : v \in Temp}
  \cup {<<Write("TargetMode", "OFF", "SET_TEMPERATURE", Off), [cache EXCEPT !.mode = "OFF"]>>,
        <<Write("TargetMode", "AUTO", "AUTO_MODE", 1), [cache EXCEPT !.mode = "AUTO"]>>,
        <<Write("TargetMode", "HEAT", "MANU_MODE", cache.target), [cache EXCEPT !.mode = "HEAT"]>>}

Sets ==
  CASE kind = "switch"     -> {<<Write("On", v, "STATE", v), [cache EXCEPT !.on = v]>> : v \in Bool}
    [] kind = "lock"       -> LockSets
    [] kind = "blind"      -> BlindSets
    [] kind = "dimmer"     -> DimmerSets
    [] kind = "slat"       -> SlatSets
    [] kind = "coltemp"    -> ColorTempSets
    [] kind \in Rgb        -> DimmerSets \cup ColorSets
    [] kind = "thermostat" -> ThermostatSets
    [] kind \in {"sensor", "battery", "weather", "meter"} -> {}

-----------------------------------------------------------------------------
(* The steps                                                               *)

\* attach() has registered the listeners and sent the pulls; HomeKit has read
\* the defaults.  Nothing is known of the channel, whatever its state.  The
\* handlers that parse every value never see the difference in form.
Init ==
  /\ kind \in Kinds
  /\ form \in IF kind \in {"switch", "sensor", "lock", "blind", "slat"} THEN {"typed", "text"}
                                                                        ELSE {"typed"}
  /\ cache = Fields(kind)
  /\ shown = Get(kind, cache)
  /\ \E used \in Groups(kind) :
       /\ device \in {d \in [used -> UNION {Values(dp) : dp \in used}] :
                       \A dp \in used : d[dp] \in Values(dp)}
       /\ pull = [dp \in used \cap Pulled(kind) |-> [at |-> "asked"]]
  /\ writes = {}
  /\ events = <<>>
  /\ excused = DOMAIN pull

\* A value of dp reaches the handler, by an event or by the answer to a pull.
Learn(how, dp, v) ==
  /\ cache' = Handle(cache, dp, Read(dp, v))
  /\ shown' = [ch \in DOMAIN shown |->
                 CASE ch \notin Pushed(how, dp)   -> shown[ch]
                   [] ch \in Pushed(how, dp) /\ dp = "WORKING" /\ Read(dp, v) = 0 -> "STOPPED"
                   [] OTHER                       -> Get(kind, cache')[ch]]

\* The answer to a pull is late once a later value of dp was pushed and is gone.
Late(dp) ==
  [p \in DOMAIN pull |->
     IF p = dp /\ pull[p].at = "answered" THEN [pull[p] EXCEPT !.late = TRUE] ELSE pull[p]]

\* External: the CCU reads the datapoint for the pull.
CcuAnswers(dp) ==
  /\ pull[dp].at = "asked"
  /\ pull' = [pull EXCEPT ![dp] = [at |-> "answered", value |-> device[dp], late |-> FALSE]]
  /\ UNCHANGED <<kind, form, cache, shown, writes, device, events, excused>>

PullSettles(dp) ==
  /\ pull[dp].at = "answered"
  /\ Learn("pull", dp, pull[dp].value)
  /\ excused' = IF pull[dp].late THEN excused \cup {dp} ELSE excused \ {dp}
  /\ pull' = [pull EXCEPT ![dp] = [at |-> "done"]]
  /\ UNCHANGED <<kind, form, writes, device, events>>

\* The pull fails: `.catch(() => undefined)`.
PullFails(dp) ==
  /\ pull[dp].at # "done"
  /\ pull' = [pull EXCEPT ![dp] = [at |-> "done"]]
  /\ UNCHANGED <<kind, form, cache, shown, writes, device, events, excused>>

\* handleEvent calls the listener of the datapoint.
EventArrives ==
  /\ events # <<>>
  /\ LET dp == Head(events)[1] v == Head(events)[2]
     IN  /\ Learn("event", dp, v)
         /\ excused' = excused \ {dp}
         /\ pull' = Late(dp)
  /\ events' = Tail(events)
  /\ UNCHANGED <<kind, form, writes, device>>

\* External: the CCU cannot deliver the event and drops it.
EventLost ==
  /\ events # <<>>
  /\ excused' = excused \cup {Head(events)[1]}
  /\ pull' = Late(Head(events)[1])
  /\ events' = Tail(events)
  /\ UNCHANGED <<kind, form, cache, shown, writes, device>>

\* External: the datapoint takes a value, and the CCU pushes it.
Change(dp, v) ==
  /\ Len(events) + Cardinality(writes') <= MaxPending - 1
  /\ device' = [device EXCEPT ![dp] = v]
  /\ events' = Append(events, <<dp, v>>)

\* External: somebody operates the device, or it measures something new.
DeviceChanges(dp, v) ==
  /\ UNCHANGED writes
  /\ Change(dp, v)
  /\ UNCHANGED <<kind, form, cache, shown, pull, excused>>

\* HomeKit sets a characteristic: the setter runs up to its await.
HomeKitSets(w, c) ==
  /\ w.dp \in DOMAIN device \cup {"AUTO_MODE", "MANU_MODE"}
  /\ Len(events) + Cardinality(writes \cup {w}) <= MaxPending
  /\ cache' = c
  /\ shown' = [shown EXCEPT ![w.char] = w.asked]
  /\ writes' = writes \cup {w}
  /\ UNCHANGED <<kind, form, pull, device, events, excused>>

\* External: the device carries a write out.  AUTO_MODE lets the CCU's
\* schedule set the temperature, MANU_MODE sets the one it carries.
WriteTakesEffect(w) ==
  /\ writes' = writes \ {w}
  /\ IF w.dp = "AUTO_MODE"
       THEN \E v \in Temp : Change("SET_TEMPERATURE", v)
       ELSE Change(IF w.dp = "MANU_MODE" THEN "SET_TEMPERATURE" ELSE w.dp, w.raw)
  /\ UNCHANGED <<kind, form, cache, shown, pull, excused>>

\* The write fails: wrapSet hands the error to HomeKit, the cache stays.
WriteFails(w) ==
  /\ writes' = writes \ {w}
  /\ excused' = excused \cup {IF w.dp \in DOMAIN device THEN w.dp ELSE "SET_TEMPERATURE"}
  /\ UNCHANGED <<kind, form, cache, shown, pull, device, events>>

Next ==
  \/ \E dp \in DOMAIN pull : CcuAnswers(dp) \/ PullSettles(dp) \/ PullFails(dp)
  \/ EventArrives \/ EventLost
  \/ \E dp \in DOMAIN device : \E v \in Values(dp) : DeviceChanges(dp, v)
  \/ \E s \in Sets : HomeKitSets(s[1], s[2])
  \/ \E w \in writes : WriteTakesEffect(w) \/ WriteFails(w)

Spec == Init /\ [][Next]_vars

-----------------------------------------------------------------------------
(* Properties                                                              *)

Percent == 0..100
Angle == -90..90
Ring == 0..FullTurn
Mireds == 700..2500

OnCache      == [on : Bool]
LockCache    == [current : {"UNKNOWN", "SECURED", "UNSECURED", "JAMMED"},
                 target : {"SECURED", "UNSECURED"}]
BlindCache   == [current : Percent, target : Percent]
SlatCache    == [current : Percent, target : Percent, currentTilt : Angle, targetTilt : Angle]
DimmerCache  == [level : Percent]
ColTempCache == [level : Percent, mired : Mireds]
RgbCache     == [level : Percent, hue : Ring, sat : Percent]
BatteryCache == [low : Bool, charge : Percent]
WeatherCache == [temp : Int, humidity : Percent, lux : Int, raining : Bool]
MeterCache   == [voltage : Int, current : Int, power : Int, total : Int, lastPowerW : Int]
ClimateCache == [temp : Int, target : Int, mode : {"OFF", "AUTO", "HEAT"}]

Cached ==
  CASE kind \in {"switch", "sensor"} -> OnCache
    [] kind = "lock"       -> LockCache
    [] kind = "blind"      -> BlindCache
    [] kind = "slat"       -> SlatCache
    [] kind = "dimmer"     -> DimmerCache
    [] kind = "coltemp"    -> ColTempCache
    [] kind \in Rgb        -> RgbCache
    [] kind = "battery"    -> BatteryCache
    [] kind = "weather"    -> WeatherCache
    [] kind = "meter"      -> MeterCache
    [] kind = "thermostat" -> ClimateCache

\* Every variable keeps to the values the code can give it; HomeKit is never
\* shown a level outside 0..100, which it would answer with "Not Responding",
\* nor a light level below 0.0001 lux.
TypeOK ==
  /\ kind \in Kinds /\ form \in {"typed", "text"}
  /\ cache \in Cached
  /\ DOMAIN shown = DOMAIN Get(kind, cache)
  /\ \A ch \in DOMAIN shown \cap {"Brightness", "CurrentPosition", "TargetPosition",
                                  "BatteryLevel", "CurrentRelativeHumidity"} :
       shown[ch] \in Percent
  /\ kind = "weather" => cache.lux >= 1
  /\ DOMAIN pull = Pulled(kind) \cap DOMAIN device
  /\ \A w \in writes : /\ w.dp = "LEVEL" => w.raw \in 0..100
                       /\ w.dp = "COLOR" => w.raw \in IF kind = "bsl" THEN 1..7 ELSE 0..200
  /\ excused \subseteq DOMAIN device

\* Nothing is under way between the three parties.
Quiet ==
  /\ events = <<>> /\ writes = {}
  /\ \A dp \in DOMAIN pull : pull[dp].at = "done"

\* A cache c says that datapoint dp has value v; a measurement's does if
\* learning v again would not change it.
Says(c, dp, v) ==
  /\ kind \in {"switch", "sensor"} => c.on = v
  /\ kind = "lock" => c.target = LockState(v) /\ c.current \in {LockState(v), "JAMMED"}
  /\ kind \in {"blind", "slat"} /\ dp = "LEVEL" => c.current = v /\ c.target = v
  /\ dp = "LEVEL_2" => c.currentTilt = tiltAngle(v) /\ c.targetTilt = tiltAngle(v)
  /\ kind \in {"dimmer", "coltemp"} \cup Rgb /\ dp = "LEVEL" => c.level = v
  /\ dp = "COLTEMP" => c.mired = mired(v)
  /\ dp = "COLOR" => [hue |-> c.hue, sat |-> c.sat] = applyColorFromCcu(kind, v)
  /\ kind \in {"battery", "weather", "meter"} => Handle(c, dp, v) = c
  /\ dp = "ACTUAL_TEMPERATURE" => c.temp = v
  /\ dp = "SET_TEMPERATURE" => c.target = v

\* Pulls, events and optimistic writes that cross each other settle on the
\* device's state, as the handler reads it.  The cache stays wrong only if an event was lost, a write
\* failed, a pull failed before any event came, or the answer to the initial
\* pull arrived after a later event and undid it.
Converges == Quiet => \A dp \in DOMAIN pull \ excused : Says(cache, dp, Read(dp, device[dp]))

\* Then HomeKit also holds what a read would answer, without reading: every
\* change was pushed, but for the thermostat's CurrentHeatingCoolingState, which
\* depends on the target and is pushed with the temperature only.
HomeKitIsToldOfChanges ==
  Quiet /\ excused = {} =>
    \A ch \in DOMAIN shown \ {"CurrentMode"} : shown[ch] = Get(kind, cache)[ch]
=============================================================================
