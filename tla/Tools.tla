-------------------------------- MODULE Tools --------------------------------
(***************************************************************************)
(* What a tool's name says about it (a2g-core vehicle.rs and cockpit.rs),  *)
(* and the state of the vehicle some tools depend on.                      *)
(*                                                                         *)
(* A tool is its name cut at the dots: "vehicle.door.unlock" is            *)
(* <<"vehicle", "door", "unlock">>, the empty name is <<"">>.              *)
(***************************************************************************)
EXTENDS Integers, Sequences, SequencesExt

CONSTANT NotANumber     \* a speed that is NaN, infinite or subnormal

----------------------------------------------------------------------------
(* VehicleProperty names of AAOS, by the domain of writing them.           *)

VhalComfort ==
    {"HVAC_TEMPERATURE_SET", "HVAC_FAN_SPEED", "HVAC_FAN_DIRECTION", "HVAC_POWER_ON",
     "HVAC_DEFROSTER", "HVAC_AUTO_ON", "HVAC_SEAT_TEMPERATURE", "SEAT_MEMORY_SELECT",
     "SEAT_FORE_AFT_MOVE", "SEAT_HEIGHT_MOVE", "SEAT_LUMBAR_FORE_AFT_MOVE",
     "SEAT_HEADREST_ANGLE_MOVE", "CABIN_LIGHTS_SWITCH", "READING_LIGHTS_SWITCH",
     "DISPLAY_BRIGHTNESS"}
VhalSensitive ==
    {"WINDOW_POS", "WINDOW_MOVE", "DOOR_LOCK", "DOOR_MOVE", "EV_CHARGE_PORT_OPEN"}
VhalForbidden ==
    {"CRUISE_CONTROL_COMMAND", "LANE_CENTERING_ASSIST_COMMAND",
     "HANDS_ON_DETECTION_ENABLED", "ELECTRONIC_STABILITY_CONTROL_ENABLED",
     "EV_STOPPING_MODE", "EV_CHARGE_CURRENT_DRAW_LIMIT"}

\* The properties that are only read are in no domain, like unknown names.
classify_vhal_property(name) ==
    CASE name \in VhalForbidden -> "Forbidden"
      [] name \in VhalSensitive -> "Sensitive"
      [] name \in VhalComfort   -> "Comfort"
      [] OTHER                  -> "NonVehicle"

\* starts_with("<top>.")
Below(top, tool) == Len(tool) > 1 /\ tool[1] = top

\* starts_with("vehicle.<domain>.") for one of the domains.
InVehicleDomain(tool, domains) == Len(tool) > 2 /\ tool[1] = "vehicle" /\ tool[2] \in domains

\* An unknown name below "vehicle." is Sensitive, as doors and locks are.
classify_vehicle_tool(tool) ==
    IF ~Below("vehicle", tool)
    THEN IF Len(tool) = 1 THEN classify_vhal_property(tool[1]) ELSE "NonVehicle"
    ELSE CASE InVehicleDomain(tool, {"powertrain", "chassis", "adas", "drive", "steering",
                                     "braking", "throttle"}) -> "Forbidden"
           [] InVehicleDomain(tool, {"door", "window", "trunk", "lock"}) -> "Sensitive"
           [] InVehicleDomain(tool, {"navigation", "phone"}) -> "Convenience"
           [] InVehicleDomain(tool, {"climate", "seat", "lighting", "media"}) -> "Comfort"
           [] OTHER -> "Sensitive"

----------------------------------------------------------------------------
(* Cockpit tools: communication, payment, personal data.                   *)

classify_comms(tool) ==
    CASE tool \in {<<"comms", "call", "place">>, <<"comms", "sms", "send">>} ->
            "CommsSensitiveHitl"
      [] tool \in {<<"comms", "contacts", "read">>, <<"comms", "history", "read">>} ->
            "CommsReadPiiGated"
      [] OTHER -> "SensitiveHitlUnknown"

classify_pii(tool) ==
    CASE tool = <<"pii", "profile", "export">> -> "Forbidden"
      [] tool[Len(tool)] = "read" -> "PiiReadGated"
      [] OTHER -> "SensitiveHitlUnknown"

classify_cockpit_tool(tool) ==
    CASE Below("comms", tool) -> classify_comms(tool)
      [] Below("pay", tool)   -> "PayAlwaysHitl"
      [] Below("pii", tool)   -> classify_pii(tool)
      [] OTHER -> "NonCockpit"

always_hitl(domain) ==
    domain \in {"CommsSensitiveHitl", "PayAlwaysHitl", "SensitiveHitlUnknown"}

requires_pii_grant(domain) == domain \in {"PiiReadGated", "CommsReadPiiGated"}

----------------------------------------------------------------------------
(* The vehicle's state.  Speeds are read in thousandths of km/h and kept   *)
(* in whole mm/s; 1389 mm/s is 5 km/h rounded up.                          *)

Gears == {"Park", "Reverse", "Neutral", "Drive"}
SPEED_GATE_MMPS == 1389
FAIL_SAFE_SPEED_MMPS == 277500
SPEED_MAX == 1000000

SpeedAccepted(speed) == speed # NotANumber /\ speed >= 0 /\ speed <= SPEED_MAX

\* round(speed * 1000 / 3600), of an accepted speed.  Rounded down instead:
speed_kph_to_mmpsSlip(speed) == (5 * speed) \div 18

speed_kph_to_mmps(speed) == (10 * speed + 18) \div 36

fail_safe == [speed_mmps |-> FAIL_SAFE_SPEED_MMPS, gear |-> "Drive", actor |-> "Driver"]

is_parked_and_stopped(state) == state.speed_mmps < SPEED_GATE_MMPS /\ state.gear = "Park"

SeatPositionTools ==
    {<<"SEAT_FORE_AFT_MOVE">>, <<"SEAT_HEIGHT_MOVE">>, <<"SEAT_LUMBAR_FORE_AFT_MOVE">>,
     <<"SEAT_HEADREST_ANGLE_MOVE">>, <<"vehicle", "seat", "fore_aft">>,
     <<"vehicle", "seat", "height">>, <<"vehicle", "seat", "lumbar">>,
     <<"vehicle", "seat", "headrest">>}

\* The driver's seat does not move while the car does.
SeatBlocked(tool, state) ==
    /\ tool \in SeatPositionTools
    /\ state.actor = "Driver"
    /\ state.speed_mmps >= SPEED_GATE_MMPS
=============================================================================
