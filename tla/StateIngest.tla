---------------------------- MODULE StateIngest ----------------------------
(***************************************************************************)
(* Vehicle state ingestion of the gateway                                  *)
(* (crates/a2g-gateway/src/state_ingest.rs): a reader thread takes speed   *)
(* and gear frames from a CAN socket, verifies them and stores the two     *)
(* signals; the server thread reads both when it is about to actuate a     *)
(* Sensitive tool.  The threads share one mutex, so ingesting a frame and  *)
(* reading the state are single steps; each thread takes its time stamp    *)
(* before it asks for the mutex, and that is a step of its own.            *)
(*                                                                         *)
(* The vehicle and its two senders are the environment: every frame a      *)
(* sender makes shows the vehicle at that moment, frames get lost, a stuck *)
(* sender repeats its last frame, and frames that verification must reject *)
(* arrive in between.                                                      *)
(***************************************************************************)
EXTENDS Integers, Sequences

CONSTANTS
    FRESHNESS_MS,      \* ATTESTATION_FRESHNESS_MS, in ticks
    COUNTER_MODULUS,   \* 15 in the code; a counter of this value is invalid
    SocketCapacity,    \* frames the receive buffer of the socket holds
    ReaderActive,      \* the gateway runs with --state-ingest
    Noise,             \* frames on the bus that no sender made
    MaxSeq,            \* bound: frames each sender makes
    MaxTime            \* bound: the clock stops here

Signals == {"speed", "gear"}
Never == -1   \* Option::None of a time or a counter, and "no request"

\* Speed below or above SPEED_GATE_MMPS, gear Park or another one; "undefined"
\* is a byte that stands for no gear.
Values == {"below", "above", "Park", "Drive", "undefined"}

(***************************************************************************)
(* A frame.  seq numbers what a sender made (0: noise nobody made) and     *)
(* made_at says when; the code sees neither.                               *)
(***************************************************************************)
Frame == [signal : Signals, value : Values, counter : 0..COUNTER_MODULUS,
          crc_ok : BOOLEAN, seq : Nat, made_at : 0..MaxTime]

\* What any verification must turn away: a damaged frame, an invalid counter,
\* a byte that is no gear.
Wellformed(f) == f.crc_ok /\ f.counter < COUNTER_MODULUS /\ f.value # "undefined"

\* A frame nobody made; as it stands its CRC is wrong.
Nothing(s) == [signal |-> s, value |-> IF s = "speed" THEN "below" ELSE "undefined",
               counter |-> 0, crc_ok |-> FALSE, seq |-> 0, made_at |-> 0]

ASSUME IngestAssumption ==
    /\ FRESHNESS_MS \in Nat
    /\ COUNTER_MODULUS \in Nat \ {0}
    /\ SocketCapacity \in Nat
    /\ ReaderActive \in BOOLEAN
    /\ Noise \subseteq {f \in Frame : f.seq = 0 /\ ~Wellformed(f)}
    /\ MaxSeq \in [Signals -> Nat]
    /\ MaxTime \in Nat

Vehicles == {v \in [Signals -> Values] :
                /\ v["speed"] \in {"below", "above"}
                /\ v["gear"] \in {"Park", "Drive"}
                /\ v["gear"] = "Park" => v["speed"] = "below"}

VARIABLES
    now,          \* the monotone clock of Instant
    vehicle,      \* the true speed and gear
    sent,         \* the last frame each sender made; seq 0 before the first
    socket,       \* frames waiting to be read
    reader,       \* the reader thread: "opening", "gone", "reading" or "holding"
    held, held_at,          \* the frame it holds and the stamp it took
    value, counter, last_at, \* IngestInner, per signal
    asked,        \* the stamp of the re-gate in progress, or Never
    outcome,      \* of the last re-gate
    \* history, read by no action
    parked_at,    \* when the vehicle was last in Park
    heard_seq,    \* newest frame of each sender that was ever read
    heard_at,     \* when it was first read
    used,         \* when the frame behind each stored value was made and first read
    turned_away   \* newest frame read and rejected since one was accepted, or 0

environment == <<vehicle, sent, parked_at>>
inner == <<value, counter, last_at, used, turned_away>>
readerVars == <<socket, reader, held, held_at, heard_seq, heard_at>>
serverVars == <<asked, outcome>>
vars == <<now, environment, readerVars, inner, serverVars>>

TypeOK ==
    /\ now \in 0..MaxTime
    /\ vehicle \in Vehicles
    /\ sent \in [Signals -> Frame]
    /\ socket \in Seq(Frame)
    /\ Len(socket) <= SocketCapacity
    /\ reader \in {"opening", "gone", "reading", "holding"}
    /\ held \in Frame
    /\ held_at \in 0..MaxTime
    /\ value \in [Signals -> Values \ {"undefined"}]
    /\ counter \in [Signals -> {Never} \cup 0..(COUNTER_MODULUS - 1)]
    /\ last_at \in [Signals -> {Never} \cup 0..MaxTime]
    /\ asked \in {Never} \cup 0..MaxTime
    /\ outcome \in {"none", "refused", "written"}
    /\ parked_at \in 0..MaxTime
    /\ heard_seq \in [Signals -> Nat]
    /\ heard_at \in [Signals -> 0..MaxTime]
    /\ used \in [Signals -> [made_at : 0..MaxTime, heard_at : 0..MaxTime]]
    /\ turned_away \in [Signals -> Nat]

Init ==
    /\ now = 0
    /\ vehicle = [s \in Signals |-> IF s = "speed" THEN "below" ELSE "Park"]
    /\ sent = [s \in Signals |-> Nothing(s)]
    /\ socket = <<>>
    /\ reader = "opening"
    /\ held = Nothing("speed")
    /\ held_at = 0
    /\ value = [s \in Signals |-> IF s = "speed" THEN "below" ELSE "Park"]
    /\ counter = [s \in Signals |-> Never]
    /\ last_at = [s \in Signals |-> Never]
    /\ asked = Never
    /\ outcome = "none"
    /\ parked_at = 0
    /\ heard_seq = [s \in Signals |-> 0]
    /\ heard_at = [s \in Signals |-> 0]
    /\ used = [s \in Signals |-> [made_at |-> 0, heard_at |-> 0]]
    /\ turned_away = [s \in Signals |-> 0]
-----------------------------------------------------------------------------
(***************************************************************************)
(* The environment.                                                        *)
(***************************************************************************)
Shift ==
    /\ vehicle["speed"] = "below"
    /\ vehicle' = [vehicle EXCEPT !["gear"] = IF @ = "Park" THEN "Drive" ELSE "Park"]
    /\ parked_at' = now
    /\ UNCHANGED <<now, sent, readerVars, inner, serverVars>>

Accelerate ==
    /\ vehicle["gear"] = "Drive"
    /\ vehicle' = [vehicle EXCEPT !["speed"] = IF @ = "below" THEN "above" ELSE "below"]
    /\ UNCHANGED <<now, sent, parked_at, readerVars, inner, serverVars>>

\* A frame reaches the socket, once the reader has opened it, or is lost.
Arrive(f) ==
    \/ UNCHANGED socket
    \/ /\ reader \in {"reading", "holding"}
       /\ Len(socket) < SocketCapacity
       /\ socket' = Append(socket, f)

\* A sender makes its next frame (encode_speed_frame, encode_gear_frame).
Send(s) ==
    LET n == sent[s].seq + 1
        f == [signal |-> s, value |-> vehicle[s], counter |-> n % COUNTER_MODULUS,
              crc_ok |-> TRUE, seq |-> n, made_at |-> now]
    IN  /\ n <= MaxSeq[s]
        /\ sent' = [sent EXCEPT ![s] = f]
        /\ Arrive(f)
        /\ UNCHANGED <<now, vehicle, parked_at, reader, held, held_at,
                       heard_seq, heard_at, inner, serverVars>>

\* A stuck sender, or the bus, repeats its last frame.
Repeat(s) ==
    /\ sent[s].seq > 0
    /\ Arrive(sent[s])
    /\ UNCHANGED <<now, environment, reader, held, held_at,
                   heard_seq, heard_at, inner, serverVars>>

\* Another frame with this CAN ID.
Disturb(f) ==
    /\ Arrive(f)
    /\ UNCHANGED <<now, environment, reader, held, held_at,
                   heard_seq, heard_at, inner, serverVars>>

Tick ==
    /\ now < MaxTime
    /\ now' = now + 1
    /\ parked_at' = IF vehicle["gear"] = "Park" THEN now + 1 ELSE parked_at
    /\ UNCHANGED <<vehicle, sent, readerVars, inner, serverVars>>
-----------------------------------------------------------------------------
(***************************************************************************)
(* The reader thread.  CanReader::open succeeds, or the thread ends and    *)
(* the state stays fail-safe.                                              *)
(***************************************************************************)
OpenSocket ==
    /\ ReaderActive
    /\ reader = "opening"
    /\ reader' \in {"reading", "gone"}
    /\ UNCHANGED <<now, environment, socket, held, held_at,
                   heard_seq, heard_at, inner, serverVars>>

\* read_frame, and the stamp taken of the moment it returned.
ReadFrame ==
    LET f == Head(socket)
    IN  /\ reader = "reading"
        /\ socket # <<>>
        /\ socket' = Tail(socket)
        /\ reader' = "holding"
        /\ held' = f
        /\ held_at' = now
        /\ IF f.seq > heard_seq[f.signal]
             THEN /\ heard_seq' = [heard_seq EXCEPT ![f.signal] = f.seq]
                  /\ heard_at' = [heard_at EXCEPT ![f.signal] = now]
             ELSE UNCHANGED <<heard_seq, heard_at>>
        /\ UNCHANGED <<now, environment, inner, serverVars>>

VerifyTrailerSlip(f, last_counter) ==   \* accepts a repeated counter
    /\ f.crc_ok
    /\ f.counter < COUNTER_MODULUS

VerifyTrailerRising(f, last_counter) ==   \* forgets that the counter comes round
    /\ f.crc_ok
    /\ f.counter < COUNTER_MODULUS
    /\ f.counter > last_counter

\* verify_trailer: integrity, then range, then not the last accepted counter.
VerifyTrailer(f, last_counter) ==
    /\ f.crc_ok
    /\ f.counter < COUNTER_MODULUS
    /\ f.counter # last_counter

\* verify_speed_frame and verify_gear_frame.
VerifyFrame(f, last_counter) ==
    /\ VerifyTrailer(f, last_counter)
    /\ f.value # "undefined"

\* The loop turns and the frame is gone.
Release ==
    /\ reader' = "reading"
    /\ held' = Nothing("speed")
    /\ held_at' = 0

\* ingest_speed_frame and ingest_gear_frame, under the mutex.
AcceptFrame ==
    LET s == held.signal
    IN  /\ reader = "holding"
        /\ VerifyFrame(held, counter[s])
        /\ value' = [value EXCEPT ![s] = held.value]
        /\ counter' = [counter EXCEPT ![s] = held.counter]
        /\ last_at' = [last_at EXCEPT ![s] = held_at]
        /\ used' = [used EXCEPT ![s] = [made_at |-> held.made_at, heard_at |-> heard_at[s]]]
        /\ turned_away' = [turned_away EXCEPT ![s] = 0]
        /\ Release
        /\ UNCHANGED <<now, environment, socket, heard_seq, heard_at, serverVars>>

RejectFrame ==
    LET s == held.signal
    IN  /\ reader = "holding"
        /\ ~VerifyFrame(held, counter[s])
        /\ turned_away' = [turned_away EXCEPT ![s] = IF held.seq > @ THEN held.seq ELSE @]
        /\ Release
        /\ UNCHANGED <<now, environment, socket, heard_seq, heard_at,
                       value, counter, last_at, used, serverVars>>
-----------------------------------------------------------------------------
(***************************************************************************)
(* The server thread, at the re-gate of a Sensitive tool.  A stamp taken   *)
(* by the reader after `t` counts as fresh: duration_since saturates.      *)
(***************************************************************************)
SignalFresh(s, t) == last_at[s] # Never /\ t - last_at[s] <= FRESHNESS_MS

StateFreshSlip(t) == \E s \in Signals : SignalFresh(s, t)   \* one signal is enough

StateFresh(t) == \A s \in Signals : SignalFresh(s, t)

\* is_parked_and_stopped of current_state; the fail-safe state is neither.
ParkedAndStopped(t) == StateFresh(t) /\ value["speed"] = "below" /\ value["gear"] = "Park"

GatePasses(t) == ParkedAndStopped(t) \/ (~StateFresh(t) /\ ~ReaderActive)

AskState ==
    /\ asked = Never
    /\ asked' = now
    /\ outcome' = "none"
    /\ UNCHANGED <<now, environment, readerVars, inner>>

ReGate ==
    /\ asked # Never
    /\ outcome' = IF GatePasses(asked) THEN "written" ELSE "refused"
    /\ asked' = Never
    /\ UNCHANGED <<now, environment, readerVars, inner>>

Next ==
    \/ Shift
    \/ Accelerate
    \/ \E s \in Signals : Send(s) \/ Repeat(s)
    \/ \E f \in Noise : Disturb(f)
    \/ Tick
    \/ OpenSocket
    \/ ReadFrame
    \/ AcceptFrame
    \/ RejectFrame
    \/ AskState
    \/ ReGate

Spec == Init /\ [][Next]_vars
-----------------------------------------------------------------------------
\* The re-gate lets the actuation through.
GateOpens == asked # Never /\ asked' = Never /\ outcome' = "written"

(***************************************************************************)
(* With --state-ingest a Sensitive actuation passes the re-gate only if    *)
(* the vehicle really was in Park within the freshness window before the   *)
(* request was checked, plus the time the gear frame needed from its       *)
(* making to its first reading: a lost, repeated or late frame, a reader   *)
(* that never started and a half-updated state never open the gate.        *)
(***************************************************************************)
OpensOnlyIfRecentlyParked ==
    [][ReaderActive /\ GateOpens
          => asked - parked_at <= FRESHNESS_MS + used["gear"].heard_at - used["gear"].made_at]_vars

(***************************************************************************)
(* A stuck sender ages out: whatever it repeats, a value is believed for   *)
(* no longer than the freshness window after the frame that carries it was *)
(* first read ("a repeated/frozen counter indicates a stuck or replaying   *)
(* sender").                                                               *)
(***************************************************************************)
FrozenSenderAgesOut ==
    [][ReaderActive /\ GateOpens
          => \A s \in Signals : asked - used[s].heard_at <= FRESHNESS_MS]_vars

(***************************************************************************)
(* A sender that goes on is heard again: two frames it made are turned     *)
(* away in a row only if a whole turn of the alive counter lies between    *)
(* them.                                                                   *)
(***************************************************************************)
LiveSenderIsHeard ==
    [][\A s \in Signals :
          turned_away[s] # 0 /\ turned_away'[s] > turned_away[s]
             => turned_away'[s] - turned_away[s] >= COUNTER_MODULUS]_vars
=============================================================================
