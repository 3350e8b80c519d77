------------------------- MODULE StateIngestProofs -------------------------
(***************************************************************************)
(* Theorems about StateIngest.tla, for any window, modulus, socket, noise  *)
(* and bounds.                                                             *)
(***************************************************************************)
EXTENDS StateIngest, TLAPS

\* Changing a function at one argument keeps its type.
LEMMA ExceptType ==
    ASSUME NEW S, NEW T, NEW f \in [S -> T], NEW x \in S, NEW y \in T
    PROVE  [f EXCEPT ![x] = y] \in [S -> T]
  OBVIOUS

\* Reading from the front of the socket and adding at its end.
LEMMA SocketFacts ==
    ASSUME NEW q \in Seq(Frame)
    PROVE  /\ \A f \in Frame : /\ Append(q, f) \in Seq(Frame)
                               /\ Len(Append(q, f)) = Len(q) + 1
                               /\ DOMAIN Append(q, f) = 1..(Len(q) + 1)
                               /\ Append(q, f)[Len(q) + 1] = f
                               /\ \A i \in DOMAIN q : Append(q, f)[i] = q[i]
           /\ q # <<>> => /\ Head(q) \in Frame
                          /\ Head(q) = q[1]
                          /\ 1 \in DOMAIN q
                          /\ Tail(q) \in Seq(Frame)
                          /\ Len(Tail(q)) = Len(q) - 1
                          /\ \A i \in DOMAIN Tail(q) : i + 1 \in DOMAIN q /\ Tail(q)[i] = q[i + 1]
  OBVIOUS

\* A counter of the code's range.
LEMMA CounterRange ==
    ASSUME NEW n \in Nat PROVE n % COUNTER_MODULUS \in 0..(COUNTER_MODULUS - 1)
  BY IngestAssumption

\* Two numbers with one alive counter are a whole turn apart.
LEMMA WholeTurn ==
    ASSUME NEW m \in Nat \ {0}, NEW a \in Nat, NEW b \in Nat, a > b, a % m = b % m
    PROVE  a - b >= m
  OBVIOUS
-----------------------------------------------------------------------------
(***************************************************************************)
(* Every frame on its way is noise, or what its sender made earlier.  If a *)
(* gear frame says Park, the vehicle was in Park when it was made.  Times  *)
(* t (the clock) and p (the last one in Park) are parameters.              *)
(***************************************************************************)
Genuine(f, t, p) ==
    IF f.seq = 0 THEN ~Wellformed(f)
    ELSE /\ Wellformed(f)
         /\ f.counter = f.seq % COUNTER_MODULUS
         /\ f.made_at <= t
         /\ f.signal = "gear" /\ f.value = "Park" => f.made_at <= p

TruthInv ==
    /\ parked_at <= now
    /\ vehicle["gear"] = "Park" => parked_at = now
    /\ \A s \in Signals : sent[s].signal = s /\ Genuine(sent[s], now, parked_at)
    /\ \A i \in DOMAIN socket : Genuine(socket[i], now, parked_at)
    /\ Genuine(held, now, parked_at)
    /\ last_at["gear"] # Never /\ value["gear"] = "Park" => used["gear"].made_at <= parked_at

(***************************************************************************)
(* The frames of a sender arrive in the order it made them.                *)
(***************************************************************************)
OrderInv ==
    /\ \A s \in Signals : heard_seq[s] <= sent[s].seq
    /\ \A i \in DOMAIN socket :
          socket[i].seq > 0 => /\ socket[i].seq <= sent[socket[i].signal].seq
                               /\ socket[i].seq >= heard_seq[socket[i].signal]
    /\ \A i, j \in DOMAIN socket :
          i <= j /\ socket[j].seq > 0 /\ socket[i].signal = socket[j].signal
             => socket[i].seq <= socket[j].seq

(***************************************************************************)
(* The stored counter is that of the newest frame ever read, unless the    *)
(* reader still holds this very frame from its first reading; so a stored  *)
(* value dates from the first reading of its frame.                        *)
(***************************************************************************)
SettledInv ==
    /\ reader = "holding" /\ held.seq > 0 => held.seq = heard_seq[held.signal]
    /\ \A s \in Signals :
          /\ heard_seq[s] > 0 =>
                \/ counter[s] = heard_seq[s] % COUNTER_MODULUS
                \/ /\ reader = "holding" /\ held.signal = s
                   /\ held.seq = heard_seq[s] /\ held_at = heard_at[s]
          /\ last_at[s] # Never => last_at[s] = used[s].heard_at

IInv == TypeOK /\ TruthInv /\ OrderInv /\ SettledInv

-----------------------------------------------------------------------------
\* The placeholder is a frame.
LEMMA NothingType == \A s \in Signals : Nothing(s) \in Frame /\ ~Wellformed(Nothing(s))
  BY IngestAssumption DEF Nothing, Frame, Signals, Values, Wellformed

\* The placeholder is genuine at any time: nobody made it.
LEMMA GenuineNothing == \A t, p : Genuine(Nothing("speed"), t, p)
  <1>1. Nothing("speed").seq = 0 /\ ~Wellformed(Nothing("speed"))
    BY NothingType DEF Signals, Nothing
  <1> QED
    BY <1>1 DEF Genuine

\* A frame a sender makes now is well-formed.
LEMMA MadeFrameType ==
    ASSUME TypeOK, NEW s \in Signals
    PROVE  LET n == sent[s].seq + 1
               f == [signal |-> s, value |-> vehicle[s], counter |-> n % COUNTER_MODULUS,
                     crc_ok |-> TRUE, seq |-> n, made_at |-> now]
           IN  f \in Frame /\ Wellformed(f)
  <1> DEFINE n == sent[s].seq + 1
             c == n % COUNTER_MODULUS
             f == [signal |-> s, value |-> vehicle[s], counter |-> c,
                   crc_ok |-> TRUE, seq |-> n, made_at |-> now]
  <1>1. sent[s] \in Frame
    BY DEF TypeOK
  <1>2. n \in Nat
    BY <1>1 DEF Frame
  <1>3. c \in 0..(COUNTER_MODULUS - 1)
    BY <1>2, CounterRange
  <1>4. c \in 0..COUNTER_MODULUS /\ c < COUNTER_MODULUS /\ now \in 0..MaxTime
    BY <1>3, IngestAssumption DEF TypeOK
  <1>5. vehicle[s] \in Values \ {"undefined"}
    BY DEF TypeOK, Vehicles, Values, Signals
  <1> HIDE DEF n, c
  <1>6. f \in Frame /\ Wellformed(f)
    BY <1>2, <1>4, <1>5 DEF Frame, Wellformed
  <1> QED
    BY <1>6 DEF n, c

\* What arrives is added at the end of the socket, or the socket is unchanged.
LEMMA ArriveType ==
    ASSUME TypeOK, NEW f \in Frame, Arrive(f)
    PROVE  /\ socket' \in Seq(Frame)
           /\ Len(socket') <= SocketCapacity
           /\ \/ socket' = socket
              \/ /\ DOMAIN socket' = 1..(Len(socket) + 1)
                 /\ socket'[Len(socket) + 1] = f
                 /\ \A i \in DOMAIN socket : socket'[i] = socket[i]
  <1>1. socket \in Seq(Frame) /\ Len(socket) <= SocketCapacity
    BY DEF TypeOK
  <1>2. CASE UNCHANGED socket
    BY <1>1, <1>2
  <1>3. CASE Len(socket) < SocketCapacity /\ socket' = Append(socket, f)
    <2>1. socket' \in Seq(Frame) /\ Len(socket') = Len(socket) + 1
      BY <1>1, <1>3, SocketFacts
    <2>2. Len(socket') <= SocketCapacity
      BY <1>1, <1>3, <2>1, IngestAssumption
    <2> QED
      BY <1>1, <1>3, <2>1, <2>2, SocketFacts
  <1> QED
    BY <1>2, <1>3 DEF Arrive

\* So every frame in the socket was there before, or is the one that arrived.
LEMMA ArrivesAtEnd ==
    ASSUME TypeOK, NEW f \in Frame, Arrive(f)
    PROVE  \A i \in DOMAIN socket' :
              \/ \E j \in DOMAIN socket : socket'[i] = socket[j]
              \/ socket'[i] = f
  <1>1. socket \in Seq(Frame)
    BY DEF TypeOK
  <1>2. CASE socket' = socket
    BY <1>2
  <1>3. CASE /\ DOMAIN socket' = 1..(Len(socket) + 1)
             /\ socket'[Len(socket) + 1] = f
             /\ \A i \in DOMAIN socket : socket'[i] = socket[i]
    <2>1. \A i \in DOMAIN socket' : i \in DOMAIN socket \/ i = Len(socket) + 1
      BY <1>1, <1>3
    <2> QED
      BY <1>3, <2>1
  <1> QED
    BY <1>2, <1>3, ArriveType

\* Every step keeps the types.
LEMMA TypeInductive == TypeOK /\ [Next]_vars => TypeOK'
  <1> SUFFICES ASSUME TypeOK, [Next]_vars
               PROVE  TypeOK'
    OBVIOUS
  <1> USE DEF environment, inner, readerVars, serverVars
  <1>1. CASE Shift
    <2>1. vehicle' \in Vehicles
      BY <1>1 DEF Shift, TypeOK, Vehicles, Signals, Values
    <2> QED
      BY <1>1, <2>1 DEF Shift, TypeOK
  <1>2. CASE Accelerate
    <2>1. vehicle' \in Vehicles
      BY <1>2 DEF Accelerate, TypeOK, Vehicles, Signals, Values
    <2> QED
      BY <1>2, <2>1 DEF Accelerate, TypeOK
  <1>3. ASSUME NEW s \in Signals, Send(s) PROVE TypeOK'
    <2> DEFINE n == sent[s].seq + 1
               f == [signal |-> s, value |-> vehicle[s], counter |-> n % COUNTER_MODULUS,
                     crc_ok |-> TRUE, seq |-> n, made_at |-> now]
    <2>1. f \in Frame
      BY MadeFrameType
    <2>2. Arrive(f) /\ sent' = [sent EXCEPT ![s] = f]
      BY <1>3 DEF Send
    <2>3. socket' \in Seq(Frame) /\ Len(socket') <= SocketCapacity
      BY <2>1, <2>2, ArriveType
    <2>4. sent' \in [Signals -> Frame]
      BY <2>1, <2>2, ExceptType DEF TypeOK
    <2> QED
      BY <1>3, <2>3, <2>4 DEF Send, TypeOK
  <1>4. ASSUME NEW s \in Signals, Repeat(s) PROVE TypeOK'
    <2>1. sent[s] \in Frame
      BY DEF TypeOK
    <2>2. socket' \in Seq(Frame) /\ Len(socket') <= SocketCapacity
      BY <1>4, <2>1, ArriveType DEF Repeat
    <2> QED
      BY <1>4, <2>2 DEF Repeat, TypeOK
  <1>5. ASSUME NEW f \in Noise, Disturb(f) PROVE TypeOK'
    <2>1. f \in Frame
      BY IngestAssumption
    <2>2. socket' \in Seq(Frame) /\ Len(socket') <= SocketCapacity
      BY <1>5, <2>1, ArriveType DEF Disturb
    <2> QED
      BY <1>5, <2>2 DEF Disturb, TypeOK
  <1>6. CASE Tick
    <2>1. now' \in 0..MaxTime /\ parked_at' \in 0..MaxTime
      BY <1>6, IngestAssumption DEF Tick, TypeOK
    <2> QED
      BY <1>6, <2>1 DEF Tick, TypeOK
  <1>7. CASE OpenSocket
    BY <1>7 DEF OpenSocket, TypeOK
  <1>8. CASE ReadFrame
    <2>1. /\ socket \in Seq(Frame) /\ socket # <<>> /\ Len(socket) <= SocketCapacity
          /\ SocketCapacity \in Nat
      BY <1>8, IngestAssumption DEF ReadFrame, TypeOK
    <2>2. socket' \in Seq(Frame) /\ held' \in Frame /\ held' = Head(socket)
      BY <1>8, <2>1, SocketFacts DEF ReadFrame
    <2>3. Len(socket') <= SocketCapacity
      BY <1>8, <2>1, SocketFacts DEF ReadFrame
    <2>4. held'.signal \in Signals /\ held'.seq \in Nat
      BY <2>2 DEF Frame
    <2>5. heard_seq' \in [Signals -> Nat] /\ heard_at' \in [Signals -> 0..MaxTime]
      <3>1. /\ heard_seq \in [Signals -> Nat] /\ heard_at \in [Signals -> 0..MaxTime]
            /\ now \in 0..MaxTime
        BY DEF TypeOK
      <3>2. \/ UNCHANGED <<heard_seq, heard_at>>
            \/ /\ heard_seq' = [heard_seq EXCEPT ![Head(socket).signal] = Head(socket).seq]
               /\ heard_at' = [heard_at EXCEPT ![Head(socket).signal] = now]
        BY <1>8 DEF ReadFrame
      <3>3. Head(socket).signal \in Signals /\ Head(socket).seq \in Nat
        BY <2>2, <2>4
      <3> QED
        BY <3>1, <3>2, <3>3, ExceptType
    <2> QED
      BY <1>8, <2>2, <2>3, <2>5 DEF ReadFrame, TypeOK
  <1>9. CASE AcceptFrame
    <2>1. held \in Frame
      BY DEF TypeOK
    <2>2. /\ held.signal \in Signals /\ held.value \in Values \ {"undefined"}
          /\ held.counter \in 0..(COUNTER_MODULUS - 1) /\ held.made_at \in 0..MaxTime
      BY <1>9, <2>1, IngestAssumption DEF AcceptFrame, VerifyFrame, VerifyTrailer, Frame
    <2>3. /\ value' \in [Signals -> Values \ {"undefined"}]
          /\ counter' \in [Signals -> {Never} \cup 0..(COUNTER_MODULUS - 1)]
          /\ last_at' \in [Signals -> {Never} \cup 0..MaxTime]
      BY <1>9, <2>2, ExceptType DEF AcceptFrame, TypeOK
    <2>4. [made_at |-> held.made_at, heard_at |-> heard_at[held.signal]]
             \in [made_at : 0..MaxTime, heard_at : 0..MaxTime]
      BY <2>2 DEF TypeOK
    <2>5. used' \in [Signals -> [made_at : 0..MaxTime, heard_at : 0..MaxTime]]
      BY <1>9, <2>2, <2>4, ExceptType DEF AcceptFrame, TypeOK
    <2>6. turned_away' \in [Signals -> Nat]
      BY <1>9, <2>2, ExceptType DEF AcceptFrame, TypeOK
    <2>7. reader' = "reading" /\ held' \in Frame /\ held_at' \in 0..MaxTime
      BY <1>9, NothingType, IngestAssumption DEF AcceptFrame, Release, Signals
    <2> QED
      BY <1>9, <2>3, <2>5, <2>6, <2>7 DEF AcceptFrame, TypeOK
  <1>10. CASE RejectFrame
    <2>1. held.signal \in Signals /\ held.seq \in Nat
      BY DEF TypeOK, Frame
    <2>2. turned_away' \in [Signals -> Nat]
      BY <1>10, <2>1, ExceptType DEF RejectFrame, TypeOK
    <2>3. reader' = "reading" /\ held' \in Frame /\ held_at' \in 0..MaxTime
      BY <1>10, NothingType, IngestAssumption DEF RejectFrame, Release, Signals
    <2> QED
      BY <1>10, <2>2, <2>3 DEF RejectFrame, TypeOK
  <1>11. CASE AskState
    BY <1>11 DEF AskState, TypeOK
  <1>12. CASE ReGate
    BY <1>12 DEF ReGate, TypeOK
  <1>13. CASE UNCHANGED vars
    BY <1>13 DEF vars, TypeOK
  <1> QED
    BY <1>1, <1>2, <1>3, <1>4, <1>5, <1>6, <1>7, <1>8, <1>9, <1>10, <1>11, <1>12, <1>13 DEF Next

\* The types hold initially.
LEMMA TypeInitially == Init => TypeOK
  BY IngestAssumption DEF Init, TypeOK, Signals, Vehicles, Values, Nothing, Frame, Never

\* In every reachable state the variables have their types (StateIngest).
THEOREM TypeCorrect == Spec => []TypeOK
  BY TypeInitially, TypeInductive, PTL DEF Spec
-----------------------------------------------------------------------------
\* A genuine frame stays genuine while time passes and the vehicle moves.
LEMMA GenuineStays ==
    ASSUME NEW f \in Frame, NEW t \in Nat, NEW p \in Nat, NEW t2 \in Nat, NEW p2 \in Nat,
           Genuine(f, t, p), t <= t2, p <= p2
    PROVE  Genuine(f, t2, p2)
  <1>1. f.made_at \in Nat
    BY IngestAssumption DEF Frame
  <1> QED
    BY <1>1 DEF Genuine

\* If the clock and the vehicle go on as they do, and what is new among the
\* senders' frames, in the socket and in the reader's hands is genuine,
\* TruthInv stays.
LEMMA TruthKept ==
    ASSUME TypeOK, TypeOK', TruthInv, now <= now', parked_at <= parked_at', parked_at' <= now',
           vehicle'["gear"] = "Park" => parked_at' = now',
           \A s \in Signals :
              \/ sent'[s] = sent[s]
              \/ sent'[s].signal = s /\ Genuine(sent'[s], now', parked_at'),
           \A i \in DOMAIN socket' :
              \/ \E j \in DOMAIN socket : socket'[i] = socket[j]
              \/ Genuine(socket'[i], now', parked_at'),
           held' = held \/ Genuine(held', now', parked_at'),
           UNCHANGED <<value, last_at, used>>
    PROVE  TruthInv'
  <1>1. now \in Nat /\ now' \in Nat /\ parked_at \in Nat /\ parked_at' \in Nat
    BY IngestAssumption DEF TypeOK
  <1>2. \A f \in Frame : Genuine(f, now, parked_at) => Genuine(f, now', parked_at')
    BY <1>1, GenuineStays
  <1>3. \A s \in Signals : sent'[s].signal = s /\ Genuine(sent'[s], now', parked_at')
    <2>1. \A s \in Signals :
             sent[s] \in Frame /\ sent[s].signal = s /\ Genuine(sent[s], now, parked_at)
      BY DEF TypeOK, TruthInv
    <2> QED
      BY <1>2, <2>1
  <1>4. \A i \in DOMAIN socket' : Genuine(socket'[i], now', parked_at')
    <2>1. \A j \in DOMAIN socket : socket[j] \in Frame /\ Genuine(socket[j], now, parked_at)
      BY DEF TypeOK, TruthInv
    <2> QED
      BY <1>2, <2>1
  <1>5. Genuine(held', now', parked_at')
    BY <1>2 DEF TypeOK, TruthInv
  <1>6. last_at'["gear"] # Never /\ value'["gear"] = "Park" => used'["gear"].made_at <= parked_at'
    <2>1. used["gear"].made_at \in Nat
      BY IngestAssumption DEF TypeOK, Signals
    <2> QED
      BY <1>1, <2>1 DEF TruthInv
  <1> QED
    BY <1>3, <1>4, <1>5, <1>6 DEF TruthInv

\* Every step keeps TruthInv.
LEMMA TruthInductive == TypeOK /\ TypeOK' /\ TruthInv /\ [Next]_vars => TruthInv'
  <1> SUFFICES ASSUME TypeOK, TypeOK', TruthInv, [Next]_vars
               PROVE  TruthInv'
    OBVIOUS
  <1> USE DEF environment, inner, readerVars, serverVars
  <1>0. /\ now \in Nat /\ parked_at \in Nat /\ parked_at <= now
        /\ vehicle["gear"] = "Park" => parked_at = now
    BY IngestAssumption DEF TypeOK, TruthInv
  <1>1. CASE Shift
    BY <1>0, <1>1, TruthKept DEF Shift
  <1>2. CASE Accelerate
    <2>1. vehicle'["gear"] = "Drive"
      BY <1>2 DEF Accelerate, TypeOK, Vehicles
    <2> QED
      BY <1>0, <1>2, <2>1, TruthKept DEF Accelerate
  <1>3. ASSUME NEW s \in Signals, Send(s) PROVE TruthInv'
    <2> DEFINE n == sent[s].seq + 1
               f == [signal |-> s, value |-> vehicle[s], counter |-> n % COUNTER_MODULUS,
                     crc_ok |-> TRUE, seq |-> n, made_at |-> now]
    <2>1. f \in Frame /\ Wellformed(f)
      BY MadeFrameType
    <2>2. Arrive(f) /\ sent' = [sent EXCEPT ![s] = f]
          /\ UNCHANGED <<now, vehicle, parked_at, held, value, last_at, used>>
      BY <1>3 DEF Send
    <2>3. f.signal = s /\ Genuine(f, now, parked_at)
      <3>1. sent[s] \in Frame
        BY DEF TypeOK
      <3>2. n \in Nat /\ n # 0
        BY <3>1 DEF Frame
      <3> HIDE DEF n
      <3> QED
        BY <1>0, <2>1, <3>2 DEF Genuine
    <2> HIDE DEF f
    <2>4. \A i \in DOMAIN socket' :
              \/ \E j \in DOMAIN socket : socket'[i] = socket[j]
              \/ socket'[i] = f
      BY <2>1, <2>2, ArrivesAtEnd
    <2>5. sent'[s] = f /\ \A x \in Signals \ {s} : sent'[x] = sent[x]
      <3>1. sent \in [Signals -> Frame]
        BY DEF TypeOK
      <3> QED
        BY <2>2, <3>1
    <2> QED
      BY <1>0, <2>2, <2>3, <2>4, <2>5, TruthKept
  <1>4. ASSUME NEW s \in Signals, Repeat(s) PROVE TruthInv'
    <2>1. sent[s] \in Frame /\ Arrive(sent[s]) /\ Genuine(sent[s], now, parked_at)
      BY <1>4 DEF Repeat, TypeOK, TruthInv
    <2>2. \A i \in DOMAIN socket' :
              \/ \E j \in DOMAIN socket : socket'[i] = socket[j]
              \/ socket'[i] = sent[s]
      BY <2>1, ArrivesAtEnd
    <2> QED
      BY <1>0, <1>4, <2>1, <2>2, TruthKept DEF Repeat
  <1>5. ASSUME NEW f \in Noise, Disturb(f) PROVE TruthInv'
    <2>1. f \in Frame /\ Arrive(f) /\ Genuine(f, now, parked_at)
      BY <1>5, IngestAssumption DEF Disturb, Genuine
    <2>2. \A i \in DOMAIN socket' :
              \/ \E j \in DOMAIN socket : socket'[i] = socket[j]
              \/ socket'[i] = f
      BY <2>1, ArrivesAtEnd
    <2> QED
      BY <1>0, <1>5, <2>1, <2>2, TruthKept DEF Disturb
  <1>6. CASE Tick
    BY <1>0, <1>6, TruthKept DEF Tick
  <1>7. CASE OpenSocket
    BY <1>0, <1>7, TruthKept DEF OpenSocket
  <1>8. CASE ReadFrame
    <2>1. socket \in Seq(Frame) /\ socket # <<>> /\ socket' = Tail(socket) /\ held' = Head(socket)
          /\ UNCHANGED <<now, vehicle, parked_at, sent, value, last_at, used>>
      BY <1>8 DEF ReadFrame, TypeOK
    <2>2. Genuine(held', now, parked_at)
      BY <2>1, SocketFacts DEF TruthInv
    <2>3. \A i \in DOMAIN socket' : \E j \in DOMAIN socket : socket'[i] = socket[j]
      BY <2>1, SocketFacts
    <2> QED
      BY <1>0, <2>1, <2>2, <2>3, TruthKept
  <1>9. CASE AcceptFrame
    <2>1. /\ held \in Frame /\ held.signal \in Signals /\ Genuine(held, now, parked_at)
          /\ VerifyFrame(held, counter[held.signal])
      BY <1>9 DEF AcceptFrame, TypeOK, TruthInv, Frame
    <2>2. held.seq # 0
      BY <2>1 DEF Genuine, VerifyFrame, VerifyTrailer, Wellformed
    <2>3. CASE held.signal = "gear"
      <3>1. value'["gear"] = held.value /\ used'["gear"].made_at = held.made_at
        BY <1>9, <2>3 DEF AcceptFrame, TypeOK, Signals
      <3>2. held.value = "Park" => held.made_at <= parked_at
        BY <2>1, <2>2, <2>3 DEF Genuine
      <3>3. value'["gear"] = "Park" => used'["gear"].made_at <= parked_at'
        BY <1>9, <3>1, <3>2 DEF AcceptFrame
      <3> QED
        BY <1>9, <3>3, GenuineNothing DEF AcceptFrame, Release, TruthInv
    <2>4. CASE held.signal # "gear"
      <3>1. value'["gear"] = value["gear"] /\ used'["gear"] = used["gear"]
            /\ last_at'["gear"] = last_at["gear"]
        BY <1>9, <2>4 DEF AcceptFrame, TypeOK, Signals
      <3> QED
        BY <1>9, <3>1, GenuineNothing DEF AcceptFrame, Release, TruthInv
    <2> QED
      BY <2>3, <2>4
  <1>10. CASE RejectFrame
    BY <1>0, <1>10, TruthKept, GenuineNothing DEF RejectFrame, Release
  <1>11. CASE AskState
    BY <1>0, <1>11, TruthKept DEF AskState
  <1>12. CASE ReGate
    BY <1>0, <1>12, TruthKept DEF ReGate
  <1>13. CASE UNCHANGED vars
    BY <1>0, <1>13, TruthKept DEF vars
  <1> QED
    BY <1>1, <1>2, <1>3, <1>4, <1>5, <1>6, <1>7, <1>8, <1>9, <1>10, <1>11, <1>12, <1>13 DEF Next
-----------------------------------------------------------------------------
\* Every step keeps the order of arrival.
LEMMA OrderInductive == TypeOK /\ TypeOK' /\ TruthInv /\ OrderInv /\ [Next]_vars => OrderInv'
  <1> SUFFICES ASSUME TypeOK, TypeOK', TruthInv, OrderInv, [Next]_vars
               PROVE  OrderInv'
    OBVIOUS
  <1> USE DEF environment, inner, readerVars, serverVars
  <1>0. /\ sent \in [Signals -> Frame] /\ heard_seq \in [Signals -> Nat] /\ socket \in Seq(Frame)
        /\ \A s \in Signals : sent[s].seq \in Nat /\ heard_seq[s] \in Nat
        /\ \A i \in DOMAIN socket : socket[i].seq \in Nat /\ socket[i].signal \in Signals
    <2>1. /\ sent \in [Signals -> Frame] /\ heard_seq \in [Signals -> Nat]
          /\ socket \in Seq(Frame)
      BY DEF TypeOK
    <2>2. \A f \in Frame : f.seq \in Nat /\ f.signal \in Signals
      BY DEF Frame
    <2>3. \A i \in DOMAIN socket : socket[i] \in Frame
      BY <2>1
    <2> QED
      BY <2>1, <2>2, <2>3
  <1>a. ASSUME UNCHANGED <<socket, sent, heard_seq>> PROVE OrderInv'
    BY <1>a DEF OrderInv
  \* A frame that noise or a sender puts at the end comes after the others.
  <1>b. ASSUME NEW f \in Frame, Arrive(f), UNCHANGED heard_seq,
               f.seq > 0 => f.seq = sent'[f.signal].seq,
               \A s \in Signals : sent'[s].seq \in Nat /\ sent[s].seq <= sent'[s].seq
        PROVE  OrderInv'
    <2>0. f.seq \in Nat /\ f.signal \in Signals
      BY DEF Frame
    <2>1. \A s \in Signals : heard_seq'[s] <= sent'[s].seq
      BY <1>0, <1>b DEF OrderInv
    <2>2. CASE socket' = socket
      BY <1>0, <1>b, <2>1, <2>2 DEF OrderInv
    <2>3. CASE /\ DOMAIN socket' = 1..(Len(socket) + 1)
               /\ socket'[Len(socket) + 1] = f
               /\ \A i \in DOMAIN socket : socket'[i] = socket[i]
      <3>1. \A i \in DOMAIN socket' : i \in DOMAIN socket \/ i = Len(socket) + 1
        BY <1>0, <2>3
      <3>2. \A i \in DOMAIN socket' :
               socket'[i].seq > 0 => /\ socket'[i].seq <= sent'[socket'[i].signal].seq
                                     /\ socket'[i].seq >= heard_seq'[socket'[i].signal]
        <4>1. TAKE i \in DOMAIN socket'
        <4>2. CASE i \in DOMAIN socket
          <5>1. /\ socket'[i] = socket[i] /\ socket[i].signal \in Signals
                /\ socket[i].seq \in Nat
            BY <1>0, <2>3, <4>2
          <5>2. socket[i].seq > 0 => /\ socket[i].seq <= sent[socket[i].signal].seq
                                     /\ socket[i].seq >= heard_seq[socket[i].signal]
            BY <4>2 DEF OrderInv
          <5>3. /\ sent[socket[i].signal].seq \in Nat /\ sent'[socket[i].signal].seq \in Nat
                /\ sent[socket[i].signal].seq <= sent'[socket[i].signal].seq
                /\ heard_seq' = heard_seq
            BY <1>0, <1>b, <5>1
          <5> QED
            BY <5>1, <5>2, <5>3
        <4>3. CASE i = Len(socket) + 1
          BY <1>b, <2>0, <2>1, <2>3, <4>3
        <4> QED
          BY <3>1, <4>2, <4>3
      <3>3. \A i, j \in DOMAIN socket' :
               i <= j /\ socket'[j].seq > 0 /\ socket'[i].signal = socket'[j].signal
                  => socket'[i].seq <= socket'[j].seq
        <4>1. TAKE i \in DOMAIN socket', j \in DOMAIN socket'
        <4>2. CASE i \in DOMAIN socket /\ j \in DOMAIN socket
          BY <2>3, <4>2 DEF OrderInv
        <4>3. CASE i \in DOMAIN socket /\ j = Len(socket) + 1
          <5>1. ASSUME f.seq > 0, socket[i].signal = f.signal PROVE socket[i].seq <= f.seq
            BY <1>0, <1>b, <2>0, <4>3, <5>1 DEF OrderInv
          <5> QED
            BY <2>3, <4>3, <5>1
        <4>4. CASE i = Len(socket) + 1 /\ j = Len(socket) + 1
          BY <2>0, <2>3, <4>4
        <4>5. CASE i = Len(socket) + 1 /\ j \in DOMAIN socket
          BY <1>0, <4>5
        <4> QED
          BY <3>1, <4>2, <4>3, <4>4, <4>5
      <3> QED
        BY <2>1, <3>2, <3>3 DEF OrderInv
    <2> QED
      BY <1>b, <2>2, <2>3, ArriveType
  <1>3. ASSUME NEW s \in Signals, Send(s) PROVE OrderInv'
    <2> DEFINE n == sent[s].seq + 1
               f == [signal |-> s, value |-> vehicle[s], counter |-> n % COUNTER_MODULUS,
                     crc_ok |-> TRUE, seq |-> n, made_at |-> now]
    <2>1. f \in Frame /\ f.seq = n /\ f.signal = s
      BY MadeFrameType
    <2>2. Arrive(f) /\ sent' = [sent EXCEPT ![s] = f] /\ UNCHANGED heard_seq
      BY <1>3 DEF Send
    <2>3. n \in Nat /\ sent[s].seq <= n
      BY <1>0
    <2> HIDE DEF f
    <2>4. sent'[s] = f /\ \A x \in Signals \ {s} : sent'[x] = sent[x]
      BY <1>0, <2>2
    <2>5. \A x \in Signals : sent'[x].seq \in Nat /\ sent[x].seq <= sent'[x].seq
      BY <1>0, <2>1, <2>3, <2>4
    <2> QED
      BY <1>b, <2>1, <2>2, <2>4, <2>5
  <1>4. ASSUME NEW s \in Signals, Repeat(s) PROVE OrderInv'
    <2>1. sent[s] \in Frame /\ Arrive(sent[s]) /\ UNCHANGED <<sent, heard_seq>>
      BY <1>0, <1>4 DEF Repeat
    <2>2. sent[s].signal = s
      BY DEF TruthInv
    <2> QED
      BY <1>0, <1>b, <2>1, <2>2
  <1>5. ASSUME NEW f \in Noise, Disturb(f) PROVE OrderInv'
    <2>1. f \in Frame /\ f.seq = 0 /\ Arrive(f) /\ UNCHANGED <<sent, heard_seq>>
      BY <1>5, IngestAssumption DEF Disturb
    <2> QED
      BY <1>0, <1>b, <2>1
  <1>8. CASE ReadFrame
    <2>1. socket # <<>> /\ socket' = Tail(socket) /\ UNCHANGED sent
      BY <1>8 DEF ReadFrame
    <2>2. /\ Head(socket) = socket[1] /\ 1 \in DOMAIN socket
          /\ \A i \in DOMAIN socket' : i \in Nat /\ i + 1 \in DOMAIN socket /\ socket'[i] = socket[i + 1]
      BY <1>0, <2>1, SocketFacts
    <2>3. \/ UNCHANGED heard_seq
          \/ /\ socket[1].seq > heard_seq[socket[1].signal]
             /\ heard_seq' = [heard_seq EXCEPT ![socket[1].signal] = socket[1].seq]
      BY <1>8, <2>2 DEF ReadFrame
    <2>4. \A s \in Signals :
             \/ heard_seq'[s] = heard_seq[s]
             \/ heard_seq'[s] = socket[1].seq /\ s = socket[1].signal /\ socket[1].seq > 0
      <3>1. socket[1].signal \in Signals /\ socket[1].seq \in Nat
        BY <1>0, <2>2
      <3>2. CASE UNCHANGED heard_seq
        BY <3>2
      <3>3. CASE /\ socket[1].seq > heard_seq[socket[1].signal]
                 /\ heard_seq' = [heard_seq EXCEPT ![socket[1].signal] = socket[1].seq]
        <4>1. socket[1].seq > 0
          BY <1>0, <3>1, <3>3
        <4> QED
          BY <1>0, <3>1, <3>3, <4>1
      <3> QED
        BY <2>3, <3>2, <3>3
    <2>5. \A s \in Signals : heard_seq'[s] <= sent'[s].seq
      BY <1>0, <2>1, <2>2, <2>4 DEF OrderInv
    <2>6. \A i \in DOMAIN socket' :
             socket'[i].seq > 0 => /\ socket'[i].seq <= sent'[socket'[i].signal].seq
                                   /\ socket'[i].seq >= heard_seq'[socket'[i].signal]
      <3>1. TAKE i \in DOMAIN socket'
      <3>2. HAVE socket'[i].seq > 0
      <3>3. i + 1 \in DOMAIN socket /\ socket'[i] = socket[i + 1] /\ 1 <= i + 1
        BY <2>2
      <3>4. socket[1].signal = socket[i + 1].signal => socket[1].seq <= socket[i + 1].seq
        BY <2>2, <3>2, <3>3 DEF OrderInv
      <3> QED
        BY <1>0, <2>1, <2>4, <3>2, <3>3, <3>4 DEF OrderInv
    <2>7. \A i, j \in DOMAIN socket' :
             i <= j /\ socket'[j].seq > 0 /\ socket'[i].signal = socket'[j].signal
                => socket'[i].seq <= socket'[j].seq
      <3>1. TAKE i \in DOMAIN socket', j \in DOMAIN socket'
      <3>2. HAVE i <= j /\ socket'[j].seq > 0 /\ socket'[i].signal = socket'[j].signal
      <3>3. i + 1 <= j + 1 /\ i + 1 \in DOMAIN socket /\ j + 1 \in DOMAIN socket
        BY <2>2, <3>2
      <3> QED
        BY <2>2, <3>2, <3>3 DEF OrderInv
    <2> QED
      BY <2>5, <2>6, <2>7 DEF OrderInv
  <1>9. CASE Shift \/ Accelerate \/ Tick \/ OpenSocket \/ AcceptFrame \/ RejectFrame
             \/ AskState \/ ReGate \/ UNCHANGED vars
    BY <1>a, <1>9 DEF Shift, Accelerate, Tick, OpenSocket, AcceptFrame, RejectFrame,
                      AskState, ReGate, vars
  <1> QED
    BY <1>3, <1>4, <1>5, <1>8, <1>9 DEF Next
-----------------------------------------------------------------------------
\* Every step keeps SettledInv.
LEMMA SettledInductive == IInv /\ TypeOK' /\ [Next]_vars => SettledInv'
  <1> SUFFICES ASSUME IInv, TypeOK', [Next]_vars
               PROVE  SettledInv'
    OBVIOUS
  <1> USE DEF environment, inner, readerVars, serverVars
  <1>0. /\ held \in Frame /\ held.signal \in Signals /\ held.seq \in Nat
        /\ heard_seq \in [Signals -> Nat] /\ heard_at \in [Signals -> 0..MaxTime]
        /\ counter \in [Signals -> {Never} \cup 0..(COUNTER_MODULUS - 1)]
        /\ last_at \in [Signals -> {Never} \cup 0..MaxTime]
        /\ used \in [Signals -> [made_at : 0..MaxTime, heard_at : 0..MaxTime]]
        /\ TruthInv /\ OrderInv /\ SettledInv
    BY DEF IInv, TypeOK, Frame
  <1>a. ASSUME UNCHANGED <<reader, held, held_at, heard_seq, heard_at, counter, last_at, used>>
        PROVE  SettledInv'
    BY <1>0, <1>a DEF SettledInv
  <1>7. CASE OpenSocket
    BY <1>0, <1>7 DEF OpenSocket, SettledInv
  <1>8. CASE ReadFrame
    <2>1. /\ reader = "reading" /\ reader' = "holding" /\ held' = Head(socket) /\ held_at' = now
          /\ socket # <<>> /\ UNCHANGED <<counter, last_at, used>>
      BY <1>8 DEF ReadFrame
    <2>2. /\ Head(socket) = socket[1] /\ 1 \in DOMAIN socket
          /\ Head(socket).signal \in Signals /\ Head(socket).seq \in Nat
      BY <2>1, SocketFacts DEF IInv, TypeOK, Frame
    <2>3. \A s \in Signals : heard_seq[s] > 0 => counter[s] = heard_seq[s] % COUNTER_MODULUS
      BY <1>0, <2>1 DEF SettledInv
    <2>4. CASE Head(socket).seq > heard_seq[Head(socket).signal]
      <3>1. /\ heard_seq' = [heard_seq EXCEPT ![Head(socket).signal] = Head(socket).seq]
            /\ heard_at' = [heard_at EXCEPT ![Head(socket).signal] = now]
        BY <1>8, <2>4 DEF ReadFrame
      <3> QED
        BY <1>0, <2>1, <2>2, <2>3, <3>1 DEF SettledInv
    <2>5. CASE ~(Head(socket).seq > heard_seq[Head(socket).signal])
      <3>1. UNCHANGED <<heard_seq, heard_at>>
        BY <1>8, <2>5 DEF ReadFrame
      <3>2. Head(socket).seq > 0 => Head(socket).seq = heard_seq[Head(socket).signal]
        <4>1. Head(socket).seq > 0 => Head(socket).seq >= heard_seq[Head(socket).signal]
          BY <1>0, <2>2 DEF OrderInv
        <4>2. heard_seq[Head(socket).signal] \in Nat
          BY <1>0, <2>2
        <4> QED
          BY <2>2, <2>5, <4>1, <4>2
      <3> QED
        BY <1>0, <2>1, <2>3, <3>1, <3>2 DEF SettledInv
    <2> QED
      BY <2>4, <2>5
  <1>9. CASE AcceptFrame
    <2> DEFINE s == held.signal
    <2>1. /\ reader = "holding" /\ reader' = "reading" /\ held.counter # counter[s]
          /\ counter' = [counter EXCEPT ![s] = held.counter]
          /\ last_at' = [last_at EXCEPT ![s] = held_at]
          /\ used' = [used EXCEPT ![s] = [made_at |-> held.made_at, heard_at |-> heard_at[s]]]
          /\ UNCHANGED <<heard_seq, heard_at>>
      BY <1>9 DEF AcceptFrame, Release, VerifyFrame, VerifyTrailer
    <2>2. Wellformed(held) /\ Genuine(held, now, parked_at)
      BY <1>0, <1>9 DEF AcceptFrame, VerifyFrame, VerifyTrailer, Wellformed, TruthInv
    <2>3. held.seq > 0 /\ held.counter = held.seq % COUNTER_MODULUS
      BY <1>0, <2>2 DEF Genuine
    <2>4. held.seq = heard_seq[s] /\ held_at = heard_at[s]
      BY <1>0, <2>1, <2>3 DEF SettledInv
    <2>5. /\ counter'[s] = heard_seq'[s] % COUNTER_MODULUS
          /\ last_at'[s] = used'[s].heard_at
      BY <1>0, <2>1, <2>3, <2>4
    <2>6. \A x \in Signals \ {s} :
             /\ heard_seq'[x] > 0 => counter'[x] = heard_seq'[x] % COUNTER_MODULUS
             /\ last_at'[x] # Never => last_at'[x] = used'[x].heard_at
      BY <1>0, <2>1 DEF SettledInv
    <2> HIDE DEF s
    <2>7. \A x \in Signals : x = s \/ x \in Signals \ {s}
      OBVIOUS
    <2> QED
      BY <2>1, <2>5, <2>6, <2>7 DEF SettledInv
  <1>10. CASE RejectFrame
    <2> DEFINE s == held.signal
    <2>1. /\ reader = "holding" /\ reader' = "reading" /\ ~VerifyFrame(held, counter[s])
          /\ UNCHANGED <<heard_seq, heard_at, counter, last_at, used>>
      BY <1>10 DEF RejectFrame, Release
    <2>2. held.seq > 0 => held.counter = counter[s] /\ held.counter = held.seq % COUNTER_MODULUS
      BY <1>0, <2>1 DEF TruthInv, Genuine, VerifyFrame, VerifyTrailer, Wellformed
    <2>3. \A x \in Signals : heard_seq[x] > 0 => counter[x] = heard_seq[x] % COUNTER_MODULUS
      BY <1>0, <2>2 DEF SettledInv
    <2> QED
      BY <1>0, <2>1, <2>3 DEF SettledInv
  <1>11. CASE Shift \/ Accelerate \/ Tick \/ AskState \/ ReGate \/ UNCHANGED vars
    BY <1>a, <1>11 DEF Shift, Accelerate, Tick, AskState, ReGate, vars
  <1>12. ASSUME NEW s \in Signals, Send(s) \/ Repeat(s) PROVE SettledInv'
    BY <1>a, <1>12 DEF Send, Repeat
  <1>13. ASSUME NEW f \in Noise, Disturb(f) PROVE SettledInv'
    BY <1>a, <1>13 DEF Disturb
  <1> QED
    BY <1>7, <1>8, <1>9, <1>10, <1>11, <1>12, <1>13 DEF Next

\* The invariant holds initially and is kept.
LEMMA InvInitially == Init => IInv
  <1> SUFFICES ASSUME Init PROVE IInv
    OBVIOUS
  <1>1. TruthInv
    BY NothingType DEF Init, TruthInv, Genuine, Nothing, Signals
  <1>2. OrderInv
    BY DEF Init, OrderInv, Nothing, Signals
  <1>3. SettledInv
    BY DEF Init, SettledInv, Nothing, Signals
  <1> QED
    BY <1>1, <1>2, <1>3, TypeInitially DEF IInv

\* Every step keeps it.
LEMMA InvInductive == IInv /\ [Next]_vars => IInv'
  BY TypeInductive, TruthInductive, OrderInductive, SettledInductive DEF IInv


\* So it holds in every reachable state.
LEMMA InvAlways == Spec => []IInv
  BY InvInitially, InvInductive, PTL DEF Spec

-----------------------------------------------------------------------------
\* What an open gate has read.
LEMMA OpenGate ==
    ASSUME IInv, [Next]_vars, ReaderActive, GateOpens
    PROVE  /\ \A s \in Signals : last_at[s] # Never /\ asked - last_at[s] <= FRESHNESS_MS
           /\ value["gear"] = "Park"
           /\ asked \in Int
           /\ \A s \in Signals : used[s].heard_at \in Int /\ used[s].made_at \in Int
           /\ \A s \in Signals : last_at[s] = used[s].heard_at
           /\ parked_at \in Int
  <1>1. asked # Never /\ asked' = Never /\ outcome' = "written"
    BY DEF GateOpens
  <1>2. ReGate
    <2>1. asked' # asked
      BY <1>1
    <2>2. ~AskState
      BY <1>1 DEF AskState
    <2>3. ASSUME NEW s \in Signals PROVE ~Send(s) /\ ~Repeat(s)
      BY <2>1 DEF Send, Repeat, serverVars
    <2>4. ASSUME NEW f \in Noise PROVE ~Disturb(f)
      BY <2>1 DEF Disturb, serverVars
    <2>5. /\ ~Shift /\ ~Accelerate /\ ~Tick /\ ~OpenSocket
          /\ ~ReadFrame /\ ~AcceptFrame /\ ~RejectFrame /\ ~UNCHANGED vars
      BY <2>1 DEF vars, Shift, Accelerate, Tick, OpenSocket, ReadFrame, AcceptFrame, RejectFrame,
                  serverVars
    <2> QED
      BY <2>2, <2>3, <2>4, <2>5 DEF Next
  <1>3. ParkedAndStopped(asked)
    BY <1>1, <1>2 DEF ReGate, GatePasses
  <1>4. \A s \in Signals : last_at[s] # Never /\ asked - last_at[s] <= FRESHNESS_MS
    BY <1>3 DEF ParkedAndStopped, StateFresh, SignalFresh
  <1>5. /\ asked \in Int /\ parked_at \in Int
        /\ \A s \in Signals : used[s].heard_at \in Int /\ used[s].made_at \in Int
    BY IngestAssumption DEF IInv, TypeOK, Never
  <1> QED
    BY <1>3, <1>4, <1>5 DEF ParkedAndStopped, IInv, SettledInv

(***************************************************************************)
(* The re-gate of a Sensitive actuation (server.rs, handle_enforce) never  *)
(* opens on a picture of the vehicle older than the freshness window and   *)
(* the way of the gear frame.                                              *)
(***************************************************************************)
THEOREM GateShowsRecentPark == Spec => OpensOnlyIfRecentlyParked
  <1>1. IInv /\ [Next]_vars =>
           (ReaderActive /\ GateOpens
              => asked - parked_at <= FRESHNESS_MS + used["gear"].heard_at - used["gear"].made_at)
    <2> SUFFICES ASSUME IInv, [Next]_vars, ReaderActive, GateOpens
                 PROVE  asked - parked_at <= FRESHNESS_MS + used["gear"].heard_at - used["gear"].made_at
      OBVIOUS
    <2>1. /\ asked - used["gear"].heard_at <= FRESHNESS_MS
          /\ value["gear"] = "Park" /\ last_at["gear"] # Never
          /\ asked \in Int /\ parked_at \in Int
          /\ used["gear"].heard_at \in Int /\ used["gear"].made_at \in Int
      BY OpenGate DEF Signals
    <2>2. used["gear"].made_at <= parked_at
      BY <2>1 DEF IInv, TruthInv
    <2> QED
      BY <2>1, <2>2, IngestAssumption
  <1> QED
    BY <1>1, InvAlways, PTL DEF Spec, OpensOnlyIfRecentlyParked

(***************************************************************************)
(* A sender that repeats itself is not believed beyond the freshness       *)
(* window after its frame was first read (verify_trailer's alive counter). *)
(***************************************************************************)
THEOREM StuckSenderAgesOut == Spec => FrozenSenderAgesOut
  <1>1. IInv /\ [Next]_vars =>
           (ReaderActive /\ GateOpens
              => \A s \in Signals : asked - used[s].heard_at <= FRESHNESS_MS)
    BY OpenGate
  <1> QED
    BY <1>1, InvAlways, PTL DEF Spec, FrozenSenderAgesOut
-----------------------------------------------------------------------------
(***************************************************************************)
(* The newest frame turned away carries the stored counter.                *)
(***************************************************************************)
TurnInv ==
    \A s \in Signals : turned_away[s] > 0 => counter[s] = turned_away[s] % COUNTER_MODULUS

\* A made frame is turned away for its counter alone.
LEMMA TurnedAwayForCounter ==
    ASSUME IInv, RejectFrame, held.seq > 0
    PROVE  counter[held.signal] = held.seq % COUNTER_MODULUS
  <1>1. Genuine(held, now, parked_at) /\ ~VerifyFrame(held, counter[held.signal])
    BY DEF IInv, TruthInv, RejectFrame
  <1>2. held.seq # 0
    BY DEF IInv, TypeOK, Frame
  <1> QED
    BY <1>1, <1>2 DEF Genuine, VerifyFrame, VerifyTrailer, Wellformed

\* Every step keeps TurnInv.
LEMMA TurnInductive == IInv /\ TurnInv /\ [Next]_vars => TurnInv'
  <1> SUFFICES ASSUME IInv, TurnInv, [Next]_vars
               PROVE  TurnInv'
    OBVIOUS
  <1> USE DEF environment, inner, readerVars, serverVars
  <1>0. /\ held.signal \in Signals /\ held.seq \in Nat
        /\ turned_away \in [Signals -> Nat]
        /\ counter \in [Signals -> {Never} \cup 0..(COUNTER_MODULUS - 1)]
    BY DEF IInv, TypeOK, Frame
  <1>1. CASE AcceptFrame
    <2>1. /\ turned_away'[held.signal] = 0
          /\ \A x \in Signals \ {held.signal} :
                turned_away'[x] = turned_away[x] /\ counter'[x] = counter[x]
      BY <1>0, <1>1 DEF AcceptFrame
    <2>2. \A x \in Signals : x = held.signal \/ x \in Signals \ {held.signal}
      OBVIOUS
    <2> QED
      BY <2>1, <2>2 DEF TurnInv
  <1>2. CASE RejectFrame
    <2>1. /\ turned_away'[held.signal] \in {held.seq, turned_away[held.signal]}
          /\ \A x \in Signals \ {held.signal} : turned_away'[x] = turned_away[x]
          /\ counter' = counter
      BY <1>0, <1>2 DEF RejectFrame
    <2>2. held.seq > 0 => counter[held.signal] = held.seq % COUNTER_MODULUS
      BY <1>2, TurnedAwayForCounter
    <2>3. \A x \in Signals : x = held.signal \/ x \in Signals \ {held.signal}
      OBVIOUS
    <2> QED
      BY <1>0, <2>1, <2>2, <2>3 DEF TurnInv
  <1>3. ASSUME UNCHANGED <<counter, turned_away>> PROVE TurnInv'
    BY <1>3 DEF TurnInv
  <1>4. CASE Shift \/ Accelerate \/ Tick \/ OpenSocket \/ ReadFrame \/ AskState \/ ReGate
             \/ UNCHANGED vars
    BY <1>3, <1>4 DEF Shift, Accelerate, Tick, OpenSocket, ReadFrame, AskState, ReGate, vars
  <1>5. ASSUME NEW s \in Signals, Send(s) \/ Repeat(s) PROVE TurnInv'
    BY <1>3, <1>5 DEF Send, Repeat
  <1>6. ASSUME NEW f \in Noise, Disturb(f) PROVE TurnInv'
    BY <1>3, <1>6 DEF Disturb
  <1> QED
    BY <1>1, <1>2, <1>4, <1>5, <1>6 DEF Next

(***************************************************************************)
(* Between two frames of one sender that are turned away in a row the      *)
(* alive counter came round (verify_trailer compares for equality only).   *)
(***************************************************************************)
THEOREM LiveSenderHeard == Spec => LiveSenderIsHeard
  <1>1. Init => TurnInv
    BY DEF Init, TurnInv
  <1>2. IInv /\ TurnInv /\ [Next]_vars =>
           \A s \in Signals :
              turned_away[s] # 0 /\ turned_away'[s] > turned_away[s]
                 => turned_away'[s] - turned_away[s] >= COUNTER_MODULUS
    <2> SUFFICES ASSUME IInv, TurnInv, [Next]_vars, NEW s \in Signals,
                        turned_away[s] # 0, turned_away'[s] > turned_away[s]
                 PROVE  turned_away'[s] - turned_away[s] >= COUNTER_MODULUS
      OBVIOUS
    <2> USE DEF environment, inner, readerVars, serverVars
    <2>0. /\ held.signal \in Signals /\ held.seq \in Nat
          /\ turned_away \in [Signals -> Nat] /\ turned_away[s] \in Nat
      BY DEF IInv, TypeOK, Frame
    <2>1. turned_away'[s] # turned_away[s]
      BY <2>0
    <2>2. ~AcceptFrame
      BY <2>0 DEF AcceptFrame
    <2>3. RejectFrame
      <3>1. ASSUME NEW x \in Signals PROVE ~Send(x) /\ ~Repeat(x)
        BY <2>1 DEF Send, Repeat
      <3>2. ASSUME NEW f \in Noise PROVE ~Disturb(f)
        BY <2>1 DEF Disturb
      <3>3. /\ ~Shift /\ ~Accelerate /\ ~Tick /\ ~OpenSocket
            /\ ~ReadFrame /\ ~AskState /\ ~ReGate /\ ~UNCHANGED vars
        BY <2>1 DEF vars, Shift, Accelerate, Tick, OpenSocket, ReadFrame, AskState, ReGate
      <3> QED
        BY <2>2, <3>1, <3>2, <3>3 DEF Next
    <2>4. s = held.signal /\ turned_away'[s] = held.seq
      BY <2>0, <2>1, <2>3 DEF RejectFrame
    <2>5. counter[s] = held.seq % COUNTER_MODULUS
      BY <2>0, <2>3, <2>4, TurnedAwayForCounter
    <2>6. counter[s] = turned_away[s] % COUNTER_MODULUS
      BY <2>0 DEF TurnInv
    <2> QED
      BY <2>0, <2>4, <2>5, <2>6, WholeTurn, IngestAssumption
  <1> QED
    BY <1>1, <1>2, InvAlways, TurnInductive, PTL DEF Spec, LiveSenderIsHeard
=============================================================================
