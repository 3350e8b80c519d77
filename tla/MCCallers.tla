----------------------------- MODULE MCCallers -----------------------------
(***************************************************************************)
(* Instances of Callers for TLC.  A tick is half a second, so that less    *)
(* than a second can be left; lifetimes and operating hours are shortened  *)
(* to a few ticks.                                                         *)
(***************************************************************************)
EXTENDS Callers

CONSTANTS rootKey, issuerKey     \* keys: a root of trust, and one below it

Door == <<"vehicle", "door", "unlock">>
Sunroof == <<"vehicle", "sunroof", "open">>
Window == <<"WINDOW_POS">>
Seat == <<"vehicle", "seat", "height">>
Brakes == <<"vehicle", "braking", "apply">>
Stopping == <<"EV_STOPPING_MODE">>
Export == <<"pii", "profile", "export">>
Profile == <<"pii", "profile", "read">>
Pay == <<"pay", "send">>
Contacts == <<"comms", "contacts", "read">>
Read == <<"read">>
Fetch == <<"fetch">>
Shell == <<"shell">>

Abs(parts) == [absolute |-> TRUE, parts |-> parts]
File == Abs(<<"ws", "a">>)
FileAgain == Abs(<<"ws", "b", "..", ".", "a">>)
Key == Abs(<<"etc", "key">>)
KeyAgain == Abs(<<"ws", "..", "..", "etc", "", "key">>)
Link == Abs(<<"ws", "link">>)
\* /ws/out is a link to a directory of /etc: what is written as a path below /ws is
\* opened below /etc.
Behind == Abs(<<"ws", "out", "..", "key">>)
Local == Abs(<<"ws", "key">>)
Gone == Abs(<<"gone", "x">>)
MCSpellings == {{File, FileAgain}, {Key, KeyAgain}}
MCRealPath ==
    (File :> File) @@ (FileAgain :> File) @@ (Key :> Key) @@ (KeyAgain :> Key)
    @@ (Link :> Key) @@ (Behind :> Key) @@ (Local :> Local) @@ (Gone :> Unresolvable)

Request(tool) ==
    [tool |-> tool, path |-> Absent, url |-> Absent, command |-> Absent,
     vehicle_state |-> Absent]
At(q, path) == [q EXCEPT !.path = path]
To(host) == [Request(Fetch) EXCEPT !.url = <<"https", host, 443>>]
Command(words) == [Request(Shell) EXCEPT !.command = words]

\* A draft with everything, also with what no mandate can give.
Draft ==
    [hash |-> "broad", agent |-> "agent", issuer |-> Null, parses |-> FALSE,
     signature_ok |-> FALSE, issuer_is_key |-> FALSE, capabilities_hash_ok |-> FALSE,
     expires_at |-> 0, hours |-> <<0, 4>>, max_calls |-> 2,
     tools |-> {Door, Sunroof, Window, Seat, Brakes, Stopping, Export, Profile, Pay,
                Read, Fetch, Shell, <<"pii", "grant">>},
     fs_deny |-> {{Key}}, fs_read |-> {{File, Link, Local}}, fs_write |-> {},
     net_deny |-> {{"x.org", "y.org"}}, net_allow |-> {{"y.org"}},
     cmd_deny |-> {{<<"rm", "-r">>}}, cmd_allow |-> {"ls", "rm"},
     escalate_tools |-> {Door}, escalate_paths |-> {}, escalate_hosts |-> {{"y.org"}},
     escalate_to |-> "human"]
Broad == compile_mandate(Draft, rootKey, 3, 0)
\* No calls at all, every file read only with a human, no personal data.
Strict ==
    [Broad EXCEPT !.hash = "strict", !.max_calls = 0, !.fs_read = {}, !.expires_at = Never,
                  !.escalate_paths = {{File}}, !.tools = @ \ {<<"pii", "grant">>}]
Closed == [Broad EXCEPT !.hash = "closed", !.hours = <<2, 1>>]
Unsigned == [Broad EXCEPT !.hash = "unsigned", !.signature_ok = FALSE]
Delegated == [Broad EXCEPT !.hash = "delegated", !.issuer = issuerKey, !.hours = AlwaysOpen,
                           !.tools = {Read, Fetch}]
Garbage == [Broad EXCEPT !.hash = "garbage", !.parses = FALSE]

Sovereign == [kind |-> "SelfSovereign"]
Roots == [kind |-> "Roots", roots |-> {rootKey}]
Scope == [tools |-> {Read, Fetch}, max_ttl |-> 0, max_rate |-> 0, max_active |-> 0]
MCChain ==
    <<[RootDelegation(0, rootKey, Scope, AlwaysOpen, 1, 0) EXCEPT !.expires_at = 9],
      [hash |-> 1, grantor |-> rootKey, grantee |-> issuerKey, level |-> 1, scope |-> Scope,
       hours |-> <<0, 2>>, expires_at |-> 3, parent |-> 0,
       grantor_pubkey |-> rootKey, signature |-> <<rootKey, 1>>]>>
Chain == [kind |-> "Chain", roots |-> {rootKey}, chain |-> MCChain]

Sensor(speed, gear, actor) == [speed |-> speed, gear |-> gear, actor |-> actor]
Parked == Sensor(0, 0, 0)
Edge == Sensor(5000, 0, 1)
Broken == Sensor(NotANumber, 0, 0)
Rolling == Sensor(5000, 1, 0)

HostCall(m, q, sensor, trust) ==
    [m |-> m, r |-> q, params |-> "given", sensor |-> sensor, trust |-> trust]

MCHostCalls ==
    {HostCall(Broad, Request(tool), sensor, Roots) :
        tool \in {Door, Seat}, sensor \in {Null, Parked, Edge, Broken}}
    \cup {HostCall(Broad, Request(tool), sensor, Roots) :
        tool \in {Sunroof, Window}, sensor \in {Null, Edge}}
    \cup {HostCall(Broad, Request(Door), sensor, Roots) :
        sensor \in {Rolling, Sensor(-1, 0, 0), Sensor(0, 4, 0), Sensor(0, 0, 2)}}
    \cup {HostCall(Broad, Request(tool), Null, Roots) :
        tool \in {Brakes, Stopping, Export, Profile, Pay, Contacts, <<"">>}}
    \cup {HostCall(Broad, At(Request(Read), path), Null, Sovereign) :
        path \in {File, FileAgain, Key, KeyAgain}}
    \cup {HostCall(Strict, At(Request(Read), path), Null, Sovereign) : path \in {File, FileAgain}}
    \cup {HostCall(Strict, Request(tool), Null, Roots) : tool \in {Profile, Fetch}}
    \cup {HostCall(m, Request(Pay), Null, Sovereign) : m \in {Closed, Unsigned, Garbage}}
    \cup {[HostCall(Broad, At(Request(Read), Key), Null, Roots) EXCEPT !.params = p] :
        p \in {Null, "unparsable"}}
    \cup {HostCall(Broad, Request(Pay), Null, Null), HostCall(Delegated, Request(Read), Null, Roots)}

EnforceCall(m, q, ledger, trust) == [m |-> m, r |-> q, ledger |-> ledger, trust |-> trust]
Driving == [speed_mmps |-> 8333, gear |-> "Drive", actor |-> "Driver"]
Resting == [speed_mmps |-> 0, gear |-> "Park", actor |-> "Passenger"]
Busy == [NoopLedger EXCEPT !.recent = 2]

MCEnforceCalls ==
    {EnforceCall(Broad, [Request(tool) EXCEPT !.vehicle_state = state], NoopLedger, Roots) :
        tool \in {Door, Seat, Brakes}, state \in {Absent, Driving, Resting}}
    \cup {EnforceCall(Broad, At(Request(Read), path), NoopLedger, Roots) :
        path \in {File, KeyAgain, Link, Behind, Gone}}
    \cup {EnforceCall(Broad, q, NoopLedger, Sovereign) :
        q \in {To("x.org"), To("y.org"), To("z.org"), Command(<<"ls">>),
               Command(<<"rm", "-r">>), Command(<<"cat">>)}}
    \cup {EnforceCall(Broad, To("z.org"), ledger, Roots) :
        ledger \in {Busy, [NoopLedger EXCEPT !.revoked = TRUE],
                    [NoopLedger EXCEPT !.answers = FALSE]}}
    \cup {EnforceCall(Delegated, To(host), NoopLedger, Chain) : host \in {"y.org", "z.org"}}

MCSafetyCritical == {Brakes, Stopping, Export}
MCOpenings == {Door, Sunroof, Window}
MCHumanOnly == {Pay}
=============================================================================
