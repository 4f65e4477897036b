------------------------------- MODULE MCPool -------------------------------
(* A channel, for TLC: its supervisor with the dials it makes, the pool of its QUIC connections,   *)
(* the load that makes the pool grow, and the settings they and its transports are made with.  The *)
(* four have no state in common here, so a behaviour is about one of them, its focus.              *)
EXTENDS QuicPool, ChannelDial

CONSTANTS Threads, RateWindow, MaxTime, MaxStarts, MaxBytes
CONSTANTS Top, VarIntMax, MaxShift, Units, Values, MaxOps, MaxAttempt, FrameHeaderLen, CreditFactor,
          MaxStreamCount, DefaultWindow, QuinnStreams

VARIABLES focus
VARIABLES time, carried, windowStart, windowCalls, rateCalls, rateBytes, lastBytes, thread, started,
          windows
VARIABLES config, asked, channelDialer, retry, delay, options, limits

loadVars == <<time, carried, windowStart, windowCalls, rateCalls, rateBytes, lastBytes, thread,
              started, windows>>
settingsVars == <<config, asked, channelDialer, retry, delay, options, limits>>
mcVars == <<focus, dialVars, poolVars, loadVars, settingsVars>>

Load == INSTANCE PoolLoad
Settings == INSTANCE TransportSettings WITH dialer <- channelDialer, attempt <- retry

(* An IPv4 and an IPv6 address, from a resolver that gives one or both, on networks that let       *)
(* through everything, one attempt or nothing.                                                     *)
MCIpv4 == {"v4"}
MCIpv6 == {"v6"}
MCAnswers == {<<"v4">>, <<"v6", "v4", "v6">>}
MCReaches == {{}, Attempts, {<<"quic", "v4">>}, {<<"tcp", "v4">>}, {<<"quic", "v6">>}}
NoDial ==
    DialInit /\ reach = {} /\ policy = "quic" /\ tcp = "none" /\ answer = <<"v4">> /\ ~bounded

MCInit ==
    /\ PoolInit /\ Load!LoadInit /\ Settings!SettingsInit
    /\ \/ focus \in {"pool", "load", "settings"} /\ NoDial
       \/ focus = "channel" /\ DialInit
MCNext ==
    /\ UNCHANGED focus
    /\ \/ focus = "channel" /\ DialNext /\ UNCHANGED <<poolVars, loadVars, settingsVars>>
       \/ focus = "pool" /\ PoolNext /\ UNCHANGED <<dialVars, loadVars, settingsVars>>
       \/ focus = "load" /\ Load!LoadNext /\ UNCHANGED <<dialVars, poolVars, settingsVars>>
       \/ focus = "settings" /\ Settings!SettingsNext /\ UNCHANGED <<dialVars, poolVars, loadVars>>

(* The fairness of ChannelDial and QuicPool, each for its own behaviours. *)
InChannel(action) == focus = "channel" /\ action
InPool(action) == focus = "pool" /\ action
MCSpec ==
    /\ MCInit /\ [][MCNext]_mcVars
    /\ WF_dialVars(InChannel(ChannelSteps /\ Supervises)) /\ WF_dialVars(InChannel(ChannelSteps /\ Closes))
    /\ SF_dialVars(InChannel(Begin)) /\ WF_dialVars(InChannel(ReprobeInterval))
    /\ WF_dialVars(InChannel(Connects)) /\ WF_dialVars(InChannel(Fails)) /\ WF_dialVars(InChannel(Delays))
    /\ WF_poolVars(InPool(ExtraDials))
    /\ \A k \in Calls : WF_poolVars(InPool(Runs(k)))
    /\ \A c \in Ids : WF_poolVars(InPool(Watches(c)))

(* Every call is counted in exactly one window of the load, and no window is cut short             *)
(* (client/pool.rs, record_at).                                                                    *)
CountedOnce == focus = "load" => Load!CountedOnce

(* The pool, the TCP fallback and the windows are what was asked for, in whatever order it was     *)
(* (client/channel.rs, serve.rs), and a channel waits between reconnects as its backoff says,       *)
(* however many failed (delay).                                                                    *)
SettingsHold == focus = "settings" => Settings!SettingsHold /\ Settings!ReconnectsArePaced

=============================================================================
