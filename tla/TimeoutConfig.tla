---------------------------- MODULE TimeoutConfig ----------------------------
(***************************************************************************)
(* TimeoutConfig of timeout_config.rs as far as something is decided by    *)
(* it: the clamp of the ping interval, the validation, and how often the   *)
(* ping task looks at the clock (ping.rs).  Durations are naturals, in any *)
(* unit of time.                                                           *)
(***************************************************************************)
EXTENDS Integers

CONSTANTS
    PingClampSubtraction,     \* PING_CLAMP_SUBTRACTION, 1 s
    PingClampHalveThreshold,  \* PING_CLAMP_HALVE_THRESHOLD, 200 ms
    MinPingCheckInterval      \* MIN_PING_CHECK_INTERVAL, 100 ms

ASSUME TimeoutConfigAssumption ==
    /\ PingClampSubtraction \in Nat \ {0}
    /\ PingClampHalveThreshold \in Nat
    /\ MinPingCheckInterval \in Nat \ {0}

Config == [connect_total : Nat, ping_write : Nat, read_header : Nat, ping_interval : Nat]


\* What an interval that is too long is clamped to.
Clamp(read_header) ==
    CASE read_header > PingClampSubtraction -> read_header - PingClampSubtraction
      [] read_header <= PingClampSubtraction /\ read_header >= PingClampHalveThreshold
            -> read_header \div 2
      [] OTHER -> 0

WithPingInterval(config, interval) ==
    [config EXCEPT !.ping_interval =
        IF interval >= config.read_header THEN Clamp(config.read_header) ELSE interval]

Validate(config) ==
    /\ config.connect_total # 0
    /\ config.ping_write # 0
    /\ config.ping_interval < config.read_header

\* The pause of the ping task between two looks at the clock.
CheckInterval(interval) ==
    IF interval \div 4 < MinPingCheckInterval THEN MinPingCheckInterval ELSE interval \div 4
=============================================================================
