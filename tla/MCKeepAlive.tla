----------------------------- MODULE MCKeepAlive -----------------------------
(* Values for KeepAlive.                                                    *)
EXTENDS KeepAlive

Asked(totals, writes, read_headers, intervals) ==
    [connect_total : totals, ping_write : writes, read_header : read_headers,
     ping_interval : intervals]

\* As the defaults: the interval is half of read_header, which is the server's.
DefaultValue ==
    [connect_total |-> 6, ping_write |-> 1, read_header |-> ServerReadHeader,
     ping_interval |-> ServerReadHeader \div 2]

\* A read_header of nothing, too small to halve, halved, less than two delays
\* and the server's; intervals of nothing, effective, just not, and clamped.
AnyRequest ==
    Asked({6}, {1}, {0, 1, 2, 3, 13}, {0, 4, 7, 8, 13})
    \cup Asked({0}, {1}, {13}, {4}) \cup Asked({6}, {0}, {13}, {4})

\* As with_ping_interval clamps: read_header, the same at both ends, less the
\* subtraction.
LongInterval ==
    [connect_total |-> 6, ping_write |-> 1, read_header |-> ServerReadHeader,
     ping_interval |-> ServerReadHeader - PingClampSubtraction]

\* Nobody calls set_timeout_config.
NoRequest == {}
=============================================================================
