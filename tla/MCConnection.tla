---------------------------- MODULE MCConnection ----------------------------
(* Small instances of Connection for TLC.                                  *)
EXTENDS Connection

\* Payloads with nothing in them, with a byte that could pass for an OK
\* status, and with more bytes than a side of max_buffer_size 2 accepts.
Payloads == {<<>>, <<1>>, <<1, 0, 1>>}
SmallPayloads == {<<>>, <<1, 0>>}

\* The framework's server, a loop of one's own over ServerTL that answers with
\* None, and an old server.
Framework == [none |-> FALSE, old |-> FALSE]
AllPeers == {Framework, [none |-> TRUE, old |-> FALSE], [none |-> FALSE, old |-> TRUE]}
OnlyFramework == {Framework}

\* The hypothesis of FramingProofs holds of these instances.
ASSUME SizesFit == SizesAnnounced
=============================================================================
