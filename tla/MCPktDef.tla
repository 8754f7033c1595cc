------------------------------ MODULE MCPktDef ------------------------------
(* Small instances of PktDef for TLC. *)
EXTENDS PktDef

\* Zero, both bytes in use, the largest count, and the one after it.
MCCounts == {0, 258, 65535, 65536}

\* A drive body as the command page sends it, and one with every bit set; a
\* body of telemetry size.
DriveBodies    == {<<1, 10, 80>>, <<255, 255, 255>>}
TelemetryBody  == <<7, 0, 12, 1, 3, 0, 1, 10, 80>>
MCBodies       == DriveBodies \cup {TelemetryBody}

\* An acknowledgement, the telemetry that follows it, a drive packet that is
\* echoed, and a packet with a body of a size the protocol does not have.
Ack       == <<1, 0, 8, 5, 4>>
Telemetry == <<1, 0, 2, 14>> \o TelemetryBody \o <<18>>
Echo      == <<2, 0, 9, 8, 1, 10, 80, 9>>
Odd       == <<3, 0, 8, 7, 1, 1, 8>>
MCDatagrams == {Ack, Telemetry, Echo, Odd}
=============================================================================
