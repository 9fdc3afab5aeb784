---------------------------- MODULE MCStatsWriter ----------------------------
(***************************************************************************)
(* StatsWriter with two clients whose messages have an empty body or a body *)
(* of one cell, and a limit that takes two messages.                        *)
(***************************************************************************)
EXTENDS StatsWriter
=============================================================================
