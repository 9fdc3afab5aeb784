----------------------------- MODULE MCDaemons -----------------------------
(***************************************************************************)
(* What must come to an end: the statistics daemon at work, and the         *)
(* functions that start processes and daemons.  A behaviour exercises one   *)
(* of them, "part".                                                         *)
(***************************************************************************)
EXTENDS StatsWriter, Processes

VARIABLE part

daemonVars == <<part, vars, procVars>>

DaemonsInit ==
    /\ part \in {"stats", "processes"}
    /\ Init
    /\ ProcessesInit

DaemonsNext ==
    \/ part = "stats" /\ Next /\ UNCHANGED <<part, procVars>>
    \/ part = "processes" /\ ProcessesNext /\ UNCHANGED <<part, vars>>

Stats(A) == part = "stats" /\ A /\ UNCHANGED <<part, procVars>>
Processing(A) == part = "processes" /\ A /\ UNCHANGED <<part, vars>>

\* The fairness of StatsWriter's FairSpec, and that of the scheduler towards
\* forked processes: one that can take a step by itself takes it some day.
DaemonsSpec ==
    /\ DaemonsInit /\ [][DaemonsNext]_daemonVars
    /\ WF_daemonVars(Stats(ServerStep))
    /\ \A c \in Clients : SF_daemonVars(Stats(OnDataReceived /\ serving' = c))
    /\ WF_daemonVars(Processing(ProcessStep))
=============================================================================
