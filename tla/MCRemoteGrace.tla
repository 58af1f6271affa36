--------------------------- MODULE MCRemoteGrace ---------------------------
(***************************************************************************)
(* RemoteGrace for TLC: the commands are interchangeable.  The assumption  *)
(* checks the driver's choice of a command against its description: the    *)
(* first of the candidates that may be planned, whatever stands before it. *)
(***************************************************************************)
EXTENDS RemoteGrace, FrontEnds, TLC

CommandSymmetry == Permutations(Commands)

Candidates == UNION {[1..n -> {"", "lock", "suspend", "restart"}] : n \in 0..3}

ASSUME FirstFitIsPlanned ==
  \A c \in Candidates :
    \/ \E i \in DOMAIN c : /\ PlanCommandFor(c) = c[i] /\ c[i] \in PlanCommands
                           /\ \A j \in 1..i-1 : c[j] \notin PlanCommands
    \/ PlanCommandFor(c) = "shutdown" /\ \A i \in DOMAIN c : c[i] \notin PlanCommands
============================================================================
