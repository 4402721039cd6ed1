----------------------------- MODULE ServerStop -----------------------------
(***************************************************************************)
(* The causal stop state of one owned HTTP server: what a server may       *)
(* commit about its own stopping, and what its one result then is.         *)
(*                                                                         *)
(* crates/camber/src/http/server_stop.rs.  Every action is one event       *)
(* applied under the state's lock.  Server implements this specification.  *)
(***************************************************************************)
EXTENDS Naturals

VARIABLES
    phase,      \* StopPhase
    fatal,      \* a server-fatal fact is held as the provisional result
    commanded,  \* a caller, not an abandoned owner, asked for the forced phase
    minted,     \* the graceful commit has fixed the aggregate expiry
    outcome     \* StopOutcome, with the flat result it stands for

stopVars == <<phase, fatal, commanded, minted, outcome>>

Phases == {"Running", "Graceful", "Cancelled", "TimedOut", "Finished"}

Forced == {"Cancelled", "TimedOut"}

\* The committed fields hold values of their types.
StopTypeOK ==
    /\ phase \in Phases
    /\ fatal \in BOOLEAN /\ commanded \in BOOLEAN /\ minted \in BOOLEAN
    /\ outcome \in {"Pending", "Completed", "Failed", "Cancelled", "TimedOut"}

StopInit ==
    /\ phase = "Running"
    /\ fatal = FALSE /\ commanded = FALSE /\ minted = FALSE
    /\ outcome = "Pending"

-----------------------------------------------------------------------------

\* Close admission and start the aggregate clock, from Running alone.
ApplyGraceful ==
    /\ IF phase = "Running"
         THEN phase' = "Graceful" /\ minted' = TRUE
         ELSE UNCHANGED <<phase, minted>>
    /\ UNCHANGED <<fatal, commanded, outcome>>

\* Cancel, or an armed owner's drop: the one permitted escalation.
ApplyForced(asked) ==
    /\ commanded' = (commanded \/ asked)
    /\ phase' = IF phase \in {"Running", "Graceful"} THEN "Cancelled" ELSE phase
    /\ UNCHANGED <<fatal, minted, outcome>>

\* Mutant: a fatal fact is recorded but starts no drain.
ApplyFatalOnly ==
    /\ fatal' = (fatal \/ phase \in {"Running", "Graceful"})
    /\ UNCHANGED <<phase, minted, commanded, outcome>>

\* Record the first fatal fact while it can still be the result, and start the
\* drain it explains.
ApplyFatal ==
    /\ fatal' = (fatal \/ phase \in {"Running", "Graceful"})
    /\ IF phase = "Running"
         THEN phase' = "Graceful" /\ minted' = TRUE
         ELSE UNCHANGED <<phase, minted>>
    /\ UNCHANGED <<commanded, outcome>>

\* Only a drain can expire.
ApplyDeadline ==
    /\ phase' = IF phase = "Graceful" THEN "TimedOut" ELSE phase
    /\ UNCHANGED <<fatal, commanded, minted, outcome>>

\* Fix the result from the phase committed before.  A fatal fact a forced phase
\* displaces is dropped.
Settle ==
    IF phase \in {"Running", "Finished"}
      THEN UNCHANGED stopVars
      ELSE /\ outcome' = IF phase \in Forced THEN phase
                         ELSE IF fatal THEN "Failed" ELSE "Completed"
           /\ phase' = "Finished"
           /\ fatal' = FALSE
           /\ UNCHANGED <<commanded, minted>>

StopNext ==
    \/ ApplyGraceful
    \/ \E asked \in BOOLEAN : ApplyForced(asked)
    \/ ApplyFatal
    \/ ApplyDeadline
    \/ Settle

StopSpec == StopInit /\ [][StopNext]_stopVars

-----------------------------------------------------------------------------
(* Properties.                                                             *)

\* A phase only ever leads on: admission never reopens, a forced phase is not
\* exchanged for the other one, and a finished server stays finished.
PhaseOnlyAdvances ==
    [][CASE phase = "Running"  -> TRUE
         [] phase = "Graceful" -> phase' # "Running"
         [] OTHER              -> phase' \in {phase, "Finished"}]_stopVars

\* The result is fixed once, together with the finished phase, and follows from
\* the phase that was committed before it.
ResultFixedOnce ==
    [][IF outcome # "Pending"
         THEN outcome' = outcome
         ELSE outcome' # "Pending" =>
                /\ phase \notin {"Running", "Finished"} /\ phase' = "Finished"
                /\ phase \in Forced => outcome' = phase]_stopVars

\* The result exists exactly when the server is finished; a timed-out server was
\* given its one aggregate deadline; and only a drain holds a fatal fact.
StopConsistent ==
    /\ phase = "Finished" <=> outcome # "Pending"
    /\ phase = "TimedOut" \/ outcome = "TimedOut" => minted
    /\ phase = "Graceful" \/ outcome \in {"Completed", "Failed"} => minted
    /\ fatal => phase \in {"Graceful"} \cup Forced

=============================================================================
