--------------------------- MODULE ServerContract ---------------------------
(***************************************************************************)
(* What an owned HTTP server promises whoever holds its handle, in the     *)
(* terms of http/server.rs: it takes sockets on until it stops, a stop     *)
(* only ever gets stricter, only a forced stop takes a connection away,    *)
(* and the join answers once, when nothing it took on is left.  Server is  *)
(* shown to implement it.                                                  *)
(***************************************************************************)
CONSTANT Sockets

VARIABLES
    stage,      \* "serving", "draining", "forced"
    working,    \* the connections whose tasks have not ended
    cut,        \* those of them that were told to go
    answered    \* the join has come back

contractVars == <<stage, working, cut, answered>>

ContractInit ==
    /\ stage = "serving" /\ working = {} /\ cut = {} /\ answered = FALSE

\* A socket is taken on, while the server serves.
TakeOn(c) ==
    /\ stage = "serving" /\ c \notin working
    /\ working' = working \cup {c}
    /\ UNCHANGED <<stage, cut, answered>>

\* A connection ends, in its own time or because it was cut.
End(c) ==
    /\ c \in working /\ ~answered
    /\ working' = working \ {c} /\ cut' = cut \ {c}
    /\ UNCHANGED <<stage, answered>>

\* A stop begins, or becomes forced.
Tighten(next) ==
    /\ <<stage, next>> \in {<<"serving", "draining">>, <<"serving", "forced">>,
                            <<"draining", "forced">>}
    /\ stage' = next
    /\ UNCHANGED <<working, cut, answered>>

\* A forced stop takes connections away.
Cut ==
    /\ stage = "forced" /\ ~answered
    /\ cut' \in {cs \in SUBSET working : cut \subseteq cs}
    /\ UNCHANGED <<stage, working, answered>>

\* The join comes back.
Answer ==
    /\ stage # "serving" /\ working = {} /\ ~answered
    /\ answered' = TRUE
    /\ UNCHANGED <<stage, working, cut>>

ContractNext ==
    \/ \E c \in Sockets : TakeOn(c) \/ End(c)
    \/ \E next \in {"draining", "forced"} : Tighten(next)
    \/ Cut
    \/ Answer

ContractSpec == ContractInit /\ [][ContractNext]_contractVars

=============================================================================
