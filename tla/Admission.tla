----------------------------- MODULE Admission -----------------------------
(***************************************************************************)
(* The admission of one request body under its route's ceiling and the     *)
(* application's policy, the checked bound its frames are read under, the  *)
(* life of the permit the policy handed over, and the checked collection   *)
(* that client answers, buffered upstream answers and file reads share.    *)
(*                                                                         *)
(* A usize is a number up to WordMax and a declared length is a number up  *)
(* to DeclaredMax, which no word need hold.                                *)
(***************************************************************************)
EXTENDS Integers, FiniteSets, FiniteSetsExt

CONSTANTS
    WordMax,        \* usize::MAX
    DeclaredMax,    \* u64::MAX
    ReserveMax,     \* MAX_DECLARED_RESERVE
    FrameLengths    \* the lengths of the frames a peer sends

ASSUME AdmissionNumbers ==
    /\ {WordMax, DeclaredMax, ReserveMax} \subseteq Nat
    /\ FrameLengths \subseteq 0..WordMax
    /\ WordMax <= DeclaredMax

VARIABLES
    adPlan,      \* the route's mode, ceiling and policy
    adPhase,     \* where the request or the collection is
    adHead,      \* what its head declared
    adLimit,     \* the bound it is read under
    adSeen,      \* the running total of the bound
    adKept,      \* the bytes retained or forwarded
    adReserve,   \* the bytes bought from the declaration
    adPermit,    \* who holds the permit, and whether it was released
    adTaken,     \* a handler took the buffered body
    adAsked      \* how often the policy was called

adVars == <<adPlan, adPhase, adHead, adLimit, adSeen, adKept, adReserve, adPermit, adTaken, adAsked>>

Undeclared == -1
Words == 0..WordMax
NoPolicy == [verdict |-> "none", max |-> 0, permit |-> FALSE]
\* What one application policy answers: a maximum, with or without a permit,
\* an error, or a panic, and no answer when no policy is configured.
PolicyAnswers ==
    [verdict : {"admit"}, max : Words, permit : BOOLEAN]
        \cup {[NoPolicy EXCEPT !.verdict = v] : v \in {"none", "error", "panic"}}

\* The declared length is compared at its own width.
declares_over(declared, most) == declared # Undeclared /\ declared > most

\* The total that would follow a frame, or a refusal: the sum is a word.
Overflows(observed, length) == observed + length > WordMax
checked_body_frame_total(observed, length, most) ==
    IF Overflows(observed, length) \/ observed + length > most THEN {} ELSE {observed + length}

\* The three clamps on what a declaration buys.
declared_reserve(declared, ceiling) ==
    IF declared = Undeclared THEN 0 ELSE Min({Min({declared, WordMax}), ceiling, ReserveMax})

AdInit ==
    /\ adPlan \in [mode : {"buffered", "streaming"}, ceiling : Words, policy : PolicyAnswers]
                    \cup [mode : {"collection"}, ceiling : Words, policy : {NoPolicy}]
    /\ adPhase = "head"
    /\ adHead = Undeclared
    /\ adLimit = 0 /\ adSeen = 0 /\ adKept = 0 /\ adReserve = 0
    /\ adPermit = "none" /\ adTaken = FALSE /\ adAsked = 0

IsCollection == adPlan.mode = "collection"

\* Every owner of a permit releases it by being dropped.
ReleasedFrom(permit) == IF permit \in {"request", "taken"} THEN "released" ELSE permit

RefuseBody(consulted, permit) ==
    /\ adPhase' = "refused"
    /\ adAsked' = consulted
    /\ adPermit' = permit
    /\ UNCHANGED <<adPlan, adLimit, adSeen, adKept, adReserve, adTaken>>

GrantBody(most, consulted, permit) ==
    /\ adPhase' = IF adPlan.mode = "streaming" THEN "gate" ELSE "reading"
    /\ adLimit' = most
    /\ adAsked' = consulted
    /\ adPermit' = permit
    /\ UNCHANGED <<adPlan, adSeen, adKept, adReserve, adTaken>>

\* The policy runs once, its maximum only narrows the ceiling, and a
\* declaration over the narrowed maximum drops the permit it just gave.
admit_under_policy(declared) ==
    LET said == adPlan.policy
        most == Min({said.max, adPlan.ceiling})
    IN  CASE said.verdict = "none" -> GrantBody(adPlan.ceiling, 0, "none")
          [] said.verdict \in {"error", "panic"} -> RefuseBody(1, "none")
          [] declares_over(declared, most) -> RefuseBody(1, IF said.permit THEN "released" ELSE "none")
          [] OTHER -> GrantBody(most, 1, IF said.permit THEN "request" ELSE "none")

\* admit: an undecodable coding is refused, then a declaration over the
\* ceiling, and only then is the policy asked.
admit(decodable, declared) ==
    /\ adPhase = "head" /\ ~IsCollection
    /\ adHead' = declared
    /\ IF ~decodable \/ declares_over(declared, adPlan.ceiling)
       THEN RefuseBody(0, "none")
       ELSE admit_under_policy(declared)

\* A streaming route's gate runs after admission; its refusal drops the grant.
pass_gate(passes) ==
    /\ adPhase = "gate"
    /\ adPhase' = IF passes THEN "reading" ELSE "refused"
    /\ adPermit' = IF passes THEN adPermit ELSE ReleasedFrom(adPermit)
    /\ UNCHANGED <<adPlan, adHead, adLimit, adSeen, adKept, adReserve, adTaken, adAsked>>

\* One data frame: counted first and kept second, in every mode.  A crossing
\* ends the read, and an upload that ends releases its permit.
admit_frame(length) ==
    /\ adPhase = "reading"
    /\ LET total == checked_body_frame_total(adSeen, length, adLimit)
       IN  IF total # {}
           THEN /\ adSeen' \in total
                /\ adKept' = adKept + length
                /\ UNCHANGED <<adPhase, adPermit>>
           ELSE /\ adPhase' = "refused"
                /\ adPermit' = ReleasedFrom(adPermit)
                /\ UNCHANGED <<adSeen, adKept>>
    /\ UNCHANGED <<adPlan, adHead, adLimit, adReserve, adTaken, adAsked>>

\* The payload ends.  A buffered request now holds its bytes and its permit;
\* an upload releases the permit; a collection is finished.
end_of_body ==
    /\ adPhase = "reading"
    /\ adPhase' = IF adPlan.mode = "buffered" THEN "handling" ELSE "done"
    /\ adPermit' = IF adPlan.mode = "buffered" THEN adPermit ELSE ReleasedFrom(adPermit)
    /\ UNCHANGED <<adPlan, adHead, adLimit, adSeen, adKept, adReserve, adTaken, adAsked>>

\* BodyClaim::take: the first call moves the bytes and the permit out of the
\* request, and every later one finds nothing.
take_body ==
    /\ adPhase = "handling" /\ ~adTaken
    /\ adTaken' = TRUE
    /\ adPermit' = IF adPermit = "request" THEN "taken" ELSE adPermit
    /\ UNCHANGED <<adPlan, adPhase, adHead, adLimit, adSeen, adKept, adReserve, adAsked>>

\* A handler drops the AdmittedBody or turns it into bytes.
drop_taken ==
    /\ adPermit = "taken"
    /\ adPermit' = "released"
    /\ UNCHANGED <<adPlan, adPhase, adHead, adLimit, adSeen, adKept, adReserve, adTaken, adAsked>>

\* The request ends: answered, disconnected or cancelled.  A permit a handler
\* took is no longer the request's to release.
release_request ==
    /\ adPhase \in {"gate", "reading", "handling"} /\ ~IsCollection
    /\ adPhase' = IF adPhase = "handling" THEN "done" ELSE "refused"
    /\ adPermit' = IF adPermit = "request" THEN "released" ELSE adPermit
    /\ UNCHANGED <<adPlan, adHead, adLimit, adSeen, adKept, adReserve, adTaken, adAsked>>

\* collect_checked: the declaration refuses, then buys, then chunks are kept.
start_collection(declared) ==
    /\ adPhase = "head" /\ IsCollection
    /\ adHead' = declared
    /\ IF declares_over(declared, adPlan.ceiling)
       THEN adPhase' = "refused" /\ UNCHANGED <<adLimit, adReserve>>
       ELSE /\ adPhase' = "reading"
            /\ adLimit' = adPlan.ceiling
            /\ adReserve' = declared_reserve(declared, adPlan.ceiling)
    /\ UNCHANGED <<adPlan, adSeen, adKept, adPermit, adTaken, adAsked>>

\* The source goes quiet for longer than the collection allows, or a read
\* fails: nothing is polled afterwards.
fail_collection ==
    /\ adPhase = "reading" /\ IsCollection
    /\ adPhase' = "refused"
    /\ UNCHANGED <<adPlan, adHead, adLimit, adSeen, adKept, adReserve, adPermit, adTaken, adAsked>>

AdNext ==
    \/ \E decodable \in BOOLEAN, declared \in {Undeclared} \cup (0..DeclaredMax) : admit(decodable, declared)
    \/ \E passes \in BOOLEAN : pass_gate(passes)
    \/ \E length \in FrameLengths : admit_frame(length)
    \/ end_of_body \/ take_body \/ drop_taken \/ release_request
    \/ \E declared \in {Undeclared} \cup (0..DeclaredMax) : start_collection(declared)
    \/ fail_collection

(***************************************************************************)
(* Properties.                                                             *)
(***************************************************************************)
\* However the frames are cut, nothing a source sends is kept past the bound,
\* the bound is never above the route's ceiling or what the policy selected,
\* and the running total is the bytes kept: a sum that would leave the word
\* is a refusal and never a small total.
BoundKept ==
    /\ adKept <= adLimit
    /\ adKept = adSeen
    /\ adLimit <= adPlan.ceiling
    /\ adPlan.policy.verdict = "admit" => adLimit <= adPlan.policy.max
    /\ adReserve <= Min({adPlan.ceiling, ReserveMax})

\* A request whose head states more than its bound is refused before a frame
\* is read, and the policy is never asked, and so never gives a permit, for a
\* request the configured ceiling already rules out.
DeclarationRefused ==
    adHead # Undeclared =>
        /\ adPhase \in {"gate", "reading", "handling", "done"} => adHead <= adLimit
        /\ adHead > adPlan.ceiling => adAsked = 0 /\ adPermit = "none"

\* A permit exists while the work it was given for does and no longer: one
\* that was handed over is held until the body ends or a handler takes it, and
\* every ending releases it, except while a handler keeps what it took.
PermitFollowsWork ==
    /\ adAsked <= 1
    /\ adPermit # "none" <=> adAsked = 1 /\ adPlan.policy.permit
    /\ adPhase \in {"refused", "done"} => adPermit # "request"
    /\ adPhase \in {"gate", "reading"} => adPermit \in {"none", "request"}
    /\ adTaken => adPermit # "request"
    /\ adPermit = "taken" => adTaken /\ adPhase \in {"handling", "done"}

AdmissionSound == BoundKept /\ DeclarationRefused /\ PermitFollowsWork
=============================================================================
