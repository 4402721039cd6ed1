------------------------------- MODULE Dns01 -------------------------------
(***************************************************************************)
(* The DNS-01 certificate owner (dns01/): one renewing owner that reads   *)
(* its cache, runs ACME orders through a DNS provider, cleans up the TXT   *)
(* records it raised, publishes the validated generation to the cache and *)
(* only then swaps it into the served store.  A step of this module is     *)
(* what happens between two awaits of the owner's task.  The directory,    *)
(* the provider and the file system answer from outside: an answer is      *)
(* chosen, and the truth of what it did is kept beside it.                 *)
(*                                                                         *)
(* Authorization i of an order belongs to the i-th configured domain and   *)
(* to slot i of the cleanup register.  A certificate generation is its     *)
(* number; generation 1 is what an earlier process left in the cache.      *)
(***************************************************************************)
EXTENDS Integers, FiniteSets, Sequences

CONSTANTS
  Auths,        \* authorizations (and domains) of an order
  ItemLimit,    \* MAX_CLEANUP_ITEMS
  MaxOrders,    \* bound: orders over all processes
  MaxRestarts   \* bound: process restarts

VARIABLES
  dnOwner,    \* the renewing owner: where its task is, what it serves
  dnOrder,    \* the order in hand, and the truth of what it did outside
  dnCache,    \* the cache directory; prior is what a power loss may go back to
  dnStop,     \* StopRequest: a lifecycle signal fired
  dnClaim,    \* RenewalClaims for this cache: "none", "self", "rival"
  dnAged,     \* generations inside the renewal window
  dnLedger    \* bounds, and the accounts the directory registered

dnVars == <<dnOwner, dnOrder, dnCache, dnStop, dnClaim, dnAged, dnLedger>>

Slots == 1..Auths
NoRecords == [s \in Slots |-> "none"]
NoBundle == [no |-> 0, whole |-> TRUE, synced |-> TRUE]

Failure(kind, retry) == [kind |-> kind, retry |-> retry, items |-> {}]
Issued == Failure("ok", "-")
Unanswered == Failure("none", "-")

-----------------------------------------------------------------------------
(* validate: the key pair, the window, and a name for every domain, exact   *)
(* or by a wildcard.  What was refused is told apart from nothing else.     *)
validate == {"valid", "refused"}

(* What the provider answers, by what follows from it.  A "safe" answer     *)
(* (no connection, throttled) and a "refused" one (rejected, not permitted, *)
(* redirected, never prepared) applied nothing; an "untyped" error reads as *)
(* a refusal and says nothing of the record; an answer "in doubt" (a        *)
(* timeout, a lost, oversized or malformed answer, a server error, a panic) *)
(* says nothing at all; a record to delete can be "missing".                *)
-----------------------------------------------------------------------------
Answers == {"ok", "safe", "refused", "untyped", "in doubt", "missing"}
Doubtful == {"untyped", "in doubt", "missing"}

(* cloudflare_wire::answer with its failure classes, for a side effect, and *)
(* callback_answer over a provider that panics or answers an untyped error. *)
SideEffectFailure(event) ==
  Failure("failed", CASE event = "safe" -> "safe"
                      [] event \in {"refused", "untyped"} -> "never"
                      [] OTHER -> "unknown")

(* A read-only zone lookup that fails says whether to repeat it. *)
LookupFailures == {Failure("failed", "safe"), Failure("failed", "never")}

created_nothing(event) == event \in {"safe", "refused"}

Records == dnOrder.records
Unresolved == {s \in Slots : Records[s] \notin {"none", "resolved"}}

(* expire: what the bound cut off is failed; an intention stays one. *)
Expired == [s \in Slots |-> IF Records[s] \in {"created", "deleting"}
                            THEN "failed" ELSE Records[s]]

(* settle: an unresolved record outranks the order's own result. *)
Settled(issued) ==
  IF Unresolved = {} THEN issued
  ELSE [kind |-> "CleanupIncomplete", retry |-> "never", items |-> Unresolved]

retryability == IF dnOrder.submitted THEN "unknown" ELSE "safe"

-----------------------------------------------------------------------------
FreshOrder == [auth |-> 0, submitted |-> FALSE, unseen |-> FALSE, records |-> NoRecords,
               zone |-> {}, issued |-> Unanswered]

(* What a process may find in its cache directory.  A half of a legacy pair *)
(* is refused and leads to an order, as no pair does; an account of another *)
(* directory reads as none; "unsynced" is one whose save failed after its   *)
(* rename.                                                                  *)
FoundCaches ==
  {[disk |-> disk, prior |-> disk, legacy |-> legacy, temp |-> "none", account |-> account] :
     disk \in {NoBundle, [NoBundle EXCEPT !.no = 1],
              [NoBundle EXCEPT !.no = 1, !.whole = FALSE]},
     legacy \in {"none", "pair"}, account \in {"none", "corrupt", "own"}}
HasAccount == dnCache.account \in {"own", "unsynced"}

DnInit ==
  /\ dnOwner = [pc |-> "idle", phase |-> "initial", served |-> 0, from |-> "none",
                publishing |-> 0, answer |-> Unanswered]
  /\ dnOrder = FreshOrder
  /\ dnCache \in FoundCaches /\ (dnCache.disk.no = 1 => dnCache.legacy = "none")
  /\ dnStop = FALSE /\ dnClaim = "none" /\ dnAged = {}
  /\ dnLedger = [orders |-> 0, restarts |-> 0, registered |-> 0, excused |-> FALSE]

At(at) == dnOwner.pc = at
OwnerTo(at) == dnOwner' = [dnOwner EXCEPT !.pc = at]

(* admit_renewing: one owner per cache directory; a rival is refused. *)
admit_renewing ==
  /\ At("idle") /\ dnClaim = "none"
  /\ dnClaim' = "self" /\ OwnerTo("read")
  /\ UNCHANGED <<dnOrder, dnCache, dnStop, dnAged, dnLedger>>

RivalClaims ==
  /\ dnClaim \in {"none", "rival"}
  /\ dnClaim' = IF dnClaim = "none" THEN "rival" ELSE "none"
  /\ UNCHANGED <<dnOwner, dnOrder, dnCache, dnStop, dnAged, dnLedger>>

(* What was found in the cache is served or kept while it is not due;       *)
(* anything else runs an order.                                             *)
Decide(found) ==
  \/ /\ found.no > 0 /\ found.whole /\ found.no \notin dnAged
     /\ dnOwner' = [dnOwner EXCEPT !.pc = "tick", !.phase = "renew",
                      !.served = IF dnOwner.phase = "initial" THEN found.no ELSE @,
                      !.from = IF dnOwner.phase = "initial" THEN "cache" ELSE @]
     /\ UNCHANGED <<dnOrder, dnLedger>>
  \/ /\ found.no = 0 \/ ~found.whole \/ found.no \in dnAged
     /\ dnLedger.orders < MaxOrders
     /\ dnLedger' = [dnLedger EXCEPT !.orders = @ + 1]
     /\ dnOrder' = FreshOrder /\ OwnerTo("zone")

(* read_reported, then initial or renew: the bundle, else the legacy pair,  *)
(* which is migrated through a publication first; half a pair is refused.   *)
(* A failed migration leads to an order, so their bound holds it back too.  *)
read_reported ==
  /\ At("read")
  /\ IF dnCache.disk.no = 0 /\ dnCache.legacy = "pair"
     THEN /\ dnLedger.orders < MaxOrders
          /\ dnOwner' = [dnOwner EXCEPT !.pc = "pubCreate", !.publishing = 1]
          /\ UNCHANGED <<dnOrder, dnLedger>>
     ELSE Decide(dnCache.disk)
  /\ UNCHANGED <<dnCache, dnStop, dnClaim, dnAged>>

(* tick_until: the interval passes, or the stop ends the loop. *)
renew ==
  /\ At("tick")
  /\ IF dnStop THEN OwnerTo("ended") /\ dnClaim' = "none" /\ UNCHANGED dnOrder
     ELSE /\ dnOwner' = [dnOwner EXCEPT !.pc = "read", !.publishing = 0, !.answer = Unanswered]
          /\ dnOrder' = FreshOrder /\ UNCHANGED dnClaim
  /\ UNCHANGED <<dnCache, dnStop, dnAged, dnLedger>>

(* The order's answer reaches the owner: a key is served, a failed first    *)
(* order ends the owner, a stopped renewal returns, another failure waits   *)
(* for the next pass.  `ready` refuses the first key once the close began.  *)
Returns(says) ==
  \/ dnOwner.phase = "initial" /\ (says.kind # "ok" \/ dnStop)
  \/ says.kind = "Cancelled" /\ dnStop

OrderEnds(says) ==
  /\ dnOwner' = [dnOwner EXCEPT !.answer = says,
                   !.pc = IF Returns(says) THEN "ended" ELSE "tick",
                   !.phase = IF Returns(says) THEN @ ELSE "renew",
                   !.served = IF says.kind = "ok" /\ ~Returns(says)
                              THEN dnOwner.publishing ELSE @,
                   !.from = IF says.kind = "ok" /\ ~Returns(says) THEN "order" ELSE @]
  /\ dnClaim' = IF Returns(says) THEN "none" ELSE dnClaim

-----------------------------------------------------------------------------
(* run_order.                                                               *)
-----------------------------------------------------------------------------
Continue(at) == OwnerTo(at) /\ UNCHANGED dnClaim

(* AcmeTransport::send: the last request is settled, and a write is marked  *)
(* once it is about to leave.                                               *)
Sends(write) == dnOrder' = [dnOrder EXCEPT !.submitted = write, !.unseen = write]

(* A stop is refused before the account step and never cuts it. *)
load_or_create_account ==
  /\ At("account")
  /\ \/ /\ dnStop \/ dnCache.account = "corrupt"
        /\ OrderEnds(IF dnStop THEN Failure("Cancelled", "safe") ELSE Failure("failed", "never"))
        /\ UNCHANGED <<dnOrder, dnLedger>>
     \/ /\ ~dnStop /\ dnCache.account # "corrupt"
        /\ Continue("accountSent") /\ Sends(~HasAccount)
        /\ dnLedger' = [dnLedger EXCEPT !.registered = IF HasAccount THEN @ ELSE @ + 1]
  /\ UNCHANGED <<dnCache, dnStop, dnAged>>

(* AcmeProgress::classify of a request that failed, with what is then true: *)
(* a refusal, or a connection that never opened, leaves nothing in doubt.   *)
AcmeFailures ==
  {<<Failure("failed", "safe"), FALSE>>, <<Failure("failed", "never"), FALSE>>}
  \union IF dnOrder.submitted THEN {<<Failure("failed", retryability), TRUE>>} ELSE {}

(* A failure before `issue` ends the order; one inside it is fixed as the   *)
(* order's result and answered through the cleanup.                         *)
Fails(failure, order) ==
  IF At("zone") \/ At("accountSent") \/ At("neworder")
  THEN OrderEnds(failure) /\ dnOrder' = order
  ELSE Continue("cleanup") /\ dnOrder' = [order EXCEPT !.issued = failure]

(* prepare: the authority over every domain, before any record is written. *)
prepare ==
  /\ At("zone") /\ ~dnStop
  /\ \/ Continue("account") /\ UNCHANGED dnOrder
     \/ \E f \in LookupFailures : Fails(f, dnOrder)
  /\ UNCHANGED <<dnCache, dnStop, dnAged, dnLedger>>

(* save_new_credentials: a failed save is only logged, and one that fails   *)
(* at the directory's sync leaves the account there until a power loss.     *)
account_answered ==
  /\ At("accountSent")
  /\ \/ /\ Continue("neworder") /\ Sends(FALSE)
        /\ \/ HasAccount /\ UNCHANGED <<dnCache, dnLedger>>
           \/ /\ ~HasAccount /\ dnCache' = [dnCache EXCEPT !.account = "own"]
              /\ UNCHANGED dnLedger
           \/ /\ ~HasAccount /\ dnLedger' = [dnLedger EXCEPT !.excused = TRUE]
              /\ \E left \in {"none", "unsynced"} : dnCache' = [dnCache EXCEPT !.account = left]
     \/ /\ \E f \in AcmeFailures : Fails(f[1], [dnOrder EXCEPT !.unseen = f[2]])
        /\ dnLedger' = [dnLedger EXCEPT !.excused = TRUE] /\ UNCHANGED dnCache
  /\ UNCHANGED <<dnStop, dnAged>>

acme_submitted ==
  /\ dnOwner.pc \in {"neworder", "ready", "finalize"} /\ ~dnOrder.submitted /\ ~dnStop
  /\ Sends(TRUE)
  /\ UNCHANGED <<dnOwner, dnCache, dnStop, dnClaim, dnAged, dnLedger>>

(* The answer to new_order, set_ready, finalize or poll_certificate. *)
AfterAnswer == [neworder |-> "fetch", ready |-> "fetch", finalize |-> "cert", cert |-> "cleanup"]

acme_answered ==
  /\ dnOwner.pc \in DOMAIN AfterAnswer /\ ~dnStop
  /\ At("cert") \/ dnOrder.submitted
  /\ \/ /\ Continue(AfterAnswer[dnOwner.pc])
        /\ dnOrder' = [dnOrder EXCEPT !.submitted = FALSE, !.unseen = FALSE,
                         !.issued = IF At("cert") THEN Issued ELSE @]
     \/ \E f \in AcmeFailures : Fails(f[1], [dnOrder EXCEPT !.unseen = f[2]])
  /\ UNCHANGED <<dnCache, dnStop, dnAged, dnLedger>>

(* intend: the slot exists before the create is sent, or nothing is sent. *)
Intends(auth) ==
  IF Cardinality({s \in Slots : Records[s] # "none"}) < ItemLimit
  THEN /\ Continue("create")
       /\ dnOrder' = [dnOrder EXCEPT !.auth = auth, !.records[auth] = "intended"]
  ELSE Fails(Failure("failed", "never"), dnOrder)

(* create_dns_challenges: the next authorization, pending or valid already. *)
create_dns_challenges ==
  /\ At("fetch") /\ ~dnStop
  /\ \/ dnOrder.auth = Auths /\ Continue("poll") /\ UNCHANGED dnOrder
     \/ /\ dnOrder.auth < Auths
        /\ \/ Continue("fetch") /\ dnOrder' = [dnOrder EXCEPT !.auth = @ + 1]
           \/ Intends(dnOrder.auth + 1)
           \/ \E f \in AcmeFailures : Fails(f[1], dnOrder)
  /\ UNCHANGED <<dnCache, dnStop, dnAged, dnLedger>>

(* create_record: the provider's answer acknowledges, refuses or leaves the *)
(* intention open.                                                          *)
create_record ==
  /\ At("create") /\ ~dnStop
  /\ \E event \in Answers, applied \in BOOLEAN :
       /\ event = "ok" => applied
       /\ event \notin Doubtful \union {"ok"} => ~applied
       /\ LET raised == [dnOrder EXCEPT !.zone = IF applied THEN @ \union {dnOrder.auth} ELSE @]
          IN \/ /\ event = "ok" /\ Continue("ready")
                /\ dnOrder' = [raised EXCEPT !.records[dnOrder.auth] = "created"]
             \/ /\ event # "ok" /\ created_nothing(event)
                /\ Fails(SideEffectFailure(event),
                         [raised EXCEPT !.records[dnOrder.auth] = "resolved"])
             \/ /\ event # "ok" /\ ~created_nothing(event)
                /\ Fails(SideEffectFailure(event), raised)
  /\ UNCHANGED <<dnCache, dnStop, dnAged, dnLedger>>

poll_ready ==
  /\ At("poll") /\ ~dnStop
  /\ \/ Continue("finalize") /\ UNCHANGED dnOrder
     \/ \E f \in AcmeFailures : Fails(f[1], dnOrder)
  /\ UNCHANGED <<dnCache, dnStop, dnAged, dnLedger>>

(* OrderStop::step: the stop first, then the deadline.  A create cut off in *)
(* flight may still be applied.                                             *)
step ==
  /\ dnOwner.pc \in {"zone", "neworder", "fetch", "create", "ready", "poll", "finalize", "cert"}
  /\ \E late \in BOOLEAN :
       /\ late => At("create")
       /\ Fails(Failure(IF dnStop THEN "Cancelled" ELSE "failed", retryability),
                [dnOrder EXCEPT !.zone = IF late THEN @ \union {dnOrder.auth} ELSE @])
  /\ UNCHANGED <<dnCache, dnStop, dnAged, dnLedger>>

-----------------------------------------------------------------------------
(* clean_up, settle and publish_issued.                                     *)
-----------------------------------------------------------------------------
Created == {s \in Slots : Records[s] = "created"}

(* delete_created: each acknowledged record in turn. *)
delete_created ==
  /\ At("cleanup") /\ \A s \in Slots : Records[s] # "deleting"
  /\ \/ /\ Created # {} /\ UNCHANGED dnOwner
        /\ \E s \in Created : /\ \A t \in Created : s <= t
                              /\ dnOrder' = [dnOrder EXCEPT !.records[s] = "deleting"]
     \/ Created = {} /\ OwnerTo("settle") /\ UNCHANGED dnOrder
  /\ UNCHANGED <<dnCache, dnStop, dnClaim, dnAged, dnLedger>>

delete_answered ==
  /\ At("cleanup")
  /\ \E s \in Slots, event \in Answers, applied \in BOOLEAN :
       /\ Records[s] = "deleting"
       /\ event \in {"ok", "missing"} => applied
       /\ event \notin Doubtful \union {"ok"} => ~applied
       /\ dnOrder' = [dnOrder EXCEPT !.zone = IF applied THEN @ \ {s} ELSE @,
                        !.records[s] = IF event \in {"ok", "missing"} THEN "resolved" ELSE "failed"]
  /\ UNCHANGED <<dnOwner, dnCache, dnStop, dnClaim, dnAged, dnLedger>>

(* clean_up: its own bound, or the aggregate's once the runtime stops. *)
clean_up_expires ==
  /\ At("cleanup") /\ OwnerTo("settle")
  /\ dnOrder' = [dnOrder EXCEPT !.records = Expired]
  /\ UNCHANGED <<dnCache, dnStop, dnClaim, dnAged, dnLedger>>

(* settle, then validate: only a whole result over a clean zone goes on. *)
settle ==
  /\ At("settle")
  /\ LET says == Settled(dnOrder.issued)
     IN \/ says # Issued /\ OrderEnds(says)
        \/ /\ says = Issued
           /\ \E judged \in validate :
                IF judged = "refused" THEN OrderEnds(Failure("failed", "never"))
                ELSE /\ UNCHANGED dnClaim
                     /\ dnOwner' = [dnOwner EXCEPT !.pc = "pubCreate",
                                      !.publishing = 1 + dnLedger.orders]
  /\ UNCHANGED <<dnOrder, dnCache, dnStop, dnAged, dnLedger>>

-----------------------------------------------------------------------------
(* publication.rs: the private temporary file, its sync, the rename and the *)
(* directory sync, any of which can fail.                                   *)
-----------------------------------------------------------------------------
Migrating == dnOwner.publishing = 1

(* A failed migration is a cache failure, and a cache failure renews; a     *)
(* failed publication of an issued generation is the order's failure.       *)
PublicationEnds(ok) ==
  IF Migrating
  THEN Decide([NoBundle EXCEPT !.no = IF ok THEN 1 ELSE 0]) /\ UNCHANGED dnClaim
  ELSE /\ \E says \in IF ok THEN {Issued}
                        ELSE {Failure("failed", "safe"), Failure("failed", "never")} :
            OrderEnds(says)
       /\ UNCHANGED <<dnOrder, dnLedger>>

Stage(at, temp, then) ==
  /\ At(at)
  /\ \/ /\ Continue(then) /\ dnCache' = [dnCache EXCEPT !.temp = temp]
        /\ UNCHANGED <<dnOrder, dnLedger>>
     \/ PublicationEnds(FALSE) /\ dnCache' = [dnCache EXCEPT !.temp = "none"]
  /\ UNCHANGED <<dnStop, dnAged>>

create_pending == Stage("pubCreate", "empty", "pubWrite")
write_contents == Stage("pubWrite", "full", "pubSync")
sync_contents == Stage("pubSync", "synced", "pubRename")
rename ==
  /\ At("pubRename")
  /\ \/ /\ Continue("pubDirSync") /\ UNCHANGED <<dnOrder, dnLedger>>
        /\ dnCache' = [dnCache EXCEPT !.temp = "none",
                         !.disk = [no |-> dnOwner.publishing, whole |-> TRUE,
                                   synced |-> dnCache.temp = "synced"]]
     \/ PublicationEnds(FALSE) /\ dnCache' = [dnCache EXCEPT !.temp = "none"]
  /\ UNCHANGED <<dnStop, dnAged>>

(* A failed directory sync reports the failure over the renamed bundle. *)
sync_parent_directory ==
  /\ At("pubDirSync")
  /\ \/ PublicationEnds(TRUE) /\ dnCache' = [dnCache EXCEPT !.prior = dnCache.disk]
     \/ PublicationEnds(FALSE) /\ UNCHANGED dnCache
  /\ UNCHANGED <<dnStop, dnAged>>

-----------------------------------------------------------------------------
(* From outside: time, the stop, the forced drop and a new process.         *)
-----------------------------------------------------------------------------
Ages ==
  /\ dnCache.disk.no > 0 /\ dnCache.disk.no \notin dnAged /\ At("tick")
  /\ dnAged' = dnAged \union 1..dnCache.disk.no
  /\ UNCHANGED <<dnOwner, dnOrder, dnCache, dnStop, dnClaim, dnLedger>>

StopFires ==
  /\ ~dnStop /\ dnOwner.pc \notin {"idle", "ended"} /\ dnStop' = TRUE
  /\ UNCHANGED <<dnOwner, dnOrder, dnCache, dnClaim, dnAged, dnLedger>>

(* A forced stop drops the frame wherever it awaits; the report slot shares *)
(* the register and charges what it still owes.                             *)
InOrder == dnOwner.pc \in {"zone", "accountSent", "neworder", "fetch", "create", "ready", "poll",
                           "finalize", "cert", "cleanup"}

forced_stop ==
  /\ dnStop /\ InOrder
  /\ \E late \in BOOLEAN :
       /\ late => At("create")
       /\ dnOrder' = [dnOrder EXCEPT !.zone = IF late THEN @ \union {dnOrder.auth} ELSE @]
  /\ dnOwner' = [dnOwner EXCEPT !.pc = "ended",
                   !.answer = Settled(Failure("Forced", "unknown"))]
  /\ dnLedger' = [dnLedger EXCEPT !.excused = @ \/ At("accountSent")]
  /\ dnClaim' = "none" /\ UNCHANGED <<dnCache, dnStop, dnAged>>

(* The process dies alone and the directory is as it left it, the rename    *)
(* no sync followed included; or the power is lost, such a rename may be    *)
(* undone and contents that were never synced be torn, and what is found    *)
(* then is durable.                                                         *)
ProcessDies ==
  \E account \in {dnCache.account} \union IF At("accountSent") /\ ~HasAccount THEN {"unsynced"} ELSE {} :
    dnCache' = [dnCache EXCEPT !.temp = "none", !.account = account]
PowerLost ==
  \E disk \in {dnCache.prior, [dnCache.disk EXCEPT !.whole = @ /\ dnCache.disk.synced]},
     account \in IF dnCache.account = "unsynced" THEN {"none", "own"} ELSE {dnCache.account} :
    dnCache' = [dnCache EXCEPT !.disk = disk, !.prior = disk, !.temp = "none", !.account = account]

(* The process dies, or ended, and another is started.  What the dead one   *)
(* left in the zone is beyond any register.                                 *)
Restart ==
  /\ dnLedger.restarts < MaxRestarts /\ dnOwner.pc # "idle"
  /\ ProcessDies \/ PowerLost
  /\ dnOwner' = [dnOwner EXCEPT !.pc = "idle", !.phase = "initial", !.served = 0, !.from = "none",
                   !.publishing = 0, !.answer = Unanswered]
  /\ dnLedger' = [dnLedger EXCEPT !.restarts = @ + 1, !.excused = @ \/ At("accountSent")]
  /\ dnOrder' = FreshOrder /\ dnStop' = FALSE
  /\ dnClaim' = IF dnClaim = "self" THEN "none" ELSE dnClaim
  /\ UNCHANGED dnAged

DnStep ==
  \/ read_reported \/ renew \/ prepare \/ load_or_create_account \/ account_answered
  \/ acme_submitted \/ acme_answered \/ create_dns_challenges \/ create_record \/ poll_ready
  \/ step \/ delete_created \/ delete_answered \/ clean_up_expires \/ settle
  \/ create_pending \/ write_contents \/ sync_contents \/ rename \/ sync_parent_directory

DnNext ==
  DnStep \/ admit_renewing \/ RivalClaims \/ Ages \/ StopFires \/ forced_stop \/ Restart

-----------------------------------------------------------------------------
(* Properties.                                                              *)
-----------------------------------------------------------------------------
(* Every TXT record an order may have left in the zone stands in its        *)
(* register from before the create was sent, and an order that answered     *)
(* names every one of them: a key or a retryable failure leaves none.       *)
RecordsAccounted ==
  /\ \A s \in dnOrder.zone : Records[s] \in {"intended", "created", "deleting", "failed"}
  /\ dnOwner.answer # Unanswered /\ dnOwner.pc \in {"tick", "ended"}
       => dnOrder.zone \subseteq dnOwner.answer.items

(* An order answered as safe to retry left no ACME write in doubt.          *)
SafeMeansSettled ==
  dnOwner.pc \in {"tick", "ended"} /\ dnOwner.answer.retry = "safe" => ~dnOrder.unseen

(* A second account is registered at the directory only when the first one  *)
(* was lost to its own request or to a failed save, never to a stop.        *)
RegistrationKept == dnLedger.registered > 1 => dnLedger.excused

(* The cache never holds part of a generation this program published, and  *)
(* no restart, after a power loss included, can find one older than the     *)
(* generation an order of this process put into service.  One the process   *)
(* found in the cache is served as it is, its rename synced or not          *)
(* (cache.rs, inspect), and is promised only against a restart that finds   *)
(* the directory as it was left.                                            *)
CacheSound ==
  /\ dnCache.disk.no > 1 => dnCache.disk.whole
  /\ dnOwner.served <= dnCache.disk.no
  /\ dnOwner.from = "order" => dnOwner.served <= dnCache.prior.no

(* A renewing owner holds the claim of its cache for its whole life, so no  *)
(* rival renews the same cache beside it.                                   *)
OneRenewer == dnClaim = "self" <=> dnOwner.pc \notin {"idle", "ended"}

(* What DNS-01 issuance promises: records are accounted for, answers are    *)
(* honest about retrying, accounts are kept, and the cache is sound.        *)
Dns01Safe ==
  /\ RecordsAccounted /\ SafeMeansSettled /\ RegistrationKept /\ CacheSound /\ OneRenewer

(* A served certificate is only ever replaced by a newer one, and only in   *)
(* a running process.                                                       *)
ServedAdvances == dnOwner'.served >= dnOwner.served \/ dnOwner'.pc = "idle"

(* The owner always comes back to its interval, or ends; and it ends once   *)
(* a stop was requested, however the directory and the provider answer.     *)
RenewalRests ==
  dnOwner.pc \in {"idle", "read", "ended"} \/ (dnOwner.pc = "tick" /\ ~dnStop)
RenewalGoesOn == []<>RenewalRests
=============================================================================
