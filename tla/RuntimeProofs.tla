---------------------------- MODULE RuntimeProofs ----------------------------
(***************************************************************************)
(* Proofs about RuntimeLifecycle: for any number of resources, the claims  *)
(* on them are exact, teardown accounts for each of them, Ok means that    *)
(* every shutdown callback returned Ok, and a drain that completed keeps   *)
(* health checks out of the teardown pass.                                 *)
(*                                                                         *)
(* None of these is inductive alone.  RuntimeInductive adds what ties a    *)
(* worker to the coordinator that waits for it (Worked, Mine), where a     *)
(* coordinator can be while it waits (Waits), and what the shutdown pass   *)
(* has accounted for so far (Accounted).  The claims, workers and waits    *)
(* change in six shapes, each with a lemma of its own; every action is     *)
(* then shown to be one of those shapes.                                   *)
(***************************************************************************)
EXTENDS RuntimeLifecycle, TLAPS

\* The phase of the callbacks a coordinator starts.
PhaseOf(c) == IF c = "health" THEN "periodic" ELSE pc

Down == {"shutdown", "executor", "returned"}

\* The claims: a resource is claimed by the one worker short of its release.
Claims ==
    /\ GateExact
    /\ \A v, w \in workers : v.at # "released" /\ w.at # "released" /\ v.res = w.res => v = w

\* The workers: what each has become, and the wait of the coordinator it is for.
Work(w) ==
    /\ w.at # "calling" => w.out \in {"ok", "failed"}
    /\ w.at = "released" => w.for # "nobody"
    /\ w.phase = "shutdown" /\ w.out = "ok" => w.res \in stopped
    /\ \A c \in Coordinators :
         w.for = c => wait[c] = "running" /\ w.res = cursor[c] /\ w.phase = PhaseOf(c)
Worked ==
    /\ \A w \in workers : Work(w)
    /\ \A v, w \in workers : \A c \in Coordinators : v.for = c /\ w.for = c => v = w

\* No worker of its own phase stands between a coordinator and its answer.
Mine ==
    \A c \in Coordinators, w \in workers :
        wait[c] \in {"running", "ok", "failed"} /\ w.res = cursor[c] /\ w.phase = PhaseOf(c) =>
            w.for = c

\* Where the two coordinators stand while they wait.
Waits ==
    /\ wait["driver"] # "no" => pc \in {"startup", "shutdown"} /\ cursor["driver"] \in Res
    /\ wait["health"] # "no" => health \in {"waiting", "resumed"}
    /\ health = "resumed" => wait["health"] \in Outcomes
    /\ health \in {"waiting", "resumed"} => cursor["health"] \in Res
    /\ pc = "startup" => health = "absent"

\* The teardown: what the driver has passed is accounted for, a forced drain is
\* named, and a drain that was not forced has ended the health coordinator.
Accounted ==
    /\ pc = "shutdown" => \A r \in Res : r > cursor["driver"] => r \in stopped \cup log
    /\ pc \in {"executor", "returned"} => Res \subseteq stopped \cup log
    /\ pc = "shutdown" /\ wait["driver"] = "ok" => cursor["driver"] \in stopped
    /\ pc \in Down => IF forced THEN log # {} ELSE health \in {"absent", "done"}
Resulted ==
    /\ pc \in {"closing", "draining"} \cup Down => scoped # "none"
    /\ scoped = "value" \/ pc = "serving" => served
    /\ result # "none" => pc = "returned"
    /\ result = "Ok" => log = {} /\ served

RuntimeInductive == TypeOK /\ Claims /\ Worked /\ Mine /\ Waits /\ Accounted /\ Resulted

-----------------------------------------------------------------------------

\* What a worker's record keeps when it returns, releases its claim or is left.
Back(w, out) == [w EXCEPT !.at = "returned", !.out = out]

\* The callback returned: the worker keeps resource, phase and coordinator.
LEMMA ReturnedFields ==
    ASSUME NEW w \in Workers, NEW out \in {"ok", "failed"}
    PROVE  /\ Back(w, out) \in Workers /\ Back(w, out).res = w.res /\ Back(w, out).phase = w.phase
           /\ Back(w, out).for = w.for /\ Back(w, out).at = "returned" /\ Back(w, out).out = out
    BY Zenon DEF Workers, Back

\* The claim is dropped (run_worker): only the worker's place changes.
LEMMA ReleasedFields ==
    ASSUME NEW w \in Workers, NEW n, n = [w EXCEPT !.at = "released"]
    PROVE  /\ n \in Workers /\ n.res = w.res /\ n.phase = w.phase /\ n.for = w.for
           /\ n.at = "released" /\ n.out = w.out
    BY DEF Workers

\* The coordinator dropped its end: only whom the worker is for changes.
LEMMA LeftFields ==
    ASSUME NEW w \in Workers, NEW n, n = [w EXCEPT !.for = "nobody"]
    PROVE  /\ n \in Workers /\ n.res = w.res /\ n.phase = w.phase /\ n.for = "nobody"
           /\ n.at = w.at /\ n.out = w.out
    BY DEF Workers

\* The books of claims, callbacks and waits.
Books == Claims /\ Worked /\ Mine

\* A step that leaves the workers alone and moves only coordinators that wait
\* for none, or to where none is waited for.
Aside ==
    /\ UNCHANGED <<gate, workers, stopped>>
    /\ \A c \in Coordinators :
         \/ wait'[c] = wait[c] /\ cursor'[c] = cursor[c] /\ PhaseOf(c)' = PhaseOf(c)
         \/ wait[c] # "running" /\ wait'[c] \notin {"running", "ok", "failed"}

\* Steps of run_callback's callers that touch no worker keep the books.
LEMMA AsideKeeps == Books /\ Aside => Books'
<1> SUFFICES ASSUME Books, Aside PROVE Books'
    OBVIOUS
<1>1. Claims'
    BY DEF Books, Claims, GateExact, Aside
<1>2. ASSUME NEW w \in workers PROVE Work(w)'
    BY DEF Books, Worked, Work, Aside
<1>3. Worked'
    BY <1>2 DEF Books, Worked, Aside
<1>4. Mine'
    BY DEF Books, Mine, Worked, Work, Aside
<1> QED
    BY <1>1, <1>3, <1>4 DEF Books

\* A coordinator that waits for nobody claims the resource it visits.
Enters(c) ==
    /\ wait[c] = "no" /\ Claim(c, cursor[c], PhaseOf(c))
    /\ UNCHANGED <<pc, cursor, stopped>>

\* try_claim and claim_within keep the books: the resource was free, so no
\* worker holds it and none of this coordinator is left.
LEMMA EntersKeeps ==
    ASSUME TypeOK, Books, NEW c \in Coordinators, Enters(c)
    PROVE  Books'
<1>0. PICK n : n = [res |-> cursor[c], phase |-> PhaseOf(c), for |-> c, at |-> "calling", out |-> "none"]
    BY Zenon
<1>1. /\ n.res = cursor[c] /\ n.phase = PhaseOf(c) /\ n.for = c /\ n.at = "calling" /\ n.out = "none"
      /\ workers' = workers \cup {n} /\ gate' = gate \cup {cursor[c]} /\ cursor[c] \notin gate
    BY <1>0 DEF Enters, Claim
<1>2. /\ UNCHANGED <<pc, cursor, stopped>> /\ wait[c] = "no" /\ wait'[c] = "running"
      /\ \A d \in Coordinators : d # c => wait'[d] = wait[d]
      /\ \A d \in Coordinators : PhaseOf(d)' = PhaseOf(d)
    BY DEF Enters, Claim, TypeOK, PhaseOf
<1>3. \A w \in workers : w.at # "released" => w.res # cursor[c]
    BY <1>1 DEF Books, Claims, GateExact
<1>4. \A w \in workers : w.for # c
    BY <1>2 DEF Books, Worked, Work
<1>5. \A d \in Coordinators : d # c => PhaseOf(d) # PhaseOf(c)
    BY DEF PhaseOf, TypeOK, Coordinators
<1>6. Claims'
  <2>1. GateExact'
      BY <1>1 DEF Books, Claims, GateExact
  <2>2. ASSUME NEW v \in workers', NEW w \in workers', v.at # "released", w.at # "released", v.res = w.res
        PROVE  v = w
      BY <1>1, <1>3, <2>2 DEF Books, Claims
  <2> QED
      BY <2>1, <2>2 DEF Claims
<1>7. Worked'
  <2>1. ASSUME NEW w \in workers PROVE Work(w)'
      BY <1>2, <1>4 DEF Books, Worked, Work
  <2>2. Work(n)'
      BY <1>1, <1>2 DEF Work
  <2>3. ASSUME NEW v \in workers', NEW w \in workers', NEW d \in Coordinators, v.for = d, w.for = d
        PROVE  v = w
      BY <1>1, <1>4, <2>3 DEF Books, Worked
  <2> QED
      BY <1>1, <2>1, <2>2, <2>3 DEF Worked
<1>8. Mine'
  <2> SUFFICES ASSUME NEW d \in Coordinators, NEW w \in workers', wait'[d] \in {"running", "ok", "failed"},
                      w.res = cursor'[d], w.phase = PhaseOf(d)'
               PROVE  w.for = d
      BY DEF Mine
  <2>1. CASE w = n
      BY <1>1, <1>2, <1>5, <2>1
  <2>2. CASE w \in workers /\ d # c
      BY <1>2, <2>2 DEF Books, Mine
  <2>3. CASE w \in workers /\ d = c
    <3>1. w.at = "released" /\ w.for # "nobody"
        BY <1>2, <1>3, <2>3 DEF Books, Worked, Work
    <3>2. w.for \in Coordinators
        BY <2>3, <3>1 DEF TypeOK, Workers
    <3> QED
        BY <1>2, <1>4, <1>5, <2>3, <3>2 DEF Books, Worked, Work
  <2> QED
      BY <1>1, <2>1, <2>2, <2>3
<1> QED
    BY <1>6, <1>7, <1>8 DEF Books

\* A worker's record gives way to another one of the same resource, phase and
\* coordinator.
LEMMA ReturnKeeps ==
    ASSUME TypeOK, Books, NEW w \in workers, NEW out \in {"ok", "failed"}, CallbackReturns(w, out)
    PROVE  Books'
<1>0. PICK n : n = Back(w, out)
    BY Zenon
<1>1. /\ n.res = w.res /\ n.phase = w.phase /\ n.for = w.for /\ n.at = "returned" /\ n.out = out
      /\ workers' = (workers \ {w}) \cup {n} /\ w.at = "calling"
  <2>1. w \in Workers
      BY DEF TypeOK
  <2>2. w.at = "calling" /\ workers' = (workers \ {w}) \cup {n}
      BY <1>0, Zenon DEF CallbackReturns, Back
  <2> QED
      BY <1>0, <2>1, <2>2, ReturnedFields
<1>2. /\ UNCHANGED <<pc, cursor, wait, gate>> /\ stopped \subseteq stopped'
      /\ (n.phase = "shutdown" /\ n.out = "ok" => n.res \in stopped')
      /\ \A d \in Coordinators : PhaseOf(d)' = PhaseOf(d)
    BY <1>1 DEF CallbackReturns, driverVars, PhaseOf
<1>3. Claims'
  <2>1. GateExact'
      BY <1>1, <1>2 DEF Books, Claims, GateExact
  <2>2. ASSUME NEW u \in workers', NEW v \in workers', u.at # "released", v.at # "released", u.res = v.res
        PROVE  u = v
      BY <1>1, <2>2 DEF Books, Claims
  <2> QED
      BY <2>1, <2>2 DEF Claims
<1>4. Worked'
  <2>1. ASSUME NEW v \in workers PROVE Work(v)'
      BY <1>2 DEF Books, Worked, Work
  <2>2. Work(n)'
      BY <1>1, <1>2 DEF Books, Worked, Work
  <2>3. ASSUME NEW u \in workers', NEW v \in workers', NEW d \in Coordinators, u.for = d, v.for = d
        PROVE  u = v
      BY <1>1, <2>3 DEF Books, Worked
  <2> QED
      BY <1>1, <2>1, <2>2, <2>3 DEF Worked
<1>5. Mine'
    BY <1>1, <1>2 DEF Books, Mine
<1> QED
    BY <1>3, <1>4, <1>5 DEF Books

\* drop(claim) frees exactly the resource of that worker.
LEMMA ReleaseKeeps ==
    ASSUME TypeOK, Books, NEW w \in workers, ReleaseClaim(w)
    PROVE  Books'
<1>0. PICK n : n = [w EXCEPT !.at = "released"]
    BY Zenon
<1>1. /\ n.res = w.res /\ n.phase = w.phase /\ n.for = w.for /\ n.at = "released" /\ n.out = w.out
      /\ workers' = (workers \ {w}) \cup (IF w.for = "nobody" THEN {} ELSE {n}) /\ w.at = "returned"
  <2>1. w \in Workers
      BY DEF TypeOK
  <2>2. /\ w.at = "returned"
        /\ workers' = (workers \ {w}) \cup (IF w.for = "nobody" THEN {} ELSE {n})
      BY <1>0, Zenon DEF ReleaseClaim
  <2> QED
      BY <1>0, <2>1, <2>2, ReleasedFields, Zenon
<1>2. /\ UNCHANGED <<pc, cursor, wait, stopped>> /\ gate' = gate \ {w.res}
      /\ \A d \in Coordinators : PhaseOf(d)' = PhaseOf(d)
    BY DEF ReleaseClaim, driverVars, PhaseOf
<1>3. \A v \in workers' : (v \in workers /\ v # w) \/ (v = n /\ w.for # "nobody")
  <2>1. CASE w.for = "nobody"
      BY <1>1, <2>1
  <2>2. CASE w.for # "nobody"
      BY <1>1, <2>2
  <2> QED
      BY <2>1, <2>2
<1>4. Claims'
  <2>1. ASSUME NEW r PROVE r \in gate' <=> \E v \in workers' : v.at # "released" /\ v.res = r
      BY <1>1, <1>2 DEF Books, Claims, GateExact
  <2>2. GateExact'
      BY <2>1 DEF GateExact
  <2>3. ASSUME NEW u \in workers', NEW v \in workers', u.at # "released", v.at # "released", u.res = v.res
        PROVE  u = v
      BY <1>1, <1>3, <2>3 DEF Books, Claims
  <2> QED
      BY <2>2, <2>3 DEF Claims
<1>5. Worked'
  <2>1. ASSUME NEW v \in workers PROVE Work(v)'
      BY <1>2 DEF Books, Worked, Work
  <2>2. w.for # "nobody" => Work(n)'
      BY <1>1, <1>2 DEF Books, Worked, Work
  <2>3. ASSUME NEW u \in workers', NEW v \in workers', NEW d \in Coordinators, u.for = d, v.for = d
        PROVE  u = v
      BY <1>1, <1>3, <2>3 DEF Books, Worked
  <2> QED
      BY <1>3, <2>1, <2>2, <2>3 DEF Worked
<1>6. Mine'
    BY <1>1, <1>2, <1>3 DEF Books, Mine
<1> QED
    BY <1>4, <1>5, <1>6 DEF Books

\* deliver() comes after the release: the answer leaves no worker behind.
LEMMA DeliverKeeps ==
    ASSUME TypeOK, Books, NEW w \in workers, Deliver(w)
    PROVE  Books'
<1>1. /\ UNCHANGED <<pc, cursor, stopped, gate>> /\ w.at = "released" /\ workers' = workers \ {w}
      /\ \A d \in Coordinators : PhaseOf(d)' = PhaseOf(d)
      /\ \A d \in Coordinators : wait'[d] = IF w.for = d THEN w.out ELSE wait[d]
    BY DEF Deliver, driverVars, PhaseOf
<1>2. \A v \in workers' : v \in workers /\ v # w
    BY <1>1
<1>3. Claims'
  <2>1. GateExact'
      BY <1>1 DEF Books, Claims, GateExact
  <2> QED
      BY <1>2, <2>1 DEF Books, Claims
<1>4. Worked'
  <2>1. ASSUME NEW v \in workers' PROVE Work(v)'
      BY <1>1, <1>2 DEF Books, Worked, Work
  <2> QED
      BY <1>2, <2>1 DEF Books, Worked
<1>5. Mine'
    BY <1>1, <1>2 DEF Books, Mine, Worked, Work
<1> QED
    BY <1>3, <1>4, <1>5 DEF Books

\* A coordinator lets go of its worker.
Leaves(c) ==
    /\ workers' = Abandon(c)
    /\ wait'[c] \in {"deadline", "no"}
    /\ \A d \in Coordinators : d # c => wait'[d] = wait[d]
    /\ UNCHANGED <<pc, cursor, stopped, gate>>

\* A wait given up (the limit, a signal, the forced stop) leaves the claim with
\* the worker that holds it.
LEMMA LeavesKeeps ==
    ASSUME TypeOK, Books, NEW c \in Coordinators, Leaves(c)
    PROVE  Books'
<1>1. ASSUME NEW v \in workers'
      PROVE  \E w \in workers :
               /\ v.res = w.res /\ v.phase = w.phase /\ v.at = w.at /\ v.out = w.out
               /\ IF w.for = c THEN v = [w EXCEPT !.for = "nobody"] /\ v.for = "nobody" /\ w.at # "released"
                               ELSE v = w
  <2>1. PICK w \in workers : /\ w.for = c => w.at # "released"
                             /\ v = IF w.for = c THEN [w EXCEPT !.for = "nobody"] ELSE w
      BY <1>1, Zenon DEF Leaves, Abandon
  <2>2. w \in Workers
      BY DEF TypeOK
  <2> QED
      BY <2>1, <2>2, LeftFields, Zenon
<1>2. ASSUME NEW w \in workers, w.for = c => w.at # "released"
      PROVE  \E v \in workers' : v.res = w.res /\ v.at = w.at
  <2>1. w \in Workers
      BY DEF TypeOK
  <2>2. (IF w.for = c THEN [w EXCEPT !.for = "nobody"] ELSE w) \in workers'
      BY <1>2, Zenon DEF Leaves, Abandon
  <2> QED
      BY <2>1, <2>2, LeftFields, Zenon
<1>3. /\ UNCHANGED <<pc, cursor, stopped, gate>> /\ wait'[c] \in {"deadline", "no"}
      /\ \A d \in Coordinators : PhaseOf(d)' = PhaseOf(d)
      /\ \A d \in Coordinators : d # c => wait'[d] = wait[d]
    BY DEF Leaves, PhaseOf
<1>4. Claims'
  <2>1. ASSUME NEW r PROVE r \in gate' <=> \E v \in workers' : v.at # "released" /\ v.res = r
      BY <1>1, <1>2, <1>3 DEF Books, Claims, GateExact
  <2>2. GateExact'
      BY <2>1 DEF GateExact
  <2>3. ASSUME NEW u \in workers', NEW v \in workers', u.at # "released", v.at # "released", u.res = v.res
        PROVE  u = v
      BY <1>1, <2>3 DEF Books, Claims
  <2> QED
      BY <2>2, <2>3 DEF Claims
<1>5. Worked'
  <2>1. ASSUME NEW v \in workers' PROVE Work(v)'
    <3>1. PICK w \in workers :
               /\ v.res = w.res /\ v.phase = w.phase /\ v.at = w.at /\ v.out = w.out
               /\ IF w.for = c THEN v.for = "nobody" /\ w.at # "released" ELSE v = w
        BY <1>1, <2>1
    <3>2. "nobody" \notin Coordinators
        BY DEF Coordinators
    <3> QED
        BY <1>3, <3>1, <3>2 DEF Books, Worked, Work
  <2>2. ASSUME NEW u \in workers', NEW v \in workers', NEW d \in Coordinators, u.for = d, v.for = d
        PROVE  u = v
    <3>1. "nobody" \notin Coordinators
        BY DEF Coordinators
    <3>2. u \in workers /\ v \in workers
        BY <1>1, <2>2, <3>1
    <3> QED
        BY <2>2, <3>2 DEF Books, Worked
  <2> QED
      BY <2>1, <2>2 DEF Worked
<1>6. Mine'
    BY <1>1, <1>3 DEF Books, Mine
<1> QED
    BY <1>4, <1>5, <1>6 DEF Books

-----------------------------------------------------------------------------
(* Every step is one of those shapes.                                      *)

\* What a coordinator that waits for nobody may do.
LEMMA AsideOrClaim ==
    ASSUME TypeOK, Books, NEW c \in Coordinators, wait[c] = "no",
           UNCHANGED <<pc, cursor, stopped>>,
           Claim(c, cursor[c], PhaseOf(c)) \/ LoseWorker(c, cursor[c]) \/ Blocked(c, cursor[c])
    PROVE  Books'
<1>1. CASE Claim(c, cursor[c], PhaseOf(c))
    BY <1>1, EntersKeeps DEF Enters
<1>2. CASE LoseWorker(c, cursor[c]) \/ Blocked(c, cursor[c])
    BY <1>2, AsideKeeps DEF Aside, LoseWorker, Blocked, TypeOK, PhaseOf
<1> QED
    BY <1>1, <1>2

\* The driver changes its place only while it waits for nobody.
LEMMA DriverMoves ==
    ASSUME TypeOK, Books, wait["driver"] = "no", UNCHANGED <<gate, workers, stopped, wait>>,
           cursor'["health"] = cursor["health"]
    PROVE  Books'
<1>1. ASSUME NEW c \in Coordinators
      PROVE  \/ wait'[c] = wait[c] /\ cursor'[c] = cursor[c] /\ PhaseOf(c)' = PhaseOf(c)
             \/ wait[c] # "running" /\ wait'[c] \notin {"running", "ok", "failed"}
    BY DEF Coordinators, PhaseOf
<1> QED
    BY <1>1, AsideKeeps DEF Aside

\* The health coordinator moves only while it waits for nobody, or gives up
\* what it has been answered.
LEMMA HealthMoves ==
    ASSUME TypeOK, Books, wait["health"] # "running", UNCHANGED <<gate, workers, stopped, pc>>,
           wait'["health"] = "no" \/ (wait'["health"] = wait["health"] /\ cursor' = cursor),
           wait'["driver"] = wait["driver"], cursor'["driver"] = cursor["driver"]
    PROVE  Books'
<1>1. ASSUME NEW c \in Coordinators
      PROVE  \/ wait'[c] = wait[c] /\ cursor'[c] = cursor[c] /\ PhaseOf(c)' = PhaseOf(c)
             \/ wait[c] # "running" /\ wait'[c] \notin {"running", "ok", "failed"}
    BY DEF Coordinators, PhaseOf
<1> QED
    BY <1>1, AsideKeeps DEF Aside

\* Every step of the runtime keeps claims, callbacks and waits in agreement.
LEMMA StepKeepsBooks == TypeOK /\ Books /\ Waits /\ [Next]_vars => Books'
<1> SUFFICES ASSUME TypeOK, Books, Waits, [Next]_vars PROVE Books'
    OBVIOUS
<1>1. CASE Visit
  <2>1. "driver" \in Coordinators /\ PhaseOf("driver") = pc
      BY DEF Coordinators, PhaseOf
  <2> QED
      BY <1>1, <2>1, AsideOrClaim DEF Visit, driverVars
<1>2. CASE Record
    BY <1>2, AsideKeeps DEF Record, Aside, PhaseOf, TypeOK, Coordinators, Outcomes
<1>3. CASE StartupEnds
    BY <1>3, NAssumption, DriverMoves DEF StartupEnds, startupFrame, Waits, TypeOK, Coordinators, Res
<1>4. CASE CloseScope
    BY <1>4, DriverMoves DEF CloseScope, Waits, TypeOK, Coordinators, Res
<1>5. CASE DrainEnds
    BY <1>5, DriverMoves DEF DrainEnds, drainFrame, Waits, TypeOK, Coordinators, Res
<1>6. CASE ShutdownEnds
    BY <1>6, DriverMoves DEF ShutdownEnds, drainFrame, Waits, TypeOK, Coordinators, Res
<1>7. CASE Finish
    BY <1>7, DriverMoves DEF Finish, finishFrame, Waits, TypeOK, Coordinators, Res
<1>8. CASE Tick
    BY <1>8, HealthMoves DEF Tick, driverVars, Waits, TypeOK, Coordinators, Outcomes
<1>9. CASE VisitHealth
  <2>1. "health" \in Coordinators /\ PhaseOf("health") = "periodic" /\ wait["health"] = "no"
      BY <1>9 DEF Coordinators, PhaseOf, VisitHealth, Waits
  <2>2. CASE Claim("health", cursor["health"], "periodic") /\ UNCHANGED cursor
      BY <1>9, <2>1, <2>2, AsideOrClaim DEF VisitHealth, driverVars
  <2>3. CASE UNCHANGED <<gate, workers, wait>> /\ cursor'["driver"] = cursor["driver"]
      BY <1>9, <2>1, <2>3, HealthMoves DEF VisitHealth, driverVars
  <2> QED
      BY <1>9, <2>2, <2>3 DEF VisitHealth, PublishNext, TypeOK, Coordinators
<1>10. CASE PassEnds
    BY <1>10, HealthMoves DEF PassEnds, driverVars, Waits, TypeOK, Coordinators, Outcomes
<1>11. CASE ResumeHealth
    BY <1>11, AsideKeeps DEF ResumeHealth, driverVars, Aside, PhaseOf
<1>12. CASE PublishHealth
    BY <1>12, HealthMoves DEF PublishHealth, driverVars, PublishNext, Waits, TypeOK, Coordinators, Outcomes
<1>13. CASE StopHealth
    BY <1>13, LeavesKeeps DEF StopHealth, Leaves, driverVars, TypeOK, Coordinators
<1>14. CASE Dns01Refuses
    BY <1>14, DriverMoves DEF Dns01Refuses, startupFrame, Waits, TypeOK, Coordinators, Res
<1>15. CASE ClosureEnds
    BY <1>15, DriverMoves DEF ClosureEnds, startupFrame, Waits, TypeOK, Coordinators, Res
<1>16. CASE RequestShutdown
    BY <1>16, AsideKeeps DEF RequestShutdown, driverVars, Aside, PhaseOf
<1>17. ASSUME NEW c \in Coordinators, Expire(c) PROVE Books'
    BY <1>17, LeavesKeeps DEF Expire, Leaves, driverVars, TypeOK
<1>18. ASSUME NEW w \in workers, NEW out \in {"ok", "failed"}, CallbackReturns(w, out) PROVE Books'
    BY <1>18, ReturnKeeps
<1>19. ASSUME NEW w \in workers, ReleaseClaim(w) PROVE Books'
    BY <1>19, ReleaseKeeps
<1>20. ASSUME NEW w \in workers, Deliver(w) PROVE Books'
    BY <1>20, DeliverKeeps
<1>21. CASE UNCHANGED vars
    BY <1>21, AsideKeeps DEF vars, Aside, PhaseOf
<1> QED
    BY <1>1, <1>2, <1>3, <1>4, <1>5, <1>6, <1>7, <1>8, <1>9, <1>10, <1>11, <1>12, <1>13, <1>14, <1>15, <1>16, <1>17, <1>18, <1>19, <1>20, <1>21, Zenon DEF Next, DriverStep, HealthStep, WorkerStep, Coordinators

-----------------------------------------------------------------------------
(* The types.                                                              *)

\* An abandoned worker is still a worker.
LEMMA LeftWorkers ==
    ASSUME TypeOK, NEW c \in Coordinators
    PROVE  Abandon(c) \subseteq Workers
<1> SUFFICES ASSUME NEW v \in Abandon(c) PROVE v \in Workers
    OBVIOUS
<1>1. PICK w \in workers : v = IF w.for = c THEN [w EXCEPT !.for = "nobody"] ELSE w
    BY Zenon DEF Abandon
<1>2. w \in Workers
    BY DEF TypeOK
<1> QED
    BY <1>1, <1>2, LeftFields, Zenon

\* Every step keeps the types; an answer delivered is one the callback gave.
LEMMA StepKeepsType == TypeOK /\ Books /\ Waits /\ [Next]_vars => TypeOK'
<1> SUFFICES ASSUME TypeOK, Books, Waits, [Next]_vars PROVE TypeOK'
    OBVIOUS
<1>1. CASE Visit
  <2>1. workers' \subseteq Workers
      BY <1>1 DEF Visit, Claim, LoseWorker, Blocked, TypeOK, Workers, Phases, Coordinators
  <2> QED
      BY <1>1, <2>1 DEF Visit, Claim, LoseWorker, Blocked, driverVars, TypeOK, Outcomes
<1>2. CASE Record
  <2>1. cursor["driver"] \in Res /\ cursor["driver"] \in Nat
      BY <1>2, NAssumption DEF Record, Waits, Outcomes, Res
  <2>2. cursor' \in [Coordinators -> 0 .. N + 1]
      BY <1>2, <2>1, NAssumption DEF Record, TypeOK, Coordinators, Res
  <2>3. wait' \in [Coordinators -> Outcomes \cup {"no", "running"}]
      BY <1>2, Zenon DEF Record, TypeOK
  <2>4. published' \in [Res -> Outcomes] /\ startLog' \subseteq Res /\ log' \subseteq Res \cup {RootScope}
      BY <1>2, <2>1 DEF Record, TypeOK
  <2> QED
      BY <1>2, <2>2, <2>3, <2>4 DEF Record, TypeOK
<1>3. CASE StartupEnds
  <2>1. served' \in BOOLEAN
      BY <1>3, Zenon DEF StartupEnds, TypeOK
  <2> QED
      BY <1>3, <2>1 DEF StartupEnds, startupFrame, TypeOK
<1>4. CASE CloseScope
  <2>1. signals' \in BOOLEAN
      BY <1>4, Zenon DEF CloseScope
  <2> QED
      BY <1>4, <2>1 DEF CloseScope, TypeOK
<1>5. CASE DrainEnds
  <2>1. forced' \in BOOLEAN
      BY <1>5, Zenon DEF DrainEnds
  <2>2. log' \subseteq {RootScope}
      BY <1>5 DEF DrainEnds
  <2> QED
      BY <1>5, <2>1, <2>2, NAssumption DEF DrainEnds, drainFrame, TypeOK, Coordinators
<1>6. CASE ShutdownEnds
    BY <1>6 DEF ShutdownEnds, drainFrame, TypeOK
<1>7. CASE Finish
    BY <1>7 DEF Finish, finishFrame, TypeOK
<1>8. CASE Tick
    BY <1>8, NAssumption DEF Tick, driverVars, TypeOK, Coordinators
<1>9. CASE VisitHealth
  <2>1. workers' \subseteq Workers
      BY <1>9 DEF VisitHealth, Claim, TypeOK, Workers, Phases, Coordinators
  <2>2. cursor' \in [Coordinators -> 0 .. N + 1]
      BY <1>9, NAssumption DEF VisitHealth, PublishNext, TypeOK, Coordinators, Res
  <2>3. wait' \in [Coordinators -> Outcomes \cup {"no", "running"}] /\ gate' \subseteq Res
      BY <1>9 DEF VisitHealth, Claim, TypeOK
  <2>4. published' \in [Res -> Outcomes]
      BY <1>9 DEF VisitHealth, PublishNext, TypeOK, Outcomes
  <2> QED
      BY <1>9, <2>1, <2>2, <2>3, <2>4 DEF VisitHealth, driverVars, TypeOK
<1>10. CASE PassEnds
    BY <1>10 DEF PassEnds, driverVars, TypeOK
<1>11. CASE ResumeHealth
    BY <1>11 DEF ResumeHealth, driverVars, TypeOK
<1>12. CASE PublishHealth
    BY <1>12, NAssumption DEF PublishHealth, PublishNext, driverVars, TypeOK, Waits, Outcomes, Coordinators, Res
<1>13. CASE StopHealth
  <2>1. workers' \subseteq Workers
      BY <1>13, LeftWorkers DEF StopHealth, Coordinators
  <2>2. wait' \in [Coordinators -> Outcomes \cup {"no", "running"}]
      BY <1>13, Zenon DEF StopHealth, TypeOK
  <2>3. UNCHANGED <<driverVars, signals, gate, cursor, published, stopped>> /\ health' = "done"
      BY <1>13 DEF StopHealth
  <2> QED
      BY <2>1, <2>2, <2>3 DEF driverVars, TypeOK
<1>14. CASE Dns01Refuses
    BY <1>14 DEF Dns01Refuses, startupFrame, TypeOK
<1>15. CASE ClosureEnds
    BY <1>15 DEF ClosureEnds, startupFrame, TypeOK
<1>16. CASE RequestShutdown
  <2>1. signals' \in BOOLEAN
      BY <1>16, Zenon DEF RequestShutdown
  <2> QED
      BY <1>16, <2>1 DEF RequestShutdown, driverVars, TypeOK
<1>17. ASSUME NEW c \in Coordinators, Expire(c) PROVE TypeOK'
  <2>1. workers' \subseteq Workers
      BY <1>17, LeftWorkers DEF Expire
  <2> QED
      BY <1>17, <2>1 DEF Expire, driverVars, TypeOK, Outcomes
<1>18. ASSUME NEW w \in workers, NEW out \in {"ok", "failed"}, CallbackReturns(w, out) PROVE TypeOK'
  <2>1. w \in Workers
      BY DEF TypeOK
  <2>2. workers' = (workers \ {w}) \cup {Back(w, out)}
      BY <1>18, Zenon DEF CallbackReturns, Back
  <2>3. workers' \subseteq Workers
      BY <2>1, <2>2, ReturnedFields DEF TypeOK
  <2>4. stopped' \subseteq Res
      BY <1>18, <2>1 DEF CallbackReturns, TypeOK, Workers
  <2> QED
      BY <1>18, <2>3, <2>4 DEF CallbackReturns, driverVars, TypeOK
<1>19. ASSUME NEW w \in workers, ReleaseClaim(w) PROVE TypeOK'
  <2>1. w \in Workers
      BY DEF TypeOK
  <2>2. workers' \subseteq Workers
      BY <1>19, <2>1, ReleasedFields DEF ReleaseClaim, TypeOK
  <2> QED
      BY <1>19, <2>2 DEF ReleaseClaim, driverVars, TypeOK
<1>20. ASSUME NEW w \in workers, Deliver(w) PROVE TypeOK'
  <2>1. w \in Workers /\ w.out \in {"ok", "failed"}
      BY <1>20 DEF TypeOK, Books, Worked, Work, Deliver
  <2> QED
      BY <1>20, <2>1 DEF Deliver, driverVars, TypeOK, Outcomes
<1>21. CASE UNCHANGED vars
    BY <1>21 DEF vars, TypeOK
<1> QED
    BY <1>1, <1>2, <1>3, <1>4, <1>5, <1>6, <1>7, <1>8, <1>9, <1>10, <1>11, <1>12, <1>13, <1>14, <1>15, <1>16, <1>17, <1>18, <1>19, <1>20, <1>21, Zenon DEF Next, DriverStep, HealthStep, WorkerStep, Coordinators

-----------------------------------------------------------------------------
(* Where the coordinators wait, what teardown has accounted for and what   *)
(* run() answers.                                                          *)

\* The driver waits only in its two passes, at a resource of its own; the
\* health coordinator only inside run_callback.
LEMMA StepKeepsWaits == TypeOK /\ Books /\ Waits /\ [Next]_vars => Waits'
<1> SUFFICES ASSUME TypeOK, Books, Waits, [Next]_vars PROVE Waits'
    OBVIOUS
<1>1. CASE Visit
    BY <1>1, NAssumption DEF Visit, driverVars, Claim, LoseWorker, Blocked, Waits, TypeOK, Outcomes, Coordinators, Res
<1>2. CASE Record
    BY <1>2, NAssumption DEF Record, Waits, TypeOK, Outcomes, Coordinators, Res
<1>3. CASE StartupEnds
  <2>1. wait["driver"] = "no" /\ wait["health"] = "no" /\ health = "absent"
      BY <1>3, NAssumption DEF StartupEnds, Waits, Res
  <2>2. wait' = wait /\ pc' # "startup" /\ health' \in {"absent", "sleeping"}
      BY <1>3, <2>1 DEF StartupEnds, startupFrame
  <2> QED
      BY <2>1, <2>2 DEF Waits
<1>4. CASE CloseScope
    BY <1>4, NAssumption DEF CloseScope, Waits, TypeOK, Outcomes, Coordinators, Res
<1>5. CASE DrainEnds
    BY <1>5, NAssumption DEF DrainEnds, drainFrame, Waits, TypeOK, Outcomes, Coordinators, Res
<1>6. CASE ShutdownEnds
    BY <1>6, NAssumption DEF ShutdownEnds, drainFrame, Waits, TypeOK, Outcomes, Coordinators, Res
<1>7. CASE Finish
    BY <1>7, NAssumption DEF Finish, finishFrame, Waits, TypeOK, Outcomes, Coordinators, Res
<1>8. CASE Tick
    BY <1>8, NAssumption DEF Tick, driverVars, Waits, TypeOK, Outcomes, Coordinators, Res
<1>9. CASE VisitHealth
    BY <1>9, NAssumption DEF VisitHealth, driverVars, PublishNext, Claim, Waits, TypeOK, Outcomes, Coordinators, Res
<1>10. CASE PassEnds
    BY <1>10, NAssumption DEF PassEnds, driverVars, Waits, TypeOK, Outcomes, Coordinators, Res
<1>11. CASE ResumeHealth
    BY <1>11, NAssumption DEF ResumeHealth, driverVars, Waits, TypeOK, Outcomes, Coordinators, Res
<1>12. CASE PublishHealth
    BY <1>12, NAssumption DEF PublishHealth, driverVars, PublishNext, Waits, TypeOK, Outcomes, Coordinators, Res
<1>13. CASE StopHealth
    BY <1>13, NAssumption DEF StopHealth, driverVars, Abandon, Waits, TypeOK, Outcomes, Coordinators, Res
<1>14. CASE Dns01Refuses
    BY <1>14, NAssumption DEF Dns01Refuses, startupFrame, Waits, TypeOK, Outcomes, Coordinators, Res
<1>15. CASE ClosureEnds
    BY <1>15, NAssumption DEF ClosureEnds, startupFrame, Waits, TypeOK, Outcomes, Coordinators, Res
<1>16. CASE RequestShutdown
    BY <1>16, NAssumption DEF RequestShutdown, driverVars, Waits, TypeOK, Outcomes, Coordinators, Res
<1>17. ASSUME NEW c \in Coordinators, Expire(c) PROVE Waits'
    BY <1>17, NAssumption DEF Expire, driverVars, Waits, TypeOK, Outcomes, Coordinators, Res
<1>18. ASSUME NEW w \in workers, NEW out \in {"ok", "failed"}, CallbackReturns(w, out) PROVE Waits'
    BY <1>18, NAssumption DEF CallbackReturns, driverVars, Waits, TypeOK, Outcomes, Coordinators, Res
<1>19. ASSUME NEW w \in workers, ReleaseClaim(w) PROVE Waits'
    BY <1>19, NAssumption DEF ReleaseClaim, driverVars, Waits, TypeOK, Outcomes, Coordinators, Res
<1>20. ASSUME NEW w \in workers, Deliver(w) PROVE Waits'
  <2>1. \A c \in Coordinators : wait'[c] # "no" => wait[c] # "no"
      BY <1>20 DEF Deliver, Books, Worked, Work
  <2>2. wait["health"] \in Outcomes => wait'["health"] \in Outcomes
      BY <1>20 DEF Deliver, Books, Worked, Work, Coordinators, Outcomes
  <2> QED
      BY <1>20, <2>1, <2>2 DEF Deliver, driverVars, Waits, Coordinators
<1>21. CASE UNCHANGED vars
    BY <1>21, NAssumption DEF vars, Waits, TypeOK, Outcomes, Coordinators, Res
<1> QED
    BY <1>1, <1>2, <1>3, <1>4, <1>5, <1>6, <1>7, <1>8, <1>9, <1>10, <1>11, <1>12, <1>13, <1>14, <1>15, <1>16, <1>17, <1>18, <1>19, <1>20, <1>21, Zenon DEF Next, DriverStep, HealthStep, WorkerStep, Coordinators

\* The shutdown pass leaves no resource behind it that neither stopped nor is
\* in the log (record), and the drain names what it forced.
LEMMA StepKeepsAccounts == TypeOK /\ Books /\ Waits /\ Accounted /\ [Next]_vars => Accounted'
<1> SUFFICES ASSUME TypeOK, Books, Waits, Accounted, [Next]_vars PROVE Accounted'
    OBVIOUS
<1>1. CASE Visit
    BY <1>1, NAssumption DEF Visit, driverVars, Claim, LoseWorker, Blocked, Accounted, Down, Waits, TypeOK, Outcomes, Coordinators, Res
<1>2. CASE Record
    BY <1>2, NAssumption DEF Record, Accounted, Down, Waits, TypeOK, Outcomes, Coordinators, Res
<1>3. CASE StartupEnds
    BY <1>3, NAssumption DEF StartupEnds, startupFrame, Accounted, Down, Waits, TypeOK, Outcomes, Coordinators, Res
<1>4. CASE CloseScope
    BY <1>4, NAssumption DEF CloseScope, Accounted, Down, Waits, TypeOK, Outcomes, Coordinators, Res
<1>5. CASE DrainEnds
  <2>1. wait'["driver"] = "no" /\ pc' = "shutdown" /\ cursor'["driver"] = N
      BY <1>5 DEF DrainEnds, drainFrame, Waits, TypeOK, Coordinators
  <2>2. IF forced' THEN log' # {} ELSE health' \in {"absent", "done"}
      BY <1>5, Zenon DEF DrainEnds, drainFrame
  <2> QED
      BY <2>1, <2>2, NAssumption DEF Accounted, Res
<1>6. CASE ShutdownEnds
    BY <1>6, NAssumption DEF ShutdownEnds, drainFrame, Accounted, Down, Waits, TypeOK, Outcomes, Coordinators, Res
<1>7. CASE Finish
    BY <1>7, NAssumption DEF Finish, finishFrame, Accounted, Down, Waits, TypeOK, Outcomes, Coordinators, Res
<1>8. CASE Tick
    BY <1>8, NAssumption DEF Tick, driverVars, Accounted, Down, Waits, TypeOK, Outcomes, Coordinators, Res
<1>9. CASE VisitHealth
    BY <1>9, NAssumption DEF VisitHealth, driverVars, PublishNext, Claim, Accounted, Down, Waits, TypeOK, Outcomes, Coordinators, Res
<1>10. CASE PassEnds
    BY <1>10, NAssumption DEF PassEnds, driverVars, Accounted, Down, Waits, TypeOK, Outcomes, Coordinators, Res
<1>11. CASE ResumeHealth
    BY <1>11, NAssumption DEF ResumeHealth, driverVars, Accounted, Down, Waits, TypeOK, Outcomes, Coordinators, Res
<1>12. CASE PublishHealth
    BY <1>12, NAssumption DEF PublishHealth, driverVars, PublishNext, Accounted, Down, Waits, TypeOK, Outcomes, Coordinators, Res
<1>13. CASE StopHealth
    BY <1>13, NAssumption DEF StopHealth, driverVars, Abandon, Accounted, Down, Waits, TypeOK, Outcomes, Coordinators, Res
<1>14. CASE Dns01Refuses
    BY <1>14, NAssumption DEF Dns01Refuses, startupFrame, Accounted, Down, Waits, TypeOK, Outcomes, Coordinators, Res
<1>15. CASE ClosureEnds
    BY <1>15, NAssumption DEF ClosureEnds, startupFrame, Accounted, Down, Waits, TypeOK, Outcomes, Coordinators, Res
<1>16. CASE RequestShutdown
    BY <1>16, NAssumption DEF RequestShutdown, driverVars, Accounted, Down, Waits, TypeOK, Outcomes, Coordinators, Res
<1>17. ASSUME NEW c \in Coordinators, Expire(c) PROVE Accounted'
    BY <1>17, NAssumption DEF Expire, driverVars, Accounted, Down, Waits, TypeOK, Outcomes, Coordinators, Res
<1>18. ASSUME NEW w \in workers, NEW out \in {"ok", "failed"}, CallbackReturns(w, out) PROVE Accounted'
    BY <1>18, NAssumption DEF CallbackReturns, driverVars, Accounted, Down, Waits, TypeOK, Outcomes, Coordinators, Res
<1>19. ASSUME NEW w \in workers, ReleaseClaim(w) PROVE Accounted'
    BY <1>19, NAssumption DEF ReleaseClaim, driverVars, Accounted, Down, Waits, TypeOK, Outcomes, Coordinators, Res
<1>20. ASSUME NEW w \in workers, Deliver(w) PROVE Accounted'
  <2>1. UNCHANGED <<driverVars, health, cursor, stopped>>
      BY <1>20 DEF Deliver
  <2>2. pc = "shutdown" /\ wait'["driver"] = "ok" => cursor["driver"] \in stopped
      BY <1>20 DEF Deliver, Accounted, Books, Worked, Work, PhaseOf, Coordinators
  <2> QED
      BY <2>1, <2>2 DEF Accounted, driverVars, Down
<1>21. CASE UNCHANGED vars
    BY <1>21, NAssumption DEF vars, Accounted, Down, Waits, TypeOK, Outcomes, Coordinators, Res
<1> QED
    BY <1>1, <1>2, <1>3, <1>4, <1>5, <1>6, <1>7, <1>8, <1>9, <1>10, <1>11, <1>12, <1>13, <1>14, <1>15, <1>16, <1>17, <1>18, <1>19, <1>20, <1>21, Zenon DEF Next, DriverStep, HealthStep, WorkerStep, Coordinators

\* finish_runtime answers Ok only with an empty log, for a closure that was
\* called.
LEMMA StepKeepsResult == TypeOK /\ Resulted /\ Waits /\ [Next]_vars => Resulted'
<1> SUFFICES ASSUME TypeOK, Waits, Resulted, [Next]_vars PROVE Resulted'
    OBVIOUS
<1>1. CASE Visit
    BY <1>1 DEF Visit, driverVars, Claim, LoseWorker, Blocked, Resulted, Down, Waits, TypeOK
<1>2. CASE Record
    BY <1>2 DEF Record, Resulted, Down, Waits, TypeOK
<1>3. CASE StartupEnds
    BY <1>3 DEF StartupEnds, startupFrame, Resulted, Down, Waits, TypeOK
<1>4. CASE CloseScope
    BY <1>4 DEF CloseScope, Resulted, Down, Waits, TypeOK
<1>5. CASE DrainEnds
    BY <1>5 DEF DrainEnds, drainFrame, Resulted, Down, Waits, TypeOK
<1>6. CASE ShutdownEnds
    BY <1>6 DEF ShutdownEnds, drainFrame, Resulted, Down, Waits, TypeOK
<1>7. CASE Finish
    BY <1>7 DEF Finish, finishFrame, Resulted, Down, Waits, TypeOK
<1>8. CASE Tick
    BY <1>8 DEF Tick, driverVars, Resulted, Down, Waits, TypeOK
<1>9. CASE VisitHealth
    BY <1>9 DEF VisitHealth, driverVars, PublishNext, Claim, Resulted, Down, Waits, TypeOK
<1>10. CASE PassEnds
    BY <1>10 DEF PassEnds, driverVars, Resulted, Down, Waits, TypeOK
<1>11. CASE ResumeHealth
    BY <1>11 DEF ResumeHealth, driverVars, Resulted, Down, Waits, TypeOK
<1>12. CASE PublishHealth
    BY <1>12 DEF PublishHealth, driverVars, PublishNext, Resulted, Down, Waits, TypeOK
<1>13. CASE StopHealth
    BY <1>13 DEF StopHealth, driverVars, Abandon, Resulted, Down, Waits, TypeOK
<1>14. CASE Dns01Refuses
    BY <1>14 DEF Dns01Refuses, startupFrame, Resulted, Down, Waits, TypeOK
<1>15. CASE ClosureEnds
    BY <1>15 DEF ClosureEnds, startupFrame, Resulted, Down, Waits, TypeOK
<1>16. CASE RequestShutdown
    BY <1>16 DEF RequestShutdown, driverVars, Resulted, Down, Waits, TypeOK
<1>17. ASSUME NEW c \in Coordinators, Expire(c) PROVE Resulted'
    BY <1>17 DEF Expire, driverVars, Resulted, Down, Waits, TypeOK
<1>18. ASSUME NEW w \in workers, NEW out \in {"ok", "failed"}, CallbackReturns(w, out) PROVE Resulted'
    BY <1>18 DEF CallbackReturns, driverVars, Resulted, Down, Waits, TypeOK
<1>19. ASSUME NEW w \in workers, ReleaseClaim(w) PROVE Resulted'
    BY <1>19 DEF ReleaseClaim, driverVars, Resulted, Down, Waits, TypeOK
<1>20. ASSUME NEW w \in workers, Deliver(w) PROVE Resulted'
    BY <1>20 DEF Deliver, driverVars, Resulted, Down, Waits, TypeOK
<1>21. CASE UNCHANGED vars
    BY <1>21 DEF vars, Resulted, Down, Waits, TypeOK
<1> QED
    BY <1>1, <1>2, <1>3, <1>4, <1>5, <1>6, <1>7, <1>8, <1>9, <1>10, <1>11, <1>12, <1>13, <1>14, <1>15, <1>16, <1>17, <1>18, <1>19, <1>20, <1>21, Zenon DEF Next, DriverStep, HealthStep, WorkerStep, Coordinators

-----------------------------------------------------------------------------
(* The inductive invariant and what it gives.                              *)

\* The builder's first state has no claims, workers or waits.
LEMMA InitRuntime == Init => RuntimeInductive
<1> SUFFICES ASSUME Init PROVE RuntimeInductive
    OBVIOUS
<1>1. signals \in BOOLEAN /\ forced \in BOOLEAN /\ served \in BOOLEAN
    BY Zenon DEF Init
<1>2. TypeOK
    BY <1>1, NAssumption DEF Init, TypeOK, Coordinators, Outcomes
<1>3. Claims /\ Worked /\ Mine
    BY DEF Init, Claims, GateExact, Worked, Mine
<1>4. Waits
    BY DEF Init, Waits, Coordinators
<1>5. Accounted /\ Resulted
    BY DEF Init, Accounted, Resulted, Down
<1> QED
    BY <1>2, <1>3, <1>4, <1>5 DEF RuntimeInductive

\* The conjunction is inductive.
LEMMA StepRuntime == RuntimeInductive /\ [Next]_vars => RuntimeInductive'
    BY StepKeepsBooks, StepKeepsType, StepKeepsWaits, StepKeepsAccounts, StepKeepsResult, Zenon
       DEF RuntimeInductive, Books

\* The inductive invariant holds of every run of the runtime, for every N.
THEOREM RuntimeSafe == Spec => []RuntimeInductive
    BY InitRuntime, StepRuntime, PTL DEF Spec

\* A resource is never entered twice at once, a claim is held exactly while a
\* worker is short of releasing it, and no coordinator that was answered finds
\* its own callback in the way (CallbackGate, run_worker).
THEOREM ClaimsAreExact == Spec => []ClaimsExact
<1>1. RuntimeInductive => ClaimsExact
  <2> SUFFICES ASSUME RuntimeInductive PROVE ClaimsExact
      OBVIOUS
  <2>1. OneCallbackPerResource
      BY DEF RuntimeInductive, Claims, OneCallbackPerResource, InCallback
  <2>2. OwnCallbackGone
    <3> SUFFICES ASSUME NEW c \in Coordinators, NEW w \in workers, wait[c] \in {"ok", "failed"},
                        w.res = cursor[c], w.phase = PhaseOf(c)
                 PROVE  FALSE
        BY DEF OwnCallbackGone, PhaseOf
    <3>1. w.for = c
        BY DEF RuntimeInductive, Mine
    <3> QED
        BY <3>1 DEF RuntimeInductive, Worked, Work
  <2> QED
      BY <2>1, <2>2 DEF RuntimeInductive, Claims, ClaimsExact
<1> QED
    BY <1>1, RuntimeSafe, PTL

\* run() answers Ok only when the closure was called, every shutdown callback
\* returned Ok and nothing was forced (finish_runtime, account_for_teardown).
THEOREM OkIsStopped == Spec => []OkMeansStopped
<1>1. RuntimeInductive => OkMeansStopped
    BY DEF RuntimeInductive, TypeOK, Resulted, Accounted, Down, OkMeansStopped
<1> QED
    BY <1>1, RuntimeSafe, PTL

\* When the shutdown pass is over each resource has stopped or is named in the
\* log, however late its callbacks return (shutdown_resources, record).
THEOREM TeardownIsAccounted == Spec => []TeardownAccounts
<1>1. RuntimeInductive => TeardownAccounts
    BY DEF RuntimeInductive, Accounted, TeardownAccounts
<1> QED
    BY <1>1, RuntimeSafe, PTL

\* After a drain that was not forced no probe begins and no probe's answer
\* overwrites a health the shutdown pass has published (health_loop, publish).
THEOREM TeardownIsUndisturbed == Spec => TeardownUndisturbed
<1> DEFINE Calm == /\ \A w \in InCallback' : w.phase = "periodic" => w \in workers
                   /\ \A r \in Res : r > cursor["driver"] => published'[r] = published[r]
<1>a. ASSUME TypeOK, Books, Waits, pc \in Down, health \in {"absent", "done"}, [Next]_vars
      PROVE  Calm
  <2>1. CASE Visit
    <3>1. published' = published /\ pc # "periodic"
        BY <1>a, <2>1 DEF Visit, Down
    <3>2. \A w \in workers' : w \in workers \/ w.phase = pc
        BY <1>a, <2>1 DEF Visit, Claim, LoseWorker, Blocked
    <3> QED
        BY <1>a, <3>1, <3>2 DEF InCallback
  <2>2. CASE Record
    <3>1. workers' = workers /\ \A r \in Res : r # cursor["driver"] => published'[r] = published[r]
        BY <1>a, <2>2 DEF Record, TypeOK
    <3>2. cursor["driver"] \in Nat
        BY <1>a, NAssumption DEF TypeOK, Coordinators
    <3> QED
        BY <1>a, <3>1, <3>2 DEF InCallback, Res
  <2>3. CASE StartupEnds
      BY <1>a, <2>3 DEF StartupEnds, Down
  <2>4. CASE CloseScope
      BY <1>a, <2>4 DEF CloseScope, Down
  <2>5. CASE DrainEnds
      BY <1>a, <2>5 DEF DrainEnds, Down
  <2>6. CASE ShutdownEnds
      BY <1>a, <2>6 DEF ShutdownEnds, drainFrame, InCallback
  <2>7. CASE Finish
      BY <1>a, <2>7 DEF Finish, finishFrame, InCallback
  <2>8. CASE Tick
      BY <1>a, <2>8 DEF Tick
  <2>9. CASE VisitHealth
      BY <1>a, <2>9 DEF VisitHealth
  <2>10. CASE PassEnds
      BY <1>a, <2>10 DEF PassEnds
  <2>11. CASE ResumeHealth
      BY <1>a, <2>11 DEF ResumeHealth
  <2>12. CASE PublishHealth
      BY <1>a, <2>12 DEF PublishHealth
  <2>13. CASE StopHealth
    <3>1. health \notin {"sleeping", "waiting", "polling", "resumed"}
        BY <1>a
    <3> QED
        BY <1>a, <2>13, <3>1 DEF StopHealth
  <2>14. CASE Dns01Refuses
      BY <1>a, <2>14 DEF Dns01Refuses, Down
  <2>15. CASE ClosureEnds
      BY <1>a, <2>15 DEF ClosureEnds, Down
  <2>16. CASE RequestShutdown
      BY <1>a, <2>16 DEF RequestShutdown, driverVars, InCallback
  <2>17. ASSUME NEW c \in Coordinators, Expire(c) PROVE Calm
    <3>1. c = "driver" /\ PhaseOf(c) # "periodic"
        BY <1>a, <2>17 DEF Expire, Waits, Coordinators, PhaseOf, Down
    <3>2. ASSUME NEW v \in workers', v.phase = "periodic" PROVE v \in workers
      <4>1. PICK w \in workers : v = IF w.for = c THEN [w EXCEPT !.for = "nobody"] ELSE w
          BY <1>a, <2>17, <3>2, Zenon DEF Expire, Abandon
      <4>2. w \in Workers
          BY <1>a, <1>a DEF TypeOK
      <4>3. v.phase = w.phase
          BY <1>a, <4>1, <4>2, LeftFields, Zenon
      <4>4. w.for # c
          BY <1>a, <3>1, <3>2, <4>3 DEF Books, Worked, Work
      <4> QED
          BY <1>a, <4>1, <4>4
    <3> QED
        BY <1>a, <2>17, <3>2 DEF Expire, InCallback
  <2>18. ASSUME NEW w \in workers, NEW out \in {"ok", "failed"}, CallbackReturns(w, out) PROVE Calm
    <3>1. workers' = (workers \ {w}) \cup {Back(w, out)} /\ published' = published
        BY <1>a, <2>18, Zenon DEF CallbackReturns, Back
    <3>2. Back(w, out).at = "returned"
        BY <1>a, ReturnedFields DEF TypeOK
    <3> QED
        BY <1>a, <3>1, <3>2 DEF InCallback
  <2>19. ASSUME NEW w \in workers, ReleaseClaim(w) PROVE Calm
    <3>1. published' = published /\ \A v \in workers' : v \in workers \/ v = [w EXCEPT !.at = "released"]
        BY <1>a, <2>19 DEF ReleaseClaim
    <3>2. [w EXCEPT !.at = "released"].at = "released"
        BY <1>a, ReleasedFields DEF TypeOK
    <3> QED
        BY <3>1, <3>2, Zenon DEF InCallback
  <2>20. ASSUME NEW w \in workers, Deliver(w) PROVE Calm
      BY <1>a, <2>20 DEF Deliver, InCallback
  <2>21. CASE UNCHANGED vars
      BY <1>a, <2>21 DEF vars, InCallback
  <2> HIDE DEF Calm
  <2> QED
      BY <1>a, <2>1, <2>2, <2>3, <2>4, <2>5, <2>6, <2>7, <2>8, <2>9, <2>10, <2>11, <2>12, <2>13, <2>14, <2>15, <2>16, <2>17, <2>18, <2>19, <2>20, <2>21, Zenon DEF Next, DriverStep, HealthStep, WorkerStep, Coordinators
<1>b. RuntimeInductive /\ [Next]_vars =>
        [(pc \in Down /\ ~forced) => Calm]_vars
    BY <1>a DEF RuntimeInductive, Accounted, Books
<1> QED
    BY <1>b, RuntimeSafe, PTL DEF Spec, TeardownUndisturbed, Down

=============================================================================
