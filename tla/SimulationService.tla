------------------------- MODULE SimulationService -------------------------
(****************************************************************************)
(* The HTTP service (crates/server/src/lib.rs, main.rs): how a request is  *)
(* admitted, checked, given a worker slot, simulated and answered, while   *)
(* its client may leave and its time may run out.                          *)
(*                                                                         *)
(* Two semaphores bound the work.  Each route has one of the tower         *)
(* ConcurrencyLimit layer, held from admission until the response future   *)
(* ends.  All routes share worker_slots, held by the blocking closure      *)
(* itself, which nothing can cancel.  The Timeout layer's clock starts     *)
(* when the layers below it are ready, that is, at admission.              *)
(****************************************************************************)
EXTENDS Naturals, FiniteSets

CONSTANTS
  Requests,     \* what clients may send over the life of the service
  Profiles,     \* what a request may be: a bound on the kinds TLC tries
  Ends,         \* how a simulation may end: a bound on the outcomes TLC tries
  Workers,      \* config.workers
  Timeout,      \* config.request_timeout in ticks of the clock
  LongestWait   \* bound: how far the waiting time is counted

Routes == {"validate", "run", "arrivals", "field"}
RunKinds == {"arrivals", "pressure", "rays"}
Defects == {"token", "media", "size", "malformed", "semantic"}

(* A request: where it goes, the run kind its case asks for, and what is   *)
(* wrong with it.                                                          *)
Request == [route : Routes, kind : RunKinds, defects : SUBSET Defects]

(* What the blocking closure returns.                                      *)
Outcomes == {"result", "rejected", "limit", "unserializable", "panic"}

ASSUME ServiceAssumption ==
  /\ Workers \in Nat \ {0} /\ Timeout \in Nat \ {0} /\ LongestWait \in Nat
  /\ IsFiniteSet(Requests) /\ Profiles \subseteq Request
  /\ Ends \subseteq Outcomes

Statuses == {200, 400, 401, 413, 415, 422, 429, 500, 504}
NoReply == 0

VARIABLES
  phase,        \* of the process: "serving", "draining" or "exited"
  profile,      \* what each request is
  stage,        \* where the request's future stands
  ahead,        \* the requests that joined the same queue earlier
  permits,      \* free permits of each route's ConcurrencyLimit
  slots,        \* free permits of worker_slots
  work,         \* the blocking closure of each request
  reply,        \* the status each client was sent
  elapsed,      \* time since admission
  waited        \* time since arrival

vars == <<phase, profile, stage, ahead, permits, slots, work, reply, elapsed, waited>>

(* Stages of a future that holds a permit of its route.                    *)
Admitted == {"checks", "queue", "result"}
Stages == {"unsent", "gate", "answered", "gone"} \cup Admitted
Works == {"none", "running", "discarded"} \cup Outcomes

TypeOK ==
  /\ phase \in {"serving", "draining", "exited"}
  /\ profile \in [Requests -> Request]
  /\ stage \in [Requests -> Stages]
  /\ ahead \in [Requests -> SUBSET Requests]
  /\ permits \in [Routes -> 0 .. Workers]
  /\ slots \in 0 .. Workers
  /\ work \in [Requests -> Works]
  /\ reply \in [Requests -> Statuses \cup {NoReply}]
  /\ elapsed \in [Requests -> 0 .. Timeout]
  /\ waited \in [Requests -> 0 .. LongestWait]

Init ==
  /\ phase = "serving"
  /\ profile \in [Requests -> Profiles]
  /\ stage = [r \in Requests |-> "unsent"]
  /\ ahead = [r \in Requests |-> {}]
  /\ permits = [p \in Routes |-> Workers]
  /\ slots = Workers
  /\ work = [r \in Requests |-> "none"]
  /\ reply = [r \in Requests |-> NoReply]
  /\ elapsed = [r \in Requests |-> 0]
  /\ waited = [r \in Requests |-> 0]

Route(r) == profile[r].route
InFlight(r) == stage[r] \in Admitted
Active(r) == InFlight(r) \/ stage[r] = "gate"

-----------------------------------------------------------------------------
(* Semaphores are fair: a permit goes to the request that has waited       *)
(* longest, and a request that stops waiting leaves the queue.             *)

Join(r, q, others) ==
  /\ stage' = [stage EXCEPT ![r] = q]
  /\ ahead' = [ahead EXCEPT ![r] = others]

First(r) == \A q \in ahead[r] : stage[q] # stage[r]

(* The future of an admitted request ends, with the permit it holds.       *)
End(r, s) ==
  /\ stage' = [stage EXCEPT ![r] = s]
  /\ permits' = [permits EXCEPT ![Route(r)] = @ + 1]

(* The end of a request that got a response.                               *)
Respond(r, status) ==
  /\ End(r, "answered")
  /\ reply' = [reply EXCEPT ![r] = status]

-----------------------------------------------------------------------------
(* A client's request reaches the layers of its route.                     *)
Arrive(r) ==
  /\ stage[r] = "unsent" /\ phase = "serving"
  /\ Join(r, "gate", {q \in Requests : stage[q] = "gate" /\ Route(q) = Route(r)})
  /\ UNCHANGED <<phase, profile, permits, slots, work, reply, elapsed, waited>>

(* The next to be given a permit of its route.                             *)
Admissible(r) == stage[r] = "gate" /\ First(r) /\ permits[Route(r)] > 0

(* Mutant: the authentication layer is missing.                            *)
AuthorizedAlways(p) == TRUE

(* require_auth.                                                           *)
Authorized(p) == "token" \notin p.defects

(* ConcurrencyLimit::poll_ready gets a permit, Timeout::call starts its    *)
(* clock and, before anything is awaited, require_auth sends away a        *)
(* request without the token.                                              *)
Admit(r) ==
  /\ Admissible(r)
  /\ IF Authorized(profile[r])
       THEN /\ permits' = [permits EXCEPT ![Route(r)] = @ - 1]
            /\ Join(r, "checks", {})
            /\ UNCHANGED reply
       ELSE /\ reply' = [reply EXCEPT ![r] = 401]
            /\ Join(r, "answered", {})
            /\ UNCHANGED permits
  /\ UNCHANGED <<phase, profile, slots, work, elapsed, waited>>

(* extract_json_body, parse_document and the run kinds a route takes.      *)
Refusal(p) ==
  CASE "media" \in p.defects     -> 415
    [] "size" \in p.defects      -> 413
    [] "malformed" \in p.defects -> 400
    [] "semantic" \in p.defects  -> 422
    [] p.route = "arrivals" /\ p.kind # "arrivals" -> 422
    [] p.route = "field" /\ p.kind # "pressure"    -> 422
    [] OTHER -> NoReply

(* The body has arrived: from here to the worker queue nothing is awaited. *)
Handle(r) ==
  /\ stage[r] = "checks"
  /\ IF Refusal(profile[r]) # NoReply
       THEN Respond(r, Refusal(profile[r])) /\ UNCHANGED ahead
     ELSE IF Route(r) = "validate" THEN Respond(r, 200) /\ UNCHANGED ahead
     ELSE /\ Join(r, "queue", {q \in Requests : stage[q] = "queue"})
          /\ UNCHANGED <<permits, reply>>
  /\ UNCHANGED <<phase, profile, slots, work, elapsed, waited>>

(* blocking_worker: acquire_owned, then spawn_blocking of a closure that   *)
(* owns the permit.                                                        *)
StartWork(r) ==
  /\ stage[r] = "queue" /\ First(r)
  /\ slots > 0 /\ slots' = slots - 1
  /\ work' = [work EXCEPT ![r] = "running"]
  /\ Join(r, "result", {})
  /\ UNCHANGED <<phase, profile, permits, reply, elapsed, waited>>

(* The outcome reaches the request if that still waits for it.             *)
Delivered(r, outcome) ==
  work' = [work EXCEPT ![r] = IF stage[r] = "result" THEN outcome ELSE "discarded"]

(* Mutant: a panic in the closure takes its permit with it.                *)
FinishWorkLosing(r, outcome) ==
  /\ work[r] = "running"
  /\ Delivered(r, outcome)
  /\ slots' = IF outcome = "panic" THEN slots ELSE slots + 1
  /\ UNCHANGED <<phase, profile, stage, ahead, permits, reply, elapsed, waited>>

(* The closure returns or panics and drops its permit, whether or not the  *)
(* request is still there.                                                 *)
FinishWork(r, outcome) ==
  /\ work[r] = "running"
  /\ Delivered(r, outcome)
  /\ slots' = slots + 1
  /\ UNCHANGED <<phase, profile, stage, ahead, permits, reply, elapsed, waited>>

(* Mutant: an error of the serializer is swallowed.                        *)
StatusOfUnchecked(outcome) ==
  CASE outcome \in {"result", "unserializable"} -> 200
    [] outcome = "rejected" -> 422
    [] outcome = "limit"    -> 429
    [] outcome = "panic"    -> 500

(* The status of what the closure returned.                                *)
StatusOf(outcome) ==
  CASE outcome = "result"   -> 200
    [] outcome = "rejected" -> 422
    [] outcome = "limit"    -> 429
    [] outcome \in {"unserializable", "panic"} -> 500

(* The join handle is ready and the handler answers.                       *)
Reply(r) ==
  /\ stage[r] = "result" /\ work[r] \in Outcomes
  /\ Respond(r, StatusOf(work[r]))
  /\ UNCHANGED <<phase, profile, ahead, slots, work, elapsed, waited>>

-----------------------------------------------------------------------------
(* Mutant: the timeout covers the checks and the queue, not the execution. *)
ExpireQueued(r) ==
  /\ stage[r] \in {"checks", "queue"} /\ elapsed[r] = Timeout
  /\ Respond(r, 504)
  /\ UNCHANGED <<phase, profile, ahead, slots, work, elapsed, waited>>

(* The Timeout layer drops the future; the blocking closure goes on.       *)
Expire(r) ==
  /\ InFlight(r) /\ elapsed[r] = Timeout
  /\ Respond(r, 504)
  /\ UNCHANGED <<phase, profile, ahead, slots, work, elapsed, waited>>

(* The client leaves: the future is dropped, in a queue or in flight.      *)
Disconnect(r) ==
  /\ Active(r)
  /\ IF InFlight(r) THEN End(r, "gone")
                    ELSE stage' = [stage EXCEPT ![r] = "gone"] /\ UNCHANGED permits
  /\ UNCHANGED <<phase, profile, ahead, slots, work, reply, elapsed, waited>>

(* Time passes: slower than the runtime hands out permits, and never past  *)
(* the deadline of an admitted request.                                    *)
Tick ==
  /\ \E r \in Requests : Active(r)
  /\ ~\E r \in Requests : Admissible(r)
  /\ \A r \in Requests : InFlight(r) => elapsed[r] < Timeout
  /\ elapsed' = [r \in Requests |-> IF InFlight(r) THEN elapsed[r] + 1 ELSE elapsed[r]]
  /\ waited' = [r \in Requests |->
                  IF Active(r) /\ waited[r] < LongestWait THEN waited[r] + 1 ELSE waited[r]]
  /\ UNCHANGED <<phase, profile, stage, ahead, permits, slots, work, reply>>

(* ctrl-c: no request is accepted any more, those that were are served.    *)
Shutdown ==
  /\ phase = "serving" /\ phase' = "draining"
  /\ UNCHANGED <<profile, stage, ahead, permits, slots, work, reply, elapsed, waited>>

(* Mutant: a closure that outlives its request stays on the list of those   *)
(* main waits for.                                                         *)
ExitListed ==
  /\ phase = "draining"
  /\ \A r \in Requests : ~Active(r) /\ work[r] \notin {"running", "discarded"}
  /\ phase' = "exited"
  /\ UNCHANGED <<profile, stage, ahead, permits, slots, work, reply, elapsed, waited>>

(* main returns when the connections are done and the runtime, dropped,    *)
(* has waited for the blocking closures.                                   *)
Exit ==
  /\ phase = "draining"
  /\ \A r \in Requests : ~Active(r) /\ work[r] # "running"
  /\ phase' = "exited"
  /\ UNCHANGED <<profile, stage, ahead, permits, slots, work, reply, elapsed, waited>>

Step(r) ==
  \/ Arrive(r) \/ Admit(r) \/ Handle(r) \/ StartWork(r) \/ Reply(r)
  \/ Expire(r) \/ Disconnect(r)
  \/ \E outcome \in Ends : FinishWork(r, outcome)

Next == Tick \/ Shutdown \/ Exit \/ \E r \in Requests : Step(r)

Spec == Init /\ [][Next]_vars

(* What the runtime does by itself: time passes, permits are handed out,   *)
(* answers and timeouts are delivered.  Neither a client's body nor the    *)
(* end of a simulation is promised.                                        *)
Fairness ==
  /\ WF_vars(Tick) /\ WF_vars(Exit)
  /\ \A r \in Requests : WF_vars(Admit(r) \/ StartWork(r) \/ Reply(r) \/ Expire(r))

FairSpec == Spec /\ Fairness

-----------------------------------------------------------------------------
(* Properties.                                                             *)

Running == {r \in Requests : work[r] = "running"}
Holding(p) == {r \in Requests : InFlight(r) /\ Route(r) = p}

(* However requests end, no permit is lost and none is given back twice:   *)
(* the free slots are those no closure runs in, its request alive or not,  *)
(* and a route's free permits those no live request of it holds.           *)
Conservation ==
  /\ slots + Cardinality(Running) = Workers
  /\ \A p \in Routes : permits[p] + Cardinality(Holding(p)) = Workers

(* A simulation is started only for a request that passed every check; a   *)
(* request without the token gets 401 or nothing, whatever else is wrong   *)
(* with it and however long it waits.                                      *)
WorkEarned ==
  \A r \in Requests :
    /\ work[r] # "none" =>
         /\ profile[r].defects = {} /\ Route(r) # "validate"
         /\ Route(r) = "arrivals" => profile[r].kind = "arrivals"
         /\ Route(r) = "field" => profile[r].kind = "pressure"
    /\ "token" \in profile[r].defects => reply[r] \in {401, NoReply}

(* An answer is final and truthful: 200 of a simulating route means its    *)
(* simulation ended with a result, 504 that the time since admission is    *)
(* spent, and nothing that happens later changes what was said: not the    *)
(* closure that outlives its request, not a client that leaves.            *)
Truthful(r) ==
  /\ reply[r] = 200 /\ Route(r) # "validate" => work[r] = "result"
  /\ reply[r] = 504 => elapsed[r] = Timeout

AnswersStand ==
  [][\A r \in Requests :
       /\ reply[r] # NoReply => reply'[r] = reply[r]
       /\ Truthful(r)']_vars

(* Every request that reaches the service is answered or abandoned by its  *)
(* client, even if no simulation ever ends.                                *)
EveryRequestEnds ==
  \A r \in Requests : stage[r] = "gate" ~> stage[r] \in {"answered", "gone"}

(* If simulations end, the service stops once it is told to.               *)
ShutdownEnds ==
  (\A r \in Requests : WF_vars(\E outcome \in Ends : FinishWork(r, outcome)))
    => (phase = "draining" ~> phase = "exited")

(* The help text and the guide: the timeout is end to end, the wait for a  *)
(* worker included.                                                        *)
EndToEndTimeout == \A r \in Requests : Active(r) => waited[r] <= Timeout
=============================================================================
