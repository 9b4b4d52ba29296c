---------------------- MODULE SimulationService_proofs ----------------------
(****************************************************************************)
(* Theorems about SimulationService for every number of workers and every  *)
(* finite set of requests.                                                 *)
(****************************************************************************)
EXTENDS SimulationService, FiniteSetTheorems, TLAPS

-----------------------------------------------------------------------------
(* Types.                                                                  *)

(* A verdict on a request is no reply or one of the statuses.              *)
LEMMA RefusalType ==
  ASSUME NEW p \in Request
  PROVE  Refusal(p) \in Statuses \cup {NoReply}
  BY DEF Refusal, Statuses, NoReply

LEMMA StatusOfType ==
  ASSUME NEW o \in Outcomes
  PROVE  StatusOf(o) \in Statuses
  BY DEF StatusOf, Statuses, Outcomes

(* Types without the counters of permits, whose bounds need conservation.  *)
Shape ==
  /\ phase \in {"serving", "draining", "exited"}
  /\ profile \in [Requests -> Request]
  /\ stage \in [Requests -> Stages]
  /\ ahead \in [Requests -> SUBSET Requests]
  /\ permits \in [Routes -> Nat]
  /\ slots \in Nat
  /\ work \in [Requests -> Works]
  /\ reply \in [Requests -> Statuses \cup {NoReply}]
  /\ elapsed \in [Requests -> 0 .. Timeout]
  /\ waited \in [Requests -> 0 .. LongestWait]

(* A request names a route.                                                *)
LEMMA RouteType ==
  ASSUME Shape, NEW r \in Requests
  PROVE  Route(r) \in Routes
  BY DEF Shape, Route, Request

(* Every step keeps the types.                                             *)
LEMMA ShapeStep ==
  ASSUME Shape, [Next]_vars
  PROVE  Shape'
<1> USE DEF Shape, Stages, Admitted, Works
<1>1. CASE UNCHANGED vars
  BY <1>1 DEF vars
<1>2. CASE Tick
  <2>1. \A r \in Requests : InFlight(r) => elapsed[r] + 1 \in 0 .. Timeout
    BY <1>2, ServiceAssumption DEF Tick
  <2>2. \A r \in Requests : waited[r] < LongestWait => waited[r] + 1 \in 0 .. LongestWait
    BY ServiceAssumption
  <2> QED
    BY <1>2, <2>1, <2>2 DEF Tick
<1>3. CASE Shutdown
  BY <1>3 DEF Shutdown
<1>4. CASE Exit
  BY <1>4 DEF Exit
<1>5. ASSUME NEW r \in Requests, Step(r)
      PROVE  Shape'
  <2>0. Route(r) \in Routes /\ profile[r] \in Request
    BY RouteType
  <2>1. CASE Arrive(r)
    BY <2>1 DEF Arrive, Join
  <2>2. CASE Admit(r)
    BY <2>0, <2>2 DEF Admit, Admissible, Join, Statuses
  <2>3. CASE Handle(r)
    BY <2>0, <2>3, RefusalType DEF Handle, Respond, End, Join, Statuses
  <2>4. CASE StartWork(r)
    BY <2>4 DEF StartWork, Join
  <2>5. CASE Reply(r)
    BY <2>0, <2>5, StatusOfType DEF Reply, Respond, End
  <2>6. CASE Expire(r)
    BY <2>0, <2>6 DEF Expire, Respond, End, Statuses
  <2>7. CASE Disconnect(r)
    BY <2>0, <2>7 DEF Disconnect, End
  <2>8. ASSUME NEW outcome \in Ends, FinishWork(r, outcome)
        PROVE  Shape'
    BY <2>8, ServiceAssumption DEF FinishWork, Delivered
  <2> QED
    BY <1>5, <2>1, <2>2, <2>3, <2>4, <2>5, <2>6, <2>7, <2>8 DEF Step
<1> QED
  BY <1>1, <1>2, <1>3, <1>4, <1>5 DEF Next

-----------------------------------------------------------------------------
(* Conservation.                                                           *)

SlotsConserved == slots + Cardinality(Running) = Workers
PermitsConserved == \A p \in Routes : permits[p] + Cardinality(Holding(p)) = Workers

(* The sets that are counted are finite.                                   *)
LEMMA CountedFinite ==
  /\ IsFiniteSet(Running) /\ Cardinality(Running) \in Nat
  /\ \A p \in Routes : IsFiniteSet(Holding(p)) /\ Cardinality(Holding(p)) \in Nat
<1>1. Running \subseteq Requests /\ \A p \in Routes : Holding(p) \subseteq Requests
  BY DEF Running, Holding
<1> QED
  BY <1>1, ServiceAssumption, FS_Subset, FS_CardinalityType

(* A future that ends gives the permit of its route back.                  *)
LEMMA PermitReturned ==
  ASSUME Shape, PermitsConserved, NEW r \in Requests, InFlight(r), NEW s,
         s \notin Admitted, End(r, s), UNCHANGED profile
  PROVE  PermitsConserved'
<1> SUFFICES ASSUME NEW p \in Routes
             PROVE  permits'[p] + Cardinality(Holding(p)') = Workers
  BY DEF PermitsConserved
<1>1. permits[p] + Cardinality(Holding(p)) = Workers
  BY DEF PermitsConserved
<1>2. \A q \in Requests : Route(q)' = Route(q)
  BY DEF Route
<1>3. Holding(p)' = Holding(p) \ {r}
  BY <1>2 DEF Holding, InFlight, End, Shape
<1>4. CASE p = Route(r)
  <2>1. r \in Holding(p)
    BY <1>4 DEF Holding
  <2>2. Cardinality(Holding(p)') = Cardinality(Holding(p)) - 1
    BY <1>3, <2>1, CountedFinite, FS_RemoveElement
  <2>3. permits'[p] = permits[p] + 1
    BY <1>4, RouteType DEF End, Shape
  <2> QED
    BY <1>1, <2>2, <2>3, CountedFinite, ServiceAssumption DEF Shape
<1>5. CASE p # Route(r)
  <2>1. Holding(p)' = Holding(p)
    BY <1>3, <1>5 DEF Holding
  <2>2. permits'[p] = permits[p]
    BY <1>5, RouteType DEF End, Shape
  <2> QED
    BY <1>1, <2>1, <2>2
<1> QED
  BY <1>4, <1>5

(* An admitted request holds the permit it was given.                      *)
LEMMA PermitTaken ==
  ASSUME Shape, PermitsConserved, NEW r \in Requests, ~InFlight(r),
         permits[Route(r)] > 0, UNCHANGED profile,
         stage' = [stage EXCEPT ![r] = "checks"],
         permits' = [permits EXCEPT ![Route(r)] = @ - 1]
  PROVE  PermitsConserved'
<1> SUFFICES ASSUME NEW p \in Routes
             PROVE  permits'[p] + Cardinality(Holding(p)') = Workers
  BY DEF PermitsConserved
<1>1. permits[p] + Cardinality(Holding(p)) = Workers
  BY DEF PermitsConserved
<1>2. \A q \in Requests : Route(q)' = Route(q)
  BY DEF Route
<1>3. CASE p = Route(r)
  <2>1. r \notin Holding(p)
    BY DEF Holding
  <2>2. Holding(p)' = Holding(p) \cup {r}
    BY <1>2, <1>3 DEF Holding, InFlight, Shape, Admitted
  <2>3. Cardinality(Holding(p)') = Cardinality(Holding(p)) + 1
    BY <2>1, <2>2, CountedFinite, FS_AddElement
  <2>4. permits'[p] = permits[p] - 1
    BY <1>3, RouteType DEF Shape
  <2> QED
    BY <1>1, <2>3, <2>4, CountedFinite, ServiceAssumption DEF Shape
<1>4. CASE p # Route(r)
  <2>1. Holding(p)' = Holding(p)
    BY <1>2, <1>4 DEF Holding, InFlight, Shape
  <2>2. permits'[p] = permits[p]
    BY <1>4, RouteType DEF Shape
  <2> QED
    BY <1>1, <2>1, <2>2
<1> QED
  BY <1>3, <1>4

(* A step that leaves everybody in flight, or not, leaves the permits.     *)
LEMMA PermitsKept ==
  ASSUME PermitsConserved, UNCHANGED <<profile, permits>>,
         \A q \in Requests : InFlight(q)' <=> InFlight(q)
  PROVE  PermitsConserved'
<1>1. \A p \in Routes : Holding(p)' = Holding(p)
  BY DEF Holding, Route
<1> QED
  BY <1>1 DEF PermitsConserved

(* What is behind a started simulation.                                    *)
Earned(r) ==
  /\ profile[r].defects = {} /\ Route(r) # "validate"
  /\ Route(r) = "arrivals" => profile[r].kind = "arrivals"
  /\ Route(r) = "field" => profile[r].kind = "pressure"

(* What the stage of a request says of its past.                           *)
Story(r) ==
  /\ stage[r] \in {"unsent", "gate", "checks", "queue"} => work[r] = "none"
  /\ stage[r] # "answered" => reply[r] = NoReply
  /\ InFlight(r) => Authorized(profile[r])
  /\ work[r] # "none" \/ stage[r] = "queue" => Earned(r)
  /\ "token" \in profile[r].defects => reply[r] \in {401, NoReply}
  /\ Truthful(r)

(* A request whose variables do not change keeps its story.                *)
LEMMA SameStory ==
  ASSUME Shape, NEW r \in Requests, Story(r), UNCHANGED profile,
         stage'[r] = stage[r], work'[r] = work[r], reply'[r] = reply[r],
         elapsed'[r] = elapsed[r]
  PROVE  Story(r)'
  BY DEF Story, InFlight, Earned, Truthful, Route

(* A request that no check refuses has nothing wrong with it.              *)
LEMMA NothingWrong ==
  ASSUME NEW r \in Requests, Shape, Authorized(profile[r]),
         Refusal(profile[r]) = NoReply, Route(r) # "validate"
  PROVE  Earned(r)
<1>1. profile[r].defects \subseteq Defects
  BY DEF Shape, Request
<1> QED
  BY <1>1 DEF Authorized, Refusal, NoReply, Earned, Route, Defects

(* A refusal is never taken for an answer.                                 *)
LEMMA RefusalHonest ==
  ASSUME NEW p \in Request
  PROVE  Refusal(p) \notin {200, 504, 401}
  BY DEF Refusal, NoReply

(* The status 200 stands for a result alone.                               *)
LEMMA StatusHonest ==
  ASSUME NEW o \in Outcomes
  PROVE  /\ StatusOf(o) \notin {504, 401}
         /\ StatusOf(o) = 200 => o = "result"
  BY DEF StatusOf, Outcomes

(* The step of a request continues its story.                              *)
LEMMA OwnStory ==
  ASSUME Shape, NEW r \in Requests, Story(r), Step(r)
  PROVE  Story(r)'
<1> USE DEF Shape, Stages, Admitted, Story, InFlight, Truthful, Earned, Route
<1>1. CASE Arrive(r)
  BY <1>1 DEF Arrive, Join
<1>2. CASE Admit(r)
  BY <1>2 DEF Admit, Admissible, Join, Authorized, NoReply
<1>3. CASE Handle(r)
  <2>1. Refusal(profile[r]) \notin {200, 504}
    BY RefusalHonest
  <2>2. "token" \notin profile[r].defects
    BY <1>3 DEF Handle, Authorized
  <2>3. CASE Refusal(profile[r]) # NoReply
    BY <1>3, <2>1, <2>2, <2>3 DEF Handle, Respond, End, NoReply
  <2>4. CASE Refusal(profile[r]) = NoReply /\ Route(r) = "validate"
    BY <1>3, <2>2, <2>4 DEF Handle, Respond, End, NoReply
  <2>5. CASE Refusal(profile[r]) = NoReply /\ Route(r) # "validate"
    <3>1. Earned(r) /\ stage[r] = "checks"
      BY <1>3, <2>5, NothingWrong DEF Handle
    <3> QED
      BY <1>3, <2>2, <2>5, <3>1 DEF Handle, Join, NoReply
  <2> QED
    BY <2>3, <2>4, <2>5
<1>4. CASE StartWork(r)
  BY <1>4 DEF StartWork, Join, NoReply
<1>5. CASE Reply(r)
  BY <1>5, StatusHonest DEF Reply, Respond, End, Authorized, NoReply, Outcomes
<1>6. CASE Expire(r)
  BY <1>6 DEF Expire, Respond, End, Authorized, NoReply
<1>7. CASE Disconnect(r)
  BY <1>7 DEF Disconnect, Active, End, NoReply
<1>8. ASSUME NEW outcome \in Ends, FinishWork(r, outcome)
      PROVE  Story(r)'
  BY <1>8, ServiceAssumption DEF FinishWork, Delivered, Outcomes
<1> QED
  BY <1>1, <1>2, <1>3, <1>4, <1>5, <1>6, <1>7, <1>8 DEF Step

(* The step of a request leaves the others alone.                          *)
LEMMA OthersUntouched ==
  ASSUME Shape, NEW r \in Requests, NEW q \in Requests, q # r, Step(r)
  PROVE  /\ stage'[q] = stage[q] /\ work'[q] = work[q]
         /\ reply'[q] = reply[q] /\ elapsed'[q] = elapsed[q]
<1> USE DEF Shape, Join, End, Respond
<1>1. CASE Arrive(r) \/ Admit(r) \/ Handle(r) \/ StartWork(r)
  BY <1>1 DEF Arrive, Admit, Handle, StartWork
<1>2. CASE Reply(r) \/ Expire(r) \/ Disconnect(r)
  BY <1>2 DEF Reply, Expire, Disconnect
<1>3. CASE \E outcome \in Ends : FinishWork(r, outcome)
  BY <1>3 DEF FinishWork, Delivered
<1> QED
  BY <1>1, <1>2, <1>3 DEF Step

(* No step changes what a request is.                                      *)
LEMMA ProfileKept ==
  ASSUME [Next]_vars
  PROVE  UNCHANGED profile
  BY DEF Next, Step, vars, Tick, Shutdown, Exit, Arrive, Admit, Handle,
     StartWork, FinishWork, Reply, Expire, Disconnect

(* Every step continues every story.                                       *)
LEMMA StoryStep ==
  ASSUME Shape, \A r \in Requests : Story(r), [Next]_vars
  PROVE  \A r \in Requests : Story(r)'
<1> SUFFICES ASSUME NEW q \in Requests
             PROVE  Story(q)'
  OBVIOUS
<1>1. CASE UNCHANGED vars \/ Shutdown \/ Exit
  BY <1>1, SameStory, ProfileKept DEF vars, Shutdown, Exit
<1>2. CASE Tick
  <2>1. CASE InFlight(q)
    BY <1>2, <2>1 DEF Tick, Story, InFlight, Admitted, Earned, Truthful, Route,
       NoReply
  <2>2. CASE ~InFlight(q)
    <3>1. elapsed'[q] = elapsed[q]
      BY <1>2, <2>2 DEF Tick
    <3> QED
      BY <1>2, <3>1, SameStory DEF Tick
  <2> QED
    BY <2>1, <2>2
<1>3. ASSUME NEW r \in Requests, Step(r)
      PROVE  Story(q)'
  <2>1. CASE q = r
    BY <1>3, <2>1, OwnStory
  <2>2. CASE q # r
    BY <1>3, <2>2, OthersUntouched, ProfileKept, SameStory
  <2> QED
    BY <2>1, <2>2
<1> QED
  BY <1>1, <1>2, <1>3 DEF Next

(* Every step conserves the slots.                                         *)
LEMMA SlotsStep ==
  ASSUME Shape, SlotsConserved, \A r \in Requests : Story(r), [Next]_vars
  PROVE  SlotsConserved'
<1>1. CASE \E r \in Requests : StartWork(r)
  <2> PICK r \in Requests : StartWork(r)
    BY <1>1
  <2>1. r \notin Running /\ Running' = Running \cup {r}
    BY DEF Running, StartWork, Shape, Story
  <2>2. Cardinality(Running') = Cardinality(Running) + 1
    BY <2>1, CountedFinite, FS_AddElement
  <2> QED
    BY <2>2, CountedFinite, ServiceAssumption DEF SlotsConserved, StartWork, Shape
<1>2. CASE \E r \in Requests, outcome \in Ends : FinishWork(r, outcome)
  <2> PICK r \in Requests, outcome \in Ends : FinishWork(r, outcome)
    BY <1>2
  <2>1. r \in Running /\ Running' = Running \ {r}
    BY ServiceAssumption DEF Running, FinishWork, Delivered, Shape, Outcomes
  <2>2. Cardinality(Running') = Cardinality(Running) - 1
    BY <2>1, CountedFinite, FS_RemoveElement
  <2> QED
    BY <2>2, CountedFinite, ServiceAssumption DEF SlotsConserved, FinishWork, Shape
<1>3. CASE ~\E r \in Requests : StartWork(r) \/ \E outcome \in Ends : FinishWork(r, outcome)
  <2>1. UNCHANGED <<slots, work>>
    BY <1>3 DEF Next, vars, Step, Tick, Shutdown, Exit, Arrive, Admit, Handle,
       Reply, Expire, Disconnect
  <2>2. Running' = Running
    BY <2>1 DEF Running
  <2> QED
    BY <2>1, <2>2 DEF SlotsConserved
<1> QED
  BY <1>1, <1>2, <1>3

(* Every step conserves the permits of the routes.                         *)
LEMMA PermitsStep ==
  ASSUME Shape, PermitsConserved, [Next]_vars
  PROVE  PermitsConserved'
<1> USE DEF InFlight, Admitted
<1>0. UNCHANGED profile
  BY ProfileKept
<1>1. CASE UNCHANGED vars \/ Tick \/ Shutdown \/ Exit
  BY <1>1, PermitsKept DEF vars, Tick, Shutdown, Exit
<1>2. ASSUME NEW r \in Requests, Step(r)
      PROVE  PermitsConserved'
  <2>1. CASE Arrive(r)
    <3>1. \A q \in Requests : InFlight(q)' <=> InFlight(q)
      BY <2>1 DEF Arrive, Join, Shape
    <3> QED
      BY <2>1, <3>1, PermitsKept DEF Arrive
  <2>2. CASE Admit(r)
    <3>1. CASE Authorized(profile[r])
      BY <1>0, <2>2, <3>1, PermitTaken DEF Admit, Admissible, Join
    <3>2. CASE ~Authorized(profile[r])
      <4>1. \A q \in Requests : InFlight(q)' <=> InFlight(q)
        BY <2>2, <3>2 DEF Admit, Admissible, Join, Shape
      <4> QED
        BY <2>2, <3>2, <4>1, PermitsKept DEF Admit
    <3> QED
      BY <3>1, <3>2
  <2>3. CASE Handle(r)
    <3>1. CASE End(r, "answered")
      BY <1>0, <2>3, <3>1, PermitReturned DEF Handle
    <3>2. CASE ~End(r, "answered")
      <4>1. stage' = [stage EXCEPT ![r] = "queue"] /\ stage[r] = "checks"
        BY <2>3, <3>2 DEF Handle, Respond, Join
      <4>2. \A q \in Requests : InFlight(q)' <=> InFlight(q)
        BY <4>1 DEF Shape
      <4> QED
        BY <2>3, <3>2, <4>2, PermitsKept DEF Handle, Respond
    <3> QED
      BY <3>1, <3>2
  <2>4. CASE StartWork(r)
    <3>1. \A q \in Requests : InFlight(q)' <=> InFlight(q)
      BY <2>4 DEF StartWork, Join, Shape
    <3> QED
      BY <2>4, <3>1, PermitsKept DEF StartWork
  <2>5. CASE Reply(r) \/ Expire(r)
    BY <1>0, <2>5, PermitReturned DEF Reply, Expire, Respond
  <2>6. CASE Disconnect(r)
    <3>1. CASE InFlight(r)
      BY <1>0, <2>6, <3>1, PermitReturned DEF Disconnect
    <3>2. CASE ~InFlight(r)
      <4>1. \A q \in Requests : InFlight(q)' <=> InFlight(q)
        BY <2>6, <3>2 DEF Disconnect, Shape
      <4> QED
        BY <2>6, <3>2, <4>1, PermitsKept DEF Disconnect
    <3> QED
      BY <3>1, <3>2
  <2>7. CASE \E outcome \in Ends : FinishWork(r, outcome)
    BY <2>7, PermitsKept DEF FinishWork
  <2> QED
    BY <1>2, <2>1, <2>2, <2>3, <2>4, <2>5, <2>6, <2>7 DEF Step
<1> QED
  BY <1>1, <1>2 DEF Next

-----------------------------------------------------------------------------
(* The invariant and what follows.                                         *)

ServiceInv ==
  Shape /\ SlotsConserved /\ PermitsConserved /\ \A r \in Requests : Story(r)

(* The invariant holds at the start.                                       *)
LEMMA ServiceInit == Init => ServiceInv
<1> SUFFICES ASSUME Init
             PROVE  ServiceInv
  OBVIOUS
<1>1. Shape
  BY ServiceAssumption DEF Init, Shape, Stages, Works
<1>2. Running = {} /\ \A p \in Routes : Holding(p) = {}
  BY DEF Init, Running, Holding, InFlight, Admitted
<1>3. SlotsConserved /\ PermitsConserved
  BY <1>2, FS_EmptySet, ServiceAssumption DEF Init, SlotsConserved, PermitsConserved
<1>4. \A r \in Requests : Story(r)
  BY DEF Init, Story, InFlight, Admitted, Truthful, NoReply
<1> QED
  BY <1>1, <1>3, <1>4 DEF ServiceInv

(* The invariant holds in every state of the service.                      *)
LEMMA ServiceInvariant == Spec => []ServiceInv
<1>1. ServiceInv /\ [Next]_vars => ServiceInv'
  <2> SUFFICES ASSUME ServiceInv, [Next]_vars
               PROVE  ServiceInv'
    OBVIOUS
  <2>1. Shape' /\ SlotsConserved' /\ PermitsConserved'
    BY ShapeStep, SlotsStep, PermitsStep DEF ServiceInv
  <2>2. \A r \in Requests : Story(r)'
    BY StoryStep DEF ServiceInv
  <2> QED
    BY <2>1, <2>2 DEF ServiceInv
<1> QED
  BY <1>1, ServiceInit, PTL DEF Spec

(* Whatever mix of answers, refusals, timeouts, panics and departures, no  *)
(* permit of either semaphore is lost or given back twice.                 *)
THEOREM PermitsAccounted == Spec => []Conservation
<1>1. ServiceInv => Conservation
  BY DEF ServiceInv, SlotsConserved, PermitsConserved, Conservation
<1> QED
  BY <1>1, ServiceInvariant, PTL

(* The types, whose bounds on the permits rest on their conservation.      *)
THEOREM ServiceTypes == Spec => []TypeOK
<1>1. ServiceInv => TypeOK
  <2> SUFFICES ASSUME ServiceInv
               PROVE  TypeOK
    OBVIOUS
  <2>1. slots \in 0 .. Workers
    BY CountedFinite, ServiceAssumption DEF ServiceInv, SlotsConserved, Shape
  <2>2. \A p \in Routes : permits[p] \in 0 .. Workers
    BY CountedFinite, ServiceAssumption DEF ServiceInv, PermitsConserved, Shape
  <2>3. permits \in [Routes -> 0 .. Workers]
    BY <2>2 DEF ServiceInv, Shape
  <2> QED
    BY <2>1, <2>3 DEF ServiceInv, Shape, TypeOK
<1> QED
  BY <1>1, ServiceInvariant, PTL

(* Only requests that passed every check cost a simulation.                *)
THEOREM WorkIsEarned == Spec => []WorkEarned
<1>1. ServiceInv => WorkEarned
  BY DEF ServiceInv, Story, Earned, WorkEarned
<1> QED
  BY <1>1, ServiceInvariant, PTL

(* Answers are truthful and final, even under closures that outlive their  *)
(* requests.                                                               *)
THEOREM AnswersFinal == Spec => AnswersStand
<1>1. ServiceInv /\ ServiceInv' /\ [Next]_vars =>
        [\A r \in Requests :
           /\ reply[r] # NoReply => reply'[r] = reply[r]
           /\ Truthful(r)']_vars
  <2> SUFFICES ASSUME ServiceInv, ServiceInv', [Next]_vars, NEW q \in Requests
               PROVE  /\ reply[q] # NoReply => reply'[q] = reply[q]
                      /\ Truthful(q)'
    BY Zenon
  <2>1. Truthful(q)'
    BY DEF ServiceInv, Story
  <2>2. ASSUME reply[q] # NoReply
        PROVE  reply'[q] = reply[q]
    <3>1. stage[q] = "answered"
      BY <2>2 DEF ServiceInv, Story
    <3>2. CASE UNCHANGED vars \/ Tick \/ Shutdown \/ Exit
      BY <3>2 DEF vars, Tick, Shutdown, Exit
    <3>3. ASSUME NEW r \in Requests, Step(r)
          PROVE  reply'[q] = reply[q]
      <4>1. CASE r # q
        BY <3>3, <4>1, OthersUntouched DEF ServiceInv
      <4>2. CASE r = q
        BY <3>1, <3>3, <4>2 DEF Step, Arrive, Admit, Admissible, Handle, StartWork,
           Reply, Expire, Disconnect, FinishWork, Active, InFlight, Admitted
      <4> QED
        BY <4>1, <4>2
    <3> QED
      BY <3>2, <3>3 DEF Next
  <2> QED
    BY <2>1, <2>2
<1> QED
  BY <1>1, ServiceInvariant, PTL DEF Spec, AnswersStand
=============================================================================
