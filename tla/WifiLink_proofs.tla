-------------------------- MODULE WifiLink_proofs ---------------------------
(***************************************************************************)
(* What holds of the Wi-Fi link for every backoff and any number of        *)
(* troubles.  The invariants of WifiLink relate queues, so they are proved *)
(* from stronger ones that follow the items one by one: what is left of a  *)
(* callback (TodoInv), who owns the next attempt (RetryInv), who may touch *)
(* the backoff (BackoffInv), and which event last spoke of the address     *)
(* (AddressInv).                                                           *)
(***************************************************************************)
EXTENDS WifiLink, TLAPS

\* What can be left of a callback: the suffixes of the steps of an event.
Suffixes ==
  {<<>>, <<"schedule", "double">>, <<"double">>, <<"fresh">>,
   <<"clear", "reset", "schedule">>, <<"reset", "schedule">>,
   <<"schedule">>, <<"set", "give">>, <<"give">>,
   <<"clear", "reset">>, <<"reset">>}

TodoInv == todo \in Suffixes

TokenInv == /\ todo = <<"give">> => link_up
            /\ TokenMeansUp

TokenIInv == TypeOK /\ TodoInv /\ TokenInv

LEMMA Tails ==
  /\ Tail(<<"schedule", "double">>) = <<"double">>
  /\ Tail(<<"double">>) = <<>> /\ Tail(<<"fresh">>) = <<>>
  /\ Tail(<<"clear", "reset", "schedule">>) = <<"reset", "schedule">>
  /\ Tail(<<"reset", "schedule">>) = <<"schedule">>
  /\ Tail(<<"schedule">>) = <<>>
  /\ Tail(<<"set", "give">>) = <<"give">> /\ Tail(<<"give">>) = <<>>
  /\ Tail(<<"clear", "reset">>) = <<"reset">> /\ Tail(<<"reset">>) = <<>>
  OBVIOUS

LEMMA Heads ==
  /\ Head(<<"schedule", "double">>) = "schedule"
  /\ Head(<<"double">>) = "double" /\ Head(<<"fresh">>) = "fresh"
  /\ Head(<<"clear", "reset", "schedule">>) = "clear"
  /\ Head(<<"reset", "schedule">>) = "reset"
  /\ Head(<<"schedule">>) = "schedule"
  /\ Head(<<"set", "give">>) = "set" /\ Head(<<"give">>) = "give"
  /\ Head(<<"clear", "reset">>) = "clear" /\ Head(<<"reset">>) = "reset"
  OBVIOUS

LEMMA Taken ==
  ASSUME TodoInv, NEW step \in Step, NextIs(step)
  PROVE  /\ step = "schedule" =>
              \/ todo = <<"schedule", "double">> /\ todo' = <<"double">>
              \/ todo = <<"schedule">> /\ todo' = <<>>
         /\ step = "double" => todo = <<"double">> /\ todo' = <<>>
         /\ step = "fresh" => todo = <<"fresh">> /\ todo' = <<>>
         /\ step = "clear" =>
              \/ /\ todo = <<"clear", "reset", "schedule">>
                 /\ todo' = <<"reset", "schedule">>
              \/ todo = <<"clear", "reset">> /\ todo' = <<"reset">>
         /\ step = "reset" =>
              \/ todo = <<"reset", "schedule">> /\ todo' = <<"schedule">>
              \/ todo = <<"reset">> /\ todo' = <<>>
         /\ step = "set" => todo = <<"set", "give">> /\ todo' = <<"give">>
         /\ step = "give" => todo = <<"give">> /\ todo' = <<>>
<1>1. todo # <<>> /\ Head(todo) = step /\ todo' = Tail(todo)  BY DEF NextIs
<1>2. /\ step = "schedule" =>
            todo \in {<<"schedule", "double">>, <<"schedule">>}
      /\ step = "double" => todo = <<"double">>
      /\ step = "fresh" => todo = <<"fresh">>
      /\ step = "clear" => todo \in {<<"clear", "reset", "schedule">>,
                                     <<"clear", "reset">>}
      /\ step = "reset" => todo \in {<<"reset", "schedule">>, <<"reset">>}
      /\ step = "set" => todo = <<"set", "give">>
      /\ step = "give" => todo = <<"give">>
  BY <1>1, Heads DEF TodoInv, Suffixes, Step
<1> QED  BY <1>1, <1>2, Tails, Zenon DEF Step

LEMMA Todos ==
  ASSUME TodoInv
  PROVE  /\ ToDo("schedule") <=>
              todo \in {<<"schedule", "double">>, <<"schedule">>,
                        <<"reset", "schedule">>,
                        <<"clear", "reset", "schedule">>}
         /\ ToDo("double") <=> todo \in {<<"schedule", "double">>, <<"double">>}
         /\ ToDo("fresh") <=> todo = <<"fresh">>
         /\ ToDo("reset") <=>
              todo \in {<<"clear", "reset", "schedule">>,
                        <<"reset", "schedule">>, <<"clear", "reset">>,
                        <<"reset">>}
         /\ ToDo("clear") <=> todo \in {<<"clear", "reset", "schedule">>,
                                        <<"clear", "reset">>}
         /\ ToDo("set") <=> todo = <<"set", "give">>
<1>1. CASE todo \in {<<>>, <<"schedule", "double">>, <<"double">>, <<"fresh">>}
  BY <1>1 DEF ToDo
<1>2. CASE todo \in {<<"clear", "reset", "schedule">>, <<"reset", "schedule">>,
                      <<"schedule">>}
  BY <1>2 DEF ToDo
<1>3. CASE todo \in {<<"set", "give">>, <<"give">>, <<"clear", "reset">>,
                      <<"reset">>}
  BY <1>3 DEF ToDo
<1> QED  BY <1>1, <1>2, <1>3 DEF TodoInv, Suffixes

-----------------------------------------------------------------------------
LEMMA Raised ==
  ASSUME events \in Seq(Event), NEW e \in Event, Raise(<<e>>)
  PROVE  /\ events' \in Seq(Event) /\ Len(events') = Len(events) + 1
         /\ \A i \in 1..Len(events) : events'[i] = events[i]
         /\ events'[Len(events) + 1] = e
  BY DEF Raise

LEMMA RaisedTwo ==
  ASSUME events \in Seq(Event), NEW e \in Event, NEW f \in Event,
         Raise(<<e, f>>)
  PROVE  /\ events' \in Seq(Event) /\ Len(events') = Len(events) + 2
         /\ \A i \in 1..Len(events) : events'[i] = events[i]
         /\ events'[Len(events) + 1] = e /\ events'[Len(events) + 2] = f
  BY DEF Raise

LEMMA Shifted ==
  ASSUME events \in Seq(Event), events # <<>>, events' = Tail(events)
  PROVE  /\ events' \in Seq(Event) /\ Len(events') = Len(events) - 1
         /\ Len(events) > 0 /\ Head(events) = events[1]
         /\ \A i \in 1..Len(events') : events'[i] = events[i + 1]
  OBVIOUS

LEMMA StepsOf ==
  /\ Steps("connect failed") = <<"schedule", "double">>
  /\ Steps("connected") = <<"fresh">>
  /\ Steps("disconnected") = <<"clear", "reset", "schedule">>
  /\ Steps("address added") = <<"set", "give">>
  /\ Steps("address gone") = <<"clear", "reset">>
  BY DEF Steps

LEMMA Started ==
  ASSUME TypeOK, TakeEvent
  PROVE  \/ Head(events) = "connect failed" /\ todo' = <<"schedule", "double">>
         \/ Head(events) = "connected" /\ todo' = <<"fresh">>
         \/ /\ Head(events) = "disconnected"
            /\ todo' = <<"clear", "reset", "schedule">>
         \/ Head(events) = "address added" /\ todo' = <<"set", "give">>
         \/ Head(events) = "address gone" /\ todo' = <<"clear", "reset">>
<1>1. todo' = Steps(Head(events)) /\ Head(events) \in Event
  BY DEF TypeOK, TakeEvent
<1> QED  BY <1>1, StepsOf DEF Event

LEMMA SuffixSteps == Suffixes \subseteq Seq(Step)
<1>1. <<"schedule", "double">> \in Seq(Step) /\ <<"double">> \in Seq(Step)
  BY DEF Step
<1>2. <<"fresh">> \in Seq(Step) /\ <<>> \in Seq(Step)  BY DEF Step
<1>3. <<"clear", "reset", "schedule">> \in Seq(Step)  BY DEF Step
<1>4. /\ <<"reset", "schedule">> \in Seq(Step)
      /\ <<"schedule">> \in Seq(Step)
  BY DEF Step
<1>5. <<"set", "give">> \in Seq(Step) /\ <<"give">> \in Seq(Step)  BY DEF Step
<1>6. <<"clear", "reset">> \in Seq(Step) /\ <<"reset">> \in Seq(Step)
  BY DEF Step
<1> QED  BY <1>1, <1>2, <1>3, <1>4, <1>5, <1>6, Zenon DEF Suffixes

LEMMA DoubledInRange ==
  ASSUME NEW ms \in InitialMs..MaxMs
  PROVE  Doubled(ms) \in InitialMs..MaxMs
  BY BackoffAssumption DEF Doubled

LEMMA Misbehaves ==
  ASSUME trouble \in 0..Troubles, Misbehave
  PROVE  trouble' \in 0..Troubles
  BY BackoffAssumption DEF Misbehave

LEMMA WorkTypes ==
  ASSUME TypeOK, WorkStep
  PROVE  /\ TypeOK' /\ UNCHANGED <<todo, link_up, link_up_sem, events, main>>
         /\ UNCHANGED bound
<1> USE DEF manager, world
<1>1. CASE WorkRuns  BY <1>1 DEF WorkRuns, TypeOK
<1>2. CASE NoInterface
  BY <1>2, Misbehaves DEF NoInterface, TypeOK
<1>3. CASE ConnectAccepted  BY <1>3 DEF ConnectAccepted, TypeOK
<1>4. CASE ConnectReturns  BY <1>4 DEF ConnectReturns, TypeOK
<1>5. CASE ConnectRejected
  BY <1>5, Misbehaves DEF ConnectRejected, TypeOK
<1>6. CASE RetryLater  BY <1>6 DEF RetryLater, TypeOK
<1>7. CASE RetrySlower
  BY <1>7, DoubledInRange DEF RetrySlower, TypeOK
<1> QED  BY <1>1, <1>2, <1>3, <1>4, <1>5, <1>6, <1>7 DEF WorkStep

LEMMA CallbackTypes ==
  ASSUME TypeOK, TodoInv, EventStep
  PROVE  /\ TypeOK' /\ TodoInv' /\ UNCHANGED <<sta, bound, work>>
<1> USE DEF manager, world
<1>1. CASE TakeEvent
  <2>1. TodoInv'  BY <1>1, Started, Zenon DEF TodoInv, Suffixes
  <2>2. todo' \in Seq(Step)  BY <2>1, SuffixSteps DEF TodoInv
  <2>3. events' \in Seq(Event)  BY <1>1, Shifted DEF TakeEvent, TypeOK
  <2> QED  BY <1>1, <2>1, <2>2, <2>3 DEF TakeEvent, TypeOK
<1>2. CASE \E step \in Step : NextIs(step)
  <2>1. PICK step \in Step : NextIs(step)  BY <1>2
  <2>2. TodoInv'  BY <2>1, Taken, Zenon DEF TodoInv, Suffixes, Step
  <2>3. todo' \in Seq(Step)  BY <2>2, SuffixSteps DEF TodoInv
  <2>4. CASE SetLink  BY <2>2, <2>3, <2>4 DEF SetLink, TypeOK
  <2>5. CASE Give  BY <2>2, <2>3, <2>5 DEF Give, TypeOK
  <2>6. CASE Reset  BY <2>2, <2>3, <2>6 DEF Reset, TypeOK
  <2>7. CASE Schedule  BY <2>2, <2>3, <2>7 DEF Schedule, TypeOK
  <2>8. CASE SetBackoff
    <3>1. backoff_ms' \in InitialMs..MaxMs
      BY <2>8, DoubledInRange, BackoffAssumption DEF SetBackoff, TypeOK
    <3> QED  BY <2>2, <2>3, <2>8, <3>1 DEF SetBackoff, TypeOK
  <2>9. ~TakeEvent  BY <2>1 DEF TakeEvent, NextIs
  <2> QED  BY <2>2, <2>4, <2>5, <2>6, <2>7, <2>8, <2>9 DEF EventStep
<1>3. TakeEvent \/ \E step \in Step : NextIs(step)
  BY DEF EventStep, SetLink, Give, Reset, Schedule, SetBackoff, Step
<1> QED  BY <1>1, <1>2, <1>3

LEMMA MainTypes ==
  ASSUME TypeOK, MainStep
  PROVE  /\ TypeOK' /\ UNCHANGED <<todo, world, work, link_up, scheduled>>
         /\ link_up_sem' \in {0, link_up_sem}
<1> USE DEF manager, world
<1>1. CASE LookAtLink  BY <1>1 DEF LookAtLink, TypeOK
<1>2. CASE TakeSem  BY <1>2 DEF TakeSem, TypeOK
<1>3. CASE WaitTimesOut  BY <1>3 DEF WaitTimesOut, TypeOK
<1> QED  BY <1>1, <1>2, <1>3 DEF MainStep

LEMMA WorldTypes ==
  ASSUME TypeOK, WorldStep
  PROVE  TypeOK' /\ UNCHANGED <<manager, work, todo, main>>
<1> USE DEF manager
<1>1. events \in Seq(Event)  BY DEF TypeOK
<1>2. CASE Joins
  <2>1. events' \in Seq(Event)  BY <1>1, <1>2, Raised DEF Joins, Event
  <2> QED  BY <1>2, <2>1 DEF Joins, TypeOK
<1>3. CASE JoinFails
  <2>1. events' \in Seq(Event)  BY <1>1, <1>3, Raised DEF JoinFails, Event
  <2> QED  BY <1>3, <2>1, Misbehaves DEF JoinFails, TypeOK
<1>4. CASE Binds
  <2>1. events' \in Seq(Event)  BY <1>1, <1>4, Raised DEF Binds, Event
  <2> QED  BY <1>4, <2>1 DEF Binds, TypeOK
<1>5. CASE LosesAddress
  <2>1. events' \in Seq(Event)  BY <1>1, <1>5, Raised DEF LosesAddress, Event
  <2> QED  BY <1>5, <2>1, Misbehaves DEF LosesAddress, TypeOK
<1>6. CASE LosesLink
  <2>1. \/ Raise(<<"disconnected", "address gone">>)
        \/ Raise(<<"address gone", "disconnected">>)
        \/ Raise(<<"disconnected">>)
    BY <1>6 DEF LosesLink
  <2>2. events' \in Seq(Event)
    BY <1>1, <2>1, Raised, RaisedTwo DEF Event
  <2> QED  BY <1>6, <2>2, Misbehaves DEF LosesLink, TypeOK
<1> QED  BY <1>2, <1>3, <1>4, <1>5, <1>6 DEF WorldStep

(***************************************************************************)
(* The token: only "give" makes one, with link_up set; "clear" is followed *)
(* by "reset".                                                             *)
(***************************************************************************)
LEMMA TokenStep ==
  ASSUME TokenIInv, [Next]_vars
  PROVE  TokenIInv'
<1> USE DEF TokenIInv
<1>1. CASE WorkStep
  BY <1>1, WorkTypes DEF TodoInv, TokenInv, TokenMeansUp, ToDo
<1>2. CASE MainStep
  BY <1>2, MainTypes DEF TodoInv, TokenInv, TokenMeansUp, ToDo
<1>3. CASE WorldStep
  BY <1>3, WorldTypes DEF TodoInv, TokenInv, TokenMeansUp, ToDo, manager
<1>4. CASE EventStep
  <2>1. TypeOK' /\ TodoInv'  BY <1>4, CallbackTypes
  <2>2. TokenInv'
    <3>1. CASE TakeEvent
      <4>1. ~ToDo("reset") /\ UNCHANGED <<link_up, link_up_sem>>
        BY <3>1 DEF TakeEvent, ToDo, manager
      <4>2. todo' # <<"give">>
        <5>1. todo' \in {<<"schedule", "double">>, <<"fresh">>,
                        <<"clear", "reset", "schedule">>, <<"set", "give">>,
                        <<"clear", "reset">>}
          BY <3>1, Started
        <5> QED  BY <5>1
      <4> QED  BY <4>1, <4>2 DEF TokenInv, TokenMeansUp
    <3>2. CASE SetLink /\ NextIs("set")
      <4>1. todo = <<"set", "give">>  BY <3>2, Taken DEF Step
      <4>2. link_up'
        BY <3>2, <4>1 DEF SetLink, NextIs
      <4> QED  BY <4>2 DEF TokenInv, TokenMeansUp
    <3>3. CASE SetLink /\ NextIs("clear")
      <4>1. todo' \in {<<"reset", "schedule">>, <<"reset">>}
        BY <3>3, Taken DEF Step
      <4>2. ToDo("reset")' /\ todo' # <<"give">>  BY <4>1 DEF ToDo
      <4> QED  BY <4>2 DEF TokenInv, TokenMeansUp
    <3>4. CASE Give
      <4>1. todo = <<"give">> /\ todo' = <<>>  BY <3>4, Taken DEF Give, Step
      <4>2. link_up' = link_up  BY <3>4 DEF Give
      <4> QED  BY <4>1, <4>2 DEF TokenInv, TokenMeansUp
    <3>5. CASE Reset
      <4>1. todo' \in {<<"schedule">>, <<>>}
        BY <3>5, Taken DEF Reset, Step
      <4>2. link_up_sem' = 0  BY <3>5 DEF Reset
      <4> QED  BY <4>1, <4>2 DEF TokenInv, TokenMeansUp
    <3>6. CASE Schedule \/ SetBackoff
      <4>1. ~ToDo("reset") /\ todo' \in {<<"double">>, <<>>}
        BY <3>6, Taken, Todos DEF Schedule, SetBackoff, Step
      <4>2. UNCHANGED <<link_up, link_up_sem>>
        BY <3>6 DEF Schedule, SetBackoff
      <4> QED  BY <4>1, <4>2 DEF TokenInv, TokenMeansUp
    <3> QED
      BY <1>4, <3>1, <3>2, <3>3, <3>4, <3>5, <3>6 DEF EventStep, SetLink
  <2> QED  BY <2>1, <2>2
<1>5. CASE UNCHANGED vars
  BY <1>5 DEF vars, manager, world, TypeOK, TodoInv, TokenInv, TokenMeansUp,
     ToDo
<1> QED  BY <1>1, <1>2, <1>3, <1>4, <1>5 DEF Next

LEMMA TokenInit ==
  ASSUME Init  PROVE TokenIInv
<1>1. TypeOK
  <2>1. backoff_ms \in InitialMs..MaxMs /\ trouble \in 0..Troubles
    BY BackoffAssumption DEF Init
  <2>2. todo \in Seq(Step) /\ events \in Seq(Event)  BY DEF Init
  <2>3. {link_up, scheduled, bound} \subseteq BOOLEAN  BY DEF Init
  <2>4. link_up_sem \in 0..1  BY DEF Init
  <2> QED  BY <2>1, <2>2, <2>3, <2>4, Zenon DEF Init, TypeOK
<1>2. TodoInv  BY DEF Init, TodoInv, Suffixes
<1>3. TokenInv  BY DEF Init, TokenInv, TokenMeansUp
<1> QED  BY <1>1, <1>2, <1>3 DEF TokenIInv

LEMMA TokenCorrect == Spec => []TokenIInv
<1> HIDE DEF TokenIInv
<1> QED  BY TokenInit, TokenStep, PTL DEF Spec

\* Every variable of wifi_connect.c and of its callers keeps its range:
\* the backoff stays between RECONNECT_INITIAL_MS and RECONNECT_MAX_MS.
THEOREM WifiTypeCorrect == Spec => []TypeOK
<1>1. TokenIInv => TypeOK  BY DEF TokenIInv
<1> QED  BY <1>1, TokenCorrect, PTL

(***************************************************************************)
(* A count in link_up_sem belongs to the link that is up, or is about to   *)
(* be taken back by the callback that cleared link_up.                     *)
(***************************************************************************)
THEOREM TokenAlwaysMeansUp == Spec => []TokenMeansUp
<1>1. TokenIInv => TokenMeansUp  BY DEF TokenIInv, TokenInv
<1> QED  BY <1>1, TokenCorrect, PTL

-----------------------------------------------------------------------------
(***************************************************************************)
(* The next attempt has exactly one owner while the driver is idle, and    *)
(* none while it is not: the timer, connect_work_fn(), an event that will  *)
(* ask for it, or the callback that is about to.                           *)
(***************************************************************************)
Retry(e)  == e \in {"connect failed", "disconnected"}
InEvents  == \E i \in 1..Len(events) : Retry(events[i])
AtWork    == work \in {"connect", "rejected"}
OnlyRetry == \A i, j \in 1..Len(events) :
               Retry(events[i]) /\ Retry(events[j]) => i = j

RetryInv ==
  /\ sta = "idle" => scheduled \/ AtWork \/ InEvents \/ ToDo("schedule")
  /\ scheduled => sta = "idle" /\ ~AtWork /\ ~InEvents /\ ~ToDo("schedule")
  /\ AtWork => sta = "idle" /\ ~InEvents /\ ~ToDo("schedule")
  /\ InEvents => sta = "idle" /\ ~ToDo("schedule")
  /\ ToDo("schedule") => sta = "idle"
  /\ OnlyRetry

RetryIInv == TypeOK /\ TodoInv /\ RetryInv

LEMMA SameEvents ==
  ASSUME UNCHANGED events
  PROVE  (InEvents' <=> InEvents) /\ (OnlyRetry' <=> OnlyRetry)
  BY DEF InEvents, OnlyRetry

LEMMA RaisedOther ==
  ASSUME events \in Seq(Event), OnlyRetry, NEW e \in Event, ~Retry(e),
         Raise(<<e>>)
  PROVE  (InEvents' <=> InEvents) /\ OnlyRetry'
<1>1. /\ Len(events) \in Nat /\ Len(events') = Len(events) + 1
      /\ \A i \in 1..Len(events) : events'[i] = events[i]
      /\ events'[Len(events) + 1] = e
  BY Raised
<1>2. ASSUME NEW i \in 1..Len(events'), Retry(events'[i])
      PROVE  i \in 1..Len(events) /\ Retry(events[i])
  <2>1. i # Len(events) + 1
    BY <1>1, <1>2
  <2>2. i \in 1..Len(events)
    BY <1>1, <2>1
  <2> QED
    BY <1>1, <1>2, <2>2
<1>3. ASSUME NEW i \in 1..Len(events), Retry(events[i])
      PROVE  i \in 1..Len(events') /\ Retry(events'[i])
  <2>1. i \in 1..Len(events') /\ events'[i] = events[i]
    BY <1>1
  <2> QED
    BY <1>3, <2>1
<1>4. InEvents' <=> InEvents
  BY <1>2, <1>3 DEF InEvents
<1>5. OnlyRetry'
  BY <1>2 DEF OnlyRetry
<1> QED
  BY <1>4, <1>5

LEMMA RaisedRetry ==
  ASSUME events \in Seq(Event), ~InEvents, NEW e \in Event, Retry(e),
         Raise(<<e>>)
  PROVE  InEvents' /\ OnlyRetry'
  BY Raised DEF InEvents, OnlyRetry

LEMMA RaisedBoth ==
  ASSUME events \in Seq(Event), ~InEvents, NEW e \in Event, NEW f \in Event,
         Retry(e) <=> ~Retry(f), Raise(<<e, f>>)
  PROVE  InEvents' /\ OnlyRetry'
<1> DEFINE n == Len(events)
<1>1. /\ n \in Nat /\ Len(events') = n + 2
      /\ \A i \in 1..n : ~Retry(events'[i])
      /\ events'[n + 1] = e /\ events'[n + 2] = f
  BY RaisedTwo DEF InEvents
<1>2. \A i \in 1..Len(events') : i \in 1..n \/ i = n + 1 \/ i = n + 2
  BY <1>1
<1>3. n + 1 \in 1..Len(events') /\ n + 2 \in 1..Len(events')  BY <1>1
<1> HIDE DEF n
<1>4. CASE Retry(e)
  <2>1. \A i \in 1..Len(events') : Retry(events'[i]) => i = n + 1
    BY <1>1, <1>2, <1>4
  <2> QED  BY <2>1, <1>1, <1>3, <1>4 DEF InEvents, OnlyRetry
<1>5. CASE Retry(f)
  <2>1. \A i \in 1..Len(events') : Retry(events'[i]) => i = n + 2
    BY <1>1, <1>2, <1>5
  <2> QED  BY <2>1, <1>1, <1>3, <1>5 DEF InEvents, OnlyRetry
<1> QED  BY <1>4, <1>5

LEMMA TakenRetry ==
  ASSUME TypeOK, OnlyRetry, TakeEvent
  PROVE  /\ OnlyRetry'
         /\ Retry(Head(events)) => InEvents /\ ~InEvents'
         /\ ~Retry(Head(events)) => (InEvents' <=> InEvents)
<1>1. /\ events' \in Seq(Event) /\ Len(events') = Len(events) - 1
      /\ Len(events) > 0 /\ Head(events) = events[1]
      /\ \A i \in 1..Len(events') : events'[i] = events[i + 1]
  BY Shifted DEF TypeOK, TakeEvent
<1>2. Len(events) \in Nat /\ Len(events') \in Nat  BY <1>1 DEF TypeOK
<1>3. \A i \in 1..Len(events') : i + 1 \in 1..Len(events)  BY <1>1, <1>2
<1>4. OnlyRetry'
  BY <1>1, <1>2, <1>3 DEF OnlyRetry
<1>5. Retry(Head(events)) => InEvents /\ ~InEvents'
  BY <1>1, <1>2, <1>3 DEF OnlyRetry, InEvents
<1>6. ASSUME ~Retry(Head(events))  PROVE InEvents' <=> InEvents
  <2>1. InEvents' => InEvents  BY <1>1, <1>3 DEF InEvents
  <2>2. ASSUME InEvents  PROVE InEvents'
    <3>1. PICK i \in 1..Len(events) : Retry(events[i])  BY <2>2 DEF InEvents
    <3>2. i # 1  BY <3>1, <1>1, <1>6
    <3>3. i - 1 \in 1..Len(events') /\ (i - 1) + 1 = i  BY <3>2, <1>1, <1>2
    <3>4. events'[i - 1] = events[i]  BY <3>3, <1>1
    <3> QED  BY <3>1, <3>3, <3>4 DEF InEvents
  <2> QED  BY <2>1, <2>2
<1> QED  BY <1>4, <1>5, <1>6

LEMMA RetryStep ==
  ASSUME RetryIInv, [Next]_vars
  PROVE  RetryIInv'
<1> USE DEF RetryIInv
<1>0. events \in Seq(Event)  BY DEF TypeOK
<1>1. CASE WorkStep
  <2>1. /\ TypeOK' /\ UNCHANGED <<todo, events>>
        /\ (ToDo("schedule")' <=> ToDo("schedule"))
    BY <1>1, WorkTypes DEF ToDo
  <2>2. (InEvents' <=> InEvents) /\ OnlyRetry'
    BY <2>1, SameEvents DEF RetryInv
  <2>3. TodoInv'  BY <2>1 DEF TodoInv, Suffixes
  <2>4. RetryInv'
    <3>1. CASE WorkRuns
      BY <2>1, <2>2, <3>1 DEF WorkRuns, RetryInv, AtWork, world
    <3>2. CASE NoInterface
      BY <2>1, <2>2, <3>2 DEF NoInterface, RetryInv, AtWork
    <3>3. CASE ConnectAccepted
      BY <2>1, <2>2, <3>3 DEF ConnectAccepted, RetryInv, AtWork, manager
    <3>4. CASE ConnectReturns
      BY <2>1, <2>2, <3>4 DEF ConnectReturns, RetryInv, AtWork, manager, world
    <3>5. CASE ConnectRejected
      BY <2>1, <2>2, <3>5 DEF ConnectRejected, RetryInv, AtWork, manager
    <3>6. CASE RetryLater
      BY <2>1, <2>2, <3>6 DEF RetryLater, RetryInv, AtWork, world
    <3>7. CASE RetrySlower
      BY <2>1, <2>2, <3>7 DEF RetrySlower, RetryInv, AtWork, world
    <3> QED
      BY <1>1, <3>1, <3>2, <3>3, <3>4, <3>5, <3>6, <3>7 DEF WorkStep
  <2> QED  BY <2>1, <2>3, <2>4
<1>2. CASE EventStep
  <2>1. TypeOK' /\ TodoInv' /\ UNCHANGED <<sta, work>>  BY <1>2, CallbackTypes
  <2>2. CASE TakeEvent
    <3>1. UNCHANGED scheduled /\ ~ToDo("schedule")
      BY <2>2 DEF TakeEvent, manager, ToDo
    <3>2. ToDo("schedule")' <=> Retry(Head(events))
      <4>1. CASE Retry(Head(events))
        <5>1. todo' \in {<<"schedule", "double">>,
                         <<"clear", "reset", "schedule">>}
          BY <2>2, <4>1, Started DEF Retry
        <5> QED  BY <4>1, <5>1 DEF ToDo
      <4>2. CASE ~Retry(Head(events))
        <5>1. todo' \in {<<"fresh">>, <<"set", "give">>, <<"clear", "reset">>}
          BY <2>2, <4>2, Started DEF Retry
        <5> QED  BY <4>2, <5>1 DEF ToDo
      <4> QED  BY <4>1, <4>2
    <3> QED
      BY <2>1, <2>2, <3>1, <3>2, TakenRetry DEF RetryInv, AtWork
  <2>3. CASE Schedule
    <3>1. ToDo("schedule") /\ ~ToDo("schedule")'
      <4>1. \/ todo = <<"schedule", "double">> /\ todo' = <<"double">>
            \/ todo = <<"schedule">> /\ todo' = <<>>
        BY <2>3, Taken DEF Schedule, Step
      <4> QED  BY <4>1 DEF ToDo
    <3>2. (InEvents' <=> InEvents) /\ OnlyRetry' /\ scheduled'
      BY <2>3, SameEvents DEF Schedule, world, RetryInv
    <3> QED  BY <2>1, <3>1, <3>2 DEF RetryInv, AtWork
  <2>4. CASE SetLink \/ Give \/ Reset \/ SetBackoff
    <3>1. ToDo("schedule")' <=> ToDo("schedule")
      <4>1. \/ todo = <<"double">> /\ todo' = <<>>
            \/ todo = <<"fresh">> /\ todo' = <<>>
            \/ /\ todo = <<"clear", "reset", "schedule">>
               /\ todo' = <<"reset", "schedule">>
            \/ todo = <<"clear", "reset">> /\ todo' = <<"reset">>
            \/ todo = <<"reset", "schedule">> /\ todo' = <<"schedule">>
            \/ todo = <<"reset">> /\ todo' = <<>>
            \/ todo = <<"set", "give">> /\ todo' = <<"give">>
            \/ todo = <<"give">> /\ todo' = <<>>
        BY <2>4, Taken DEF SetLink, Give, Reset, SetBackoff, Step
      <4> QED  BY <4>1 DEF ToDo
    <3>2. UNCHANGED <<scheduled, events>>
      BY <2>4 DEF SetLink, Give, Reset, SetBackoff, world
    <3> QED  BY <2>1, <3>1, <3>2, SameEvents DEF RetryInv, AtWork
  <2> QED  BY <1>2, <2>2, <2>3, <2>4 DEF EventStep
<1>3. CASE WorldStep
  <2>1. /\ TypeOK' /\ UNCHANGED <<scheduled, work, todo>>
        /\ (ToDo("schedule")' <=> ToDo("schedule"))
    BY <1>3, WorldTypes DEF ToDo, manager
  <2>2. CASE Joins
    BY <1>0, <2>1, <2>2, RaisedOther
    DEF Joins, Event, Retry, RetryInv, AtWork, TodoInv
  <2>3. CASE JoinFails
    BY <1>0, <2>1, <2>3, RaisedRetry
    DEF JoinFails, Event, Retry, RetryInv, AtWork, TodoInv
  <2>4. CASE Binds
    BY <1>0, <2>1, <2>4, RaisedOther
    DEF Binds, Event, Retry, RetryInv, AtWork, TodoInv
  <2>5. CASE LosesAddress
    BY <1>0, <2>1, <2>5, RaisedOther
    DEF LosesAddress, Event, Retry, RetryInv, AtWork, TodoInv
  <2>6. CASE LosesLink
    <3>1. sta = "joined" /\ sta' = "idle"  BY <2>6 DEF LosesLink
    <3>2. \/ Raise(<<"disconnected", "address gone">>)
          \/ Raise(<<"address gone", "disconnected">>)
          \/ Raise(<<"disconnected">>)
      BY <2>6 DEF LosesLink
    <3>3. ~InEvents /\ ~AtWork /\ ~scheduled /\ ~ToDo("schedule")
      BY <3>1 DEF RetryInv
    <3>4. InEvents' /\ OnlyRetry'
      BY <1>0, <3>2, <3>3, RaisedRetry, RaisedBoth DEF Event, Retry
    <3> QED  BY <2>1, <3>1, <3>3, <3>4 DEF RetryInv, AtWork, TodoInv
  <2> QED  BY <1>3, <2>2, <2>3, <2>4, <2>5, <2>6 DEF WorldStep
<1>4. CASE MainStep \/ UNCHANGED vars
  <2>1. TypeOK' /\ UNCHANGED <<todo, scheduled, work, sta, events>>
    BY <1>4, MainTypes DEF vars, manager, world, TypeOK
  <2>2. ToDo("schedule")' <=> ToDo("schedule")  BY <2>1 DEF ToDo
  <2> QED  BY <2>1, <2>2, SameEvents DEF RetryInv, AtWork, TodoInv
<1> QED  BY <1>1, <1>2, <1>3, <1>4 DEF Next

LEMMA RetryCorrect == Spec => []RetryIInv
<1>1. Init => RetryInv
  BY DEF Init, RetryInv, AtWork, InEvents, OnlyRetry, ToDo
<1>2. TokenIInv /\ RetryInv => RetryIInv  BY DEF TokenIInv, RetryIInv
<1>3. Init => TokenIInv  BY TokenInit
<1> HIDE DEF RetryIInv
<1> QED  BY <1>1, <1>2, <1>3, RetryStep, PTL DEF Spec

(***************************************************************************)
(* However rejections, failures and losses fall, an idle driver has an     *)
(* attempt under way or on its way.                                        *)
(***************************************************************************)
THEOREM NeverEverStranded == Spec => []NeverStranded
<1>1. RetryIInv => NeverStranded
  <2> SUFFICES ASSUME RetryIInv, sta = "idle", ~scheduled, ~AtWork,
                      ~ToDo("schedule")
               PROVE  \/ Outstanding("connect failed")
                      \/ Outstanding("disconnected")
    BY DEF NeverStranded, AtWork
  <2>1. PICK i \in 1..Len(events) : Retry(events[i])
    BY DEF RetryIInv, RetryInv, InEvents
  <2>2. i \in DOMAIN events  BY <2>1 DEF RetryIInv, TypeOK
  <2> QED  BY <2>1, <2>2 DEF Retry, Outstanding
<1> QED  BY <1>1, RetryCorrect, PTL

(***************************************************************************)
(* The paths that schedule a retry never add up: connect_work_fn() asks    *)
(* for a link only while there is none and none is being set up.           *)
(***************************************************************************)
THEOREM OnlyEverOneAttempt == Spec => []OneAttempt
<1>1. RetryIInv => OneAttempt
  BY DEF RetryIInv, RetryInv, OneAttempt, AtWork
<1> QED  BY <1>1, RetryCorrect, PTL

-----------------------------------------------------------------------------
(***************************************************************************)
(* Who may touch backoff_ms.  A success that is still to be handled means  *)
(* that the station is joined, or that the loss of this very link comes    *)
(* behind it in the queue: there is no attempt then.  A callback that has  *)
(* asked for one doubles before the delay is over, and connect_work_fn()   *)
(* doubles while its own retry is scheduled.                               *)
(***************************************************************************)
Came   == \E i \in 1..Len(events) : events[i] = "connected"
Before == \A i, j \in 1..Len(events) :
            events[i] = "connected" /\ Retry(events[j]) => i < j

BackoffInv ==
  /\ work = "double" => scheduled
  /\ ToDo("double") => work \in {"idle", "accepted"}
  /\ ToDo("fresh") => sta = "joined" \/ InEvents
  /\ Came => sta = "joined" \/ InEvents
  /\ Before

LEMMA SameOrder ==
  ASSUME UNCHANGED events
  PROVE  (Came' <=> Came) /\ (Before' <=> Before)
  BY DEF Came, Before

LEMMA RaisedOrder ==
  ASSUME events \in Seq(Event), Before, NEW e \in Event, Raise(<<e>>),
         e = "connected" => ~InEvents
  PROVE  Before' /\ (Came' => Came \/ e = "connected")
         /\ (InEvents => InEvents')
<1>1. /\ Len(events) \in Nat /\ Len(events') = Len(events) + 1
      /\ \A i \in 1..Len(events) : events'[i] = events[i]
      /\ events'[Len(events) + 1] = e
  BY Raised
<1>2. \A i \in 1..Len(events') : i \in 1..Len(events) \/ i = Len(events) + 1
  BY <1>1
<1>3. ASSUME NEW i \in 1..Len(events'), NEW j \in 1..Len(events'),
             events'[i] = "connected", Retry(events'[j])
      PROVE  i < j
  <2>1. CASE i = Len(events) + 1
    <3>1. e = "connected" /\ ~InEvents
      BY <1>1, <1>3, <2>1
    <3>2. j \in 1..Len(events)
      BY <1>1, <1>2, <1>3, <3>1 DEF Retry
    <3> QED
      BY <1>1, <1>3, <3>1, <3>2 DEF InEvents
  <2>2. CASE i \in 1..Len(events) /\ j = Len(events) + 1
    BY <1>1, <2>2
  <2>3. CASE i \in 1..Len(events) /\ j \in 1..Len(events)
    BY <1>1, <1>3, <2>3 DEF Before
  <2> QED
    BY <1>2, <2>1, <2>2, <2>3
<1>4. Before'
  BY <1>3 DEF Before
<1>5. Came' => Came \/ e = "connected"
  BY <1>1, <1>2 DEF Came
<1>6. InEvents => InEvents'
  <2> SUFFICES ASSUME NEW i \in 1..Len(events), Retry(events[i])
               PROVE  InEvents'
    BY DEF InEvents
  <2>1. i \in 1..Len(events') /\ events'[i] = events[i]
    BY <1>1
  <2> QED
    BY <2>1 DEF InEvents
<1> QED
  BY <1>4, <1>5, <1>6

LEMMA RaisedOrderTwo ==
  ASSUME events \in Seq(Event), Before, NEW e \in Event, NEW f \in Event,
         Raise(<<e, f>>), e # "connected", f # "connected"
  PROVE  Before'
<1>1. /\ Len(events) \in Nat /\ Len(events') = Len(events) + 2
      /\ \A i \in 1..Len(events) : events'[i] = events[i]
      /\ events'[Len(events) + 1] = e /\ events'[Len(events) + 2] = f
  BY RaisedTwo
<1>2. \A i \in 1..Len(events') :
        \/ i \in 1..Len(events)
        \/ i = Len(events) + 1 \/ i = Len(events) + 2
  BY <1>1
<1>3. ASSUME NEW i \in 1..Len(events'), NEW j \in 1..Len(events'),
             events'[i] = "connected", Retry(events'[j])
      PROVE  i < j
  <2>1. i \in 1..Len(events)
    BY <1>1, <1>2, <1>3
  <2>2. CASE j \in 1..Len(events)
    BY <1>1, <1>3, <2>1, <2>2 DEF Before
  <2>3. CASE j \notin 1..Len(events)
    BY <1>1, <1>2, <2>1, <2>3
  <2> QED
    BY <2>2, <2>3
<1> QED
  BY <1>3 DEF Before

LEMMA TakenOrder ==
  ASSUME TypeOK, Before, TakeEvent
  PROVE  /\ Before' /\ (Came' => Came /\ ~Retry(Head(events)))
         /\ Head(events) = "connected" => Came
<1>1. /\ events' \in Seq(Event) /\ Len(events') = Len(events) - 1
      /\ Len(events) > 0 /\ Head(events) = events[1]
      /\ \A i \in 1..Len(events') : events'[i] = events[i + 1]
  BY Shifted DEF TypeOK, TakeEvent
<1>2. Len(events) \in Nat /\ Len(events') \in Nat  BY <1>1 DEF TypeOK
<1>3. \A i \in 1..Len(events') : i + 1 \in 1..Len(events)  BY <1>1, <1>2
<1>4. ASSUME NEW i \in 1..Len(events'), NEW j \in 1..Len(events'),
             events'[i] = "connected", Retry(events'[j])
      PROVE  i < j
  <2>1. i + 1 < j + 1
    BY <1>1, <1>3, <1>4 DEF Before
  <2> QED
    BY <2>1
<1>5. Before'
  BY <1>4 DEF Before
<1>6. ASSUME NEW i \in 1..Len(events'), events'[i] = "connected"
      PROVE  Came /\ ~Retry(Head(events))
  <2>1. i + 1 \in 1..Len(events) /\ events[i + 1] = "connected"
    BY <1>1, <1>3, <1>6
  <2>2. 1 \in 1..Len(events) /\ ~(i + 1 < 1)
    BY <1>1, <1>2
  <2> QED
    BY <1>1, <2>1, <2>2 DEF Came, Before
<1>7. Head(events) = "connected" => Came
  <2>1. 1 \in 1..Len(events)
    BY <1>1, <1>2
  <2> QED
    BY <1>1, <2>1 DEF Came
<1> QED
  BY <1>5, <1>6, <1>7 DEF Came

LEMMA BackoffStep ==
  ASSUME RetryIInv, RetryIInv', BackoffInv, [Next]_vars
  PROVE  BackoffInv'
<1>0. events \in Seq(Event) /\ TypeOK /\ TodoInv /\ RetryInv
  BY DEF RetryIInv, TypeOK
<1> USE DEF BackoffInv
<1>1. CASE WorkStep
  <2>1. /\ UNCHANGED <<todo, events>>
        /\ (ToDo("double")' <=> ToDo("double"))
        /\ (ToDo("fresh")' <=> ToDo("fresh"))
    BY <1>0, <1>1, WorkTypes DEF ToDo
  <2>2. (InEvents' <=> InEvents) /\ (Came' <=> Came) /\ (Before' <=> Before)
    BY <2>1, SameEvents, SameOrder
  <2>3. CASE WorkRuns
    BY <2>1, <2>2, <2>3 DEF WorkRuns, world
  <2>4. CASE NoInterface
    BY <2>1, <2>2, <2>4 DEF NoInterface
  <2>5. CASE ConnectAccepted
    BY <1>0, <2>1, <2>2, <2>5 DEF ConnectAccepted, manager, RetryInv, AtWork
  <2>6. CASE ConnectReturns
    BY <2>1, <2>2, <2>6 DEF ConnectReturns, manager, world
  <2>7. CASE ConnectRejected
    BY <2>1, <2>2, <2>7 DEF ConnectRejected, manager
  <2>8. CASE RetryLater
    BY <2>1, <2>2, <2>8 DEF RetryLater, world
  <2>9. CASE RetrySlower
    BY <2>1, <2>2, <2>9 DEF RetrySlower, world
  <2> QED
    BY <1>1, <2>3, <2>4, <2>5, <2>6, <2>7, <2>8, <2>9 DEF WorkStep
<1>2. CASE EventStep
  <2>1. UNCHANGED <<sta, work>>  BY <1>0, <1>2, CallbackTypes
  <2>2. CASE TakeEvent
    <3>1. UNCHANGED scheduled  BY <2>2 DEF TakeEvent, manager
    <3>2. /\ ToDo("double")' => Head(events) = "connect failed"
          /\ ToDo("fresh")' => Head(events) = "connected"
      <4>1. todo' = <<"schedule", "double">> => ~ToDo("fresh")'
        BY DEF ToDo
      <4>2. todo' = <<"fresh">> => ~ToDo("double")'
        BY DEF ToDo
      <4>3. todo' \in {<<"clear", "reset", "schedule">>,
                      <<"set", "give">>, <<"clear", "reset">>}
            => ~ToDo("fresh")' /\ ~ToDo("double")'
        BY DEF ToDo
      <4>4. \/ /\ Head(events) = "connect failed"
               /\ todo' = <<"schedule", "double">>
            \/ Head(events) = "connected" /\ todo' = <<"fresh">>
            \/ todo' \in {<<"clear", "reset", "schedule">>,
                          <<"set", "give">>, <<"clear", "reset">>}
        BY <1>0, <2>2, Started, Zenon
      <4> QED
        BY <4>1, <4>2, <4>3, <4>4, Zenon
    <3>3. /\ Before' /\ (Came' => Came /\ ~Retry(Head(events)))
          /\ Head(events) = "connected" => Came
      BY <1>0, <2>2, TakenOrder
    <3>4. /\ Retry(Head(events)) => InEvents
          /\ ~Retry(Head(events)) => (InEvents' <=> InEvents)
      BY <1>0, <2>2, TakenRetry DEF RetryInv
    <3>5. ToDo("double")' => work \in {"idle", "accepted"}
      <4>1. ToDo("double")' => InEvents
        BY <3>2, <3>4 DEF Retry
      <4>2. InEvents => ~AtWork /\ ~scheduled
        BY <1>0 DEF RetryInv
      <4> QED
        BY <1>0, <4>1, <4>2 DEF AtWork, TypeOK
    <3>6. ToDo("fresh")' => sta = "joined" \/ InEvents'
      BY <3>2, <3>3, <3>4 DEF Retry
    <3>7. Came' => sta = "joined" \/ InEvents'
      BY <3>3, <3>4
    <3> QED
      BY <2>1, <3>1, <3>3, <3>5, <3>6, <3>7
  <2>3. CASE SetLink \/ Give \/ Reset \/ Schedule \/ SetBackoff
    <3>1. UNCHANGED events /\ (scheduled => scheduled')
      BY <2>3 DEF SetLink, Give, Reset, Schedule, SetBackoff, world
    <3>2. (InEvents' <=> InEvents) /\ (Came' <=> Came) /\ (Before' <=> Before)
      BY <3>1, SameEvents, SameOrder
    <3>3. (ToDo("double")' => ToDo("double")) /\ ~ToDo("fresh")'
      <4>1. \/ todo = <<"schedule", "double">> /\ todo' = <<"double">>
            \/ todo' \in {<<>>, <<"reset", "schedule">>, <<"reset">>,
                          <<"schedule">>, <<"give">>}
        BY <1>0, <2>3, Taken
           DEF SetLink, Give, Reset, Schedule, SetBackoff, Step
      <4> QED
        BY <4>1 DEF ToDo
    <3> QED
      BY <2>1, <3>1, <3>2, <3>3
  <2> QED
    BY <1>2, <2>2, <2>3 DEF EventStep
<1>3. CASE WorldStep
  <2>1. /\ UNCHANGED <<scheduled, work, todo>>
        /\ (ToDo("double")' <=> ToDo("double"))
        /\ (ToDo("fresh")' <=> ToDo("fresh"))
    BY <1>0, <1>3, WorldTypes DEF ToDo, manager
  <2>2. CASE Joins
    <3>1. sta = "joining" /\ ~InEvents
      BY <1>0, <2>2 DEF Joins, RetryInv
    <3>2. Before'
      BY <1>0, <2>2, <3>1, RaisedOrder DEF Joins, Event
    <3> QED
      BY <2>1, <2>2, <3>2 DEF Joins
  <2>3. CASE JoinFails
    <3>1. sta = "joining" /\ ~InEvents
      BY <1>0, <2>3 DEF JoinFails, RetryInv
    <3>2. Before' /\ InEvents'
      BY <1>0, <2>3, <3>1, RaisedOrder, RaisedRetry
         DEF JoinFails, Event, Retry
    <3> QED
      BY <2>1, <3>2
  <2>4. CASE Binds
    <3>1. sta' = "joined"
      BY <2>4 DEF Binds
    <3>2. Before'
      BY <1>0, <2>4, RaisedOrder DEF Binds, Event
    <3> QED
      BY <2>1, <3>1, <3>2
  <2>5. CASE LosesAddress
    <3>1. UNCHANGED sta
      BY <2>5 DEF LosesAddress
    <3>2. Before' /\ (Came' => Came) /\ (InEvents => InEvents')
      BY <1>0, <2>5, RaisedOrder DEF LosesAddress, Event
    <3> QED
      BY <2>1, <3>1, <3>2
  <2>6. CASE LosesLink
    <3>1. \/ Raise(<<"disconnected", "address gone">>)
          \/ Raise(<<"address gone", "disconnected">>)
          \/ Raise(<<"disconnected">>)
      BY <2>6 DEF LosesLink
    <3>2. ~InEvents
      BY <1>0, <2>6 DEF LosesLink, RetryInv
    <3>3. InEvents'
      BY <1>0, <3>1, <3>2, RaisedRetry, RaisedBoth DEF Event, Retry
    <3>4. Before'
      BY <1>0, <3>1, RaisedOrder, RaisedOrderTwo DEF Event
    <3> QED
      BY <2>1, <3>3, <3>4
  <2> QED
    BY <1>3, <2>2, <2>3, <2>4, <2>5, <2>6 DEF WorldStep
<1>4. CASE MainStep \/ UNCHANGED vars
  <2>1. UNCHANGED <<todo, scheduled, work, sta, events>>
    BY <1>0, <1>4, MainTypes DEF vars, manager, world
  <2>2. /\ (ToDo("double")' <=> ToDo("double"))
        /\ (ToDo("fresh")' <=> ToDo("fresh"))
    BY <2>1 DEF ToDo
  <2> QED
    BY <2>1, <2>2, SameEvents, SameOrder
<1> QED
  BY <1>1, <1>2, <1>3, <1>4 DEF Next

(***************************************************************************)
(* backoff_ms needs no lock: while connect_work_fn() uses it, no callback  *)
(* that reads or writes it is under way.                                   *)
(***************************************************************************)
THEOREM BackoffAlwaysUnshared == Spec => []BackoffUnshared
<1>1. Init => BackoffInv
  BY DEF Init, BackoffInv, Came, Before, ToDo
<1>2. RetryIInv /\ BackoffInv => BackoffUnshared
  <2> SUFFICES ASSUME RetryIInv, BackoffInv,
                      work \in {"connect", "rejected", "double"}
               PROVE  ~ToDo("schedule") /\ ~ToDo("double") /\ ~ToDo("fresh")
    BY DEF BackoffUnshared
  <2>1. scheduled \/ AtWork
    BY DEF BackoffInv, AtWork
  <2>2. sta = "idle" /\ ~InEvents /\ ~ToDo("schedule")
    BY <2>1 DEF RetryIInv, RetryInv
  <2> QED
    BY <2>2 DEF BackoffInv
<1> HIDE DEF RetryIInv, BackoffInv
<1>3. RetryIInv /\ RetryIInv' /\ BackoffInv /\ [Next]_vars => BackoffInv'
  BY BackoffStep
<1> QED
  BY <1>1, <1>2, <1>3, RetryCorrect, PTL DEF Spec

-----------------------------------------------------------------------------
(***************************************************************************)
(* The last event that speaks of the address tells whether it is bound; if *)
(* there is none, the callback that handled it does, or link_up itself.    *)
(***************************************************************************)
Address(e) == e \in {"address added", "address gone", "disconnected"}
Told(i)    == /\ Address(events[i])
              /\ \A j \in 1..Len(events) : j > i => ~Address(events[j])
              /\ bound = TRUE <=> events[i] = "address added"
Tells      == \E i \in 1..Len(events) : Told(i)
Silent     == \A i \in 1..Len(events) : ~Address(events[i])

Handled == /\ ToDo("set") => bound = TRUE
           /\ ToDo("clear") => bound = FALSE
           /\ ~ToDo("set") /\ ~ToDo("clear") => link_up = bound

AddressInv  == Tells \/ (Silent /\ Handled)
AddressIInv == TypeOK /\ TodoInv /\ AddressInv

LEMMA SameTold ==
  ASSUME UNCHANGED <<events, bound>>
  PROVE  (Tells' <=> Tells) /\ (Silent' <=> Silent)
  BY DEF Tells, Told, Silent

LEMMA NowTold ==
  ASSUME NEW i \in 1..Len(events'), Address(events'[i]),
         \A j \in 1..Len(events') : j > i => ~Address(events'[j]),
         bound' = TRUE <=> events'[i] = "address added"
  PROVE  Tells'
  BY DEF Tells, Told

LEMMA RaisedSilent ==
  ASSUME events \in Seq(Event), NEW e \in Event, ~Address(e), Raise(<<e>>),
         UNCHANGED bound
  PROVE  (Tells => Tells') /\ (Silent => Silent')
<1>1. /\ Len(events) \in Nat /\ Len(events') = Len(events) + 1
      /\ events'[Len(events) + 1] = e
      /\ \A i \in 1..Len(events) : events'[i] = events[i]
  BY Raised
<1>2. \A i \in 1..Len(events') : i \in 1..Len(events) \/ i = Len(events) + 1
  BY <1>1
<1>3. Silent => Silent'  BY <1>1, <1>2 DEF Silent
<1>4. ASSUME NEW i \in 1..Len(events), Told(i)  PROVE Tells'
  <2>1. i \in 1..Len(events')  BY <1>1
  <2>4. Address(events'[i])  BY <1>1, <1>4 DEF Told
  <2>2. \A j \in 1..Len(events') : j > i => ~Address(events'[j])
    BY <1>1, <1>2, <1>4 DEF Told
  <2>3. bound' = TRUE <=> events'[i] = "address added"  BY <1>1, <1>4 DEF Told
  <2> QED  BY <2>1, <2>2, <2>3, <2>4, NowTold
<1> QED  BY <1>3, <1>4 DEF Tells

LEMMA LastRaised ==
  ASSUME events \in Seq(Event), NEW e \in Event, Raise(<<e>>)
  PROVE  \E k \in 1..Len(events') :
           events'[k] = e /\ \A j \in 1..Len(events') : ~(j > k)
<1>1. /\ Len(events) \in Nat /\ Len(events') = Len(events) + 1
      /\ events'[Len(events) + 1] = e
  BY Raised
<1> QED  BY <1>1

LEMMA LastRaisedTwo ==
  ASSUME events \in Seq(Event), NEW e \in Event, NEW f \in Event,
         Raise(<<e, f>>)
  PROVE  \E k \in 1..Len(events') :
           events'[k] = f /\ \A j \in 1..Len(events') : ~(j > k)
<1>1. /\ Len(events) \in Nat /\ Len(events') = Len(events) + 2
      /\ events'[Len(events) + 2] = f
  BY RaisedTwo
<1> QED  BY <1>1

LEMMA RaisedAddress ==
  ASSUME events \in Seq(Event), NEW e \in Event, Address(e), Raise(<<e>>),
         bound' = TRUE <=> e = "address added"
  PROVE  Tells'
<1>1. PICK k \in 1..Len(events') :
        events'[k] = e /\ \A j \in 1..Len(events') : ~(j > k)
  BY LastRaised, Zenon
<1> QED  BY <1>1, NowTold, Zenon

LEMMA RaisedGone ==
  ASSUME events \in Seq(Event), NEW e \in Event, NEW f \in Event, Address(f),
         f # "address added", Raise(<<e, f>>), bound' = FALSE
  PROVE  Tells'
<1>1. PICK k \in 1..Len(events') :
        events'[k] = f /\ \A j \in 1..Len(events') : ~(j > k)
  BY LastRaisedTwo, Zenon
<1>2. bound' = TRUE <=> events'[k] = "address added"  BY <1>1, Zenon
<1> QED  BY <1>1, <1>2, NowTold, Zenon

LEMMA TakenAddress ==
  ASSUME TypeOK, TakeEvent
  PROVE  /\ Silent => Silent' /\ ~Address(Head(events))
         /\ Tells => \/ Tells'
                     \/ /\ Silent' /\ Address(Head(events))
                        /\ bound = TRUE <=> Head(events) = "address added"
<1>1. /\ Len(events') = Len(events) - 1
      /\ Len(events) > 0 /\ Head(events) = events[1]
      /\ \A i \in 1..Len(events') : events'[i] = events[i + 1]
  BY Shifted DEF TypeOK, TakeEvent
<1>2. Len(events) \in Nat /\ Len(events') \in Nat
  BY <1>1 DEF TypeOK
<1>3. \A i \in 1..Len(events') : i + 1 \in 1..Len(events)  BY <1>1, <1>2
<1>4. Silent => Silent' /\ ~Address(Head(events))
  BY <1>1, <1>2, <1>3 DEF Silent
<1>5. ASSUME Tells
      PROVE  \/ Tells'
             \/ /\ Silent' /\ Address(Head(events))
                /\ bound = TRUE <=> Head(events) = "address added"
  <2>1. PICK i \in 1..Len(events) : Told(i)  BY <1>5 DEF Tells
  <2>2. /\ Address(events[i])
        /\ \A j \in 1..Len(events) : j > i => ~Address(events[j])
    BY <2>1, Zenon DEF Told
  <2>3. CASE i = 1
    <3>1. \A j \in 1..Len(events') : j + 1 > 1  BY <1>2
    <3>2. \A j \in 1..Len(events') : ~Address(events'[j])
      BY <1>1, <1>3, <2>2, <2>3, <3>1
    <3>3. Silent'  BY <3>2 DEF Silent
    <3>4. /\ Address(Head(events))
          /\ bound = TRUE <=> Head(events) = "address added"
      BY <1>1, <2>1, <2>3, Zenon DEF Told
    <3> QED  BY <3>3, <3>4
  <2>4. CASE i # 1
    <3>1. PICK k \in 1..Len(events') : k = i - 1 /\ k + 1 = i
      BY <1>1, <1>2, <2>4
    <3>2. events'[k] = events[i]  BY <1>1, <3>1
    <3>3. \A j \in 1..Len(events') : j > k => j + 1 > i  BY <3>1, <1>2
    <3>4. \A j \in 1..Len(events') : j > k => ~Address(events'[j])
      BY <1>1, <1>3, <2>2, <3>3
    <3>5. Address(events'[k])  BY <2>2, <3>2
    <3>6. bound' = TRUE <=> events'[k] = "address added"
      <4>1. bound' = bound  BY DEF TakeEvent
      <4>2. bound = TRUE <=> events[i] = "address added"  BY <2>1, Zenon DEF Told
      <4> QED  BY <4>1, <4>2, <3>2, Zenon
    <3> QED  BY <3>4, <3>5, <3>6, NowTold, Zenon
  <2> QED  BY <2>3, <2>4
<1> QED  BY <1>4, <1>5

LEMMA AddressKept ==
  ASSUME AddressInv, UNCHANGED <<events, bound, todo, link_up>>
  PROVE  AddressInv'
<1>1. Handled => Handled'  BY DEF Handled, ToDo
<1> QED  BY <1>1, SameTold DEF AddressInv

LEMMA AddressStep ==
  ASSUME AddressIInv, [Next]_vars
  PROVE  AddressIInv'
<1> USE DEF AddressIInv
<1>0. events \in Seq(Event) /\ bound \in BOOLEAN /\ link_up \in BOOLEAN
  BY DEF TypeOK
<1>1. CASE WorkStep
  <2>1. TypeOK' /\ UNCHANGED <<events, bound, todo, link_up>>
    BY <1>1, WorkTypes
  <2> QED  BY <2>1, AddressKept DEF TodoInv
<1>2. CASE MainStep \/ UNCHANGED vars
  <2>1. TypeOK' /\ UNCHANGED <<events, bound, todo, link_up>>
    BY <1>2, MainTypes DEF vars, manager, world, TypeOK
  <2> QED  BY <2>1, AddressKept DEF TodoInv
<1>3. CASE WorldStep
  <2>1. TypeOK' /\ UNCHANGED <<todo, link_up>>
    BY <1>3, WorldTypes DEF manager
  <2>2. TodoInv'  BY <2>1 DEF TodoInv
  <2>3. AddressInv'
    <3>1. ASSUME UNCHANGED bound, NEW e \in Event, ~Address(e), Raise(<<e>>)
          PROVE  AddressInv'
      <4>1. Handled => Handled'  BY <2>1, <3>1 DEF Handled, ToDo
      <4> QED  BY <1>0, <3>1, <4>1, RaisedSilent DEF AddressInv
    <3>2. CASE Joins
      BY <3>1, <3>2 DEF Joins, Event, Address
    <3>3. CASE JoinFails
      BY <3>1, <3>3 DEF JoinFails, Event, Address
    <3>4. ASSUME NEW e \in Event, Address(e), Raise(<<e>>),
                 bound' = TRUE <=> e = "address added"
          PROVE  AddressInv'
      BY <1>0, <3>4, RaisedAddress, Zenon DEF AddressInv
    <3>5. CASE Binds
      <4>1. PICK e : e = "address added"  BY Zenon
      <4>2. bound' = TRUE /\ Raise(<<e>>)  BY <3>5, <4>1, Zenon DEF Binds
      <4>3. Address(e) /\ e \in Event  BY <4>1 DEF Address, Event
      <4> QED  BY <3>4, <4>1, <4>2, <4>3, Zenon
    <3>6. ASSUME bound' = FALSE, NEW e \in {"address gone", "disconnected"},
                 Raise(<<e>>)
          PROVE  AddressInv'
      <4>1. e # "address added" /\ Address(e) /\ e \in Event
        BY DEF Address, Event
      <4>2. bound' # TRUE  BY <3>6
      <4> QED  BY <3>4, <3>6, <4>1, <4>2, Zenon
    <3>7. ASSUME bound' = FALSE,
                 NEW e \in {"address gone", "disconnected"},
                 NEW f \in {"address gone", "disconnected"}, Raise(<<e, f>>)
          PROVE  AddressInv'
      <4>1. /\ f # "address added" /\ Address(f)
            /\ e \in Event /\ f \in Event
        BY DEF Address, Event
      <4> QED  BY <1>0, <3>7, <4>1, RaisedGone, Zenon DEF AddressInv
    <3>8. CASE LosesAddress
      BY <3>6, <3>8, Zenon DEF LosesAddress
    <3>9. CASE LosesLink
      BY <3>6, <3>7, <3>9, Zenon DEF LosesLink
    <3> QED
      BY <1>3, <3>2, <3>3, <3>5, <3>8, <3>9 DEF WorldStep
  <2> QED  BY <2>1, <2>2, <2>3
<1>4. CASE EventStep
  <2>1. TypeOK' /\ TodoInv' /\ UNCHANGED bound  BY <1>4, CallbackTypes
  <2>2. CASE TakeEvent
    <3>1. ASSUME ~Address(Head(events)), Handled  PROVE Handled'
      <4>1. todo' \in {<<"schedule", "double">>, <<"fresh">>}
        BY <2>2, <3>1, Started DEF Address
      <4>2. ~ToDo("set")' /\ ~ToDo("clear")'  BY <4>1 DEF ToDo
      <4>3. ~ToDo("set") /\ ~ToDo("clear") /\ UNCHANGED <<link_up, bound>>
        BY <2>2 DEF TakeEvent, ToDo, manager
      <4> QED  BY <3>1, <4>2, <4>3 DEF Handled
    <3>2. ASSUME Address(Head(events)),
                 bound = TRUE <=> Head(events) = "address added"
          PROVE  Handled'
      <4>1. CASE Head(events) = "address added"
        <5>1. todo' = <<"set", "give">>  BY <2>2, <4>1, Started
        <5>2. ToDo("set")' /\ ~ToDo("clear")'  BY <5>1 DEF ToDo
        <5> QED  BY <2>1, <3>2, <4>1, <5>2 DEF Handled
      <4>2. CASE Head(events) # "address added"
        <5>1. todo' \in {<<"clear", "reset", "schedule">>, <<"clear", "reset">>}
          BY <2>2, <3>2, <4>2, Started DEF Address
        <5>2. ToDo("clear")' /\ ~ToDo("set")'  BY <5>1 DEF ToDo
        <5>3. bound = FALSE  BY <1>0, <3>2, <4>2
        <5> QED  BY <2>1, <5>2, <5>3 DEF Handled
      <4> QED  BY <4>1, <4>2
    <3> QED  BY <2>1, <2>2, <3>1, <3>2, TakenAddress, Zenon DEF AddressInv
  <2>3. CASE SetLink \/ Give \/ Reset \/ Schedule \/ SetBackoff
    <3>1. UNCHANGED events
      BY <2>3 DEF SetLink, Give, Reset, Schedule, SetBackoff, world
    <3>2. ASSUME Handled  PROVE Handled'
      <4>1. CASE SetLink /\ NextIs("set")
        <5>1. todo = <<"set", "give">> /\ todo' = <<"give">>
          BY <4>1, Taken DEF Step
        <5>2. ToDo("set") /\ ~ToDo("set")' /\ ~ToDo("clear")'
          BY <5>1 DEF ToDo
        <5>3. link_up' = TRUE  BY <4>1, <5>1 DEF SetLink, NextIs
        <5> QED  BY <2>1, <3>2, <5>2, <5>3 DEF Handled
      <4>2. CASE SetLink /\ NextIs("clear")
        <5>1. \/ /\ todo = <<"clear", "reset", "schedule">>
                 /\ todo' = <<"reset", "schedule">>
              \/ todo = <<"clear", "reset">> /\ todo' = <<"reset">>
          BY <4>2, Taken DEF Step
        <5>2. ToDo("clear") /\ ~ToDo("set")' /\ ~ToDo("clear")'
          BY <5>1 DEF ToDo
        <5>3. link_up' = FALSE  BY <4>2, <5>1 DEF SetLink, NextIs
        <5> QED  BY <2>1, <3>2, <5>2, <5>3 DEF Handled
      <4>3. CASE Give \/ Reset \/ Schedule \/ SetBackoff
        <5>1. \/ todo = <<"schedule", "double">> /\ todo' = <<"double">>
              \/ todo = <<"schedule">> /\ todo' = <<>>
              \/ todo = <<"double">> /\ todo' = <<>>
              \/ todo = <<"fresh">> /\ todo' = <<>>
              \/ todo = <<"reset", "schedule">> /\ todo' = <<"schedule">>
              \/ todo = <<"reset">> /\ todo' = <<>>
              \/ todo = <<"give">> /\ todo' = <<>>
          BY <4>3, Taken DEF Give, Reset, Schedule, SetBackoff, Step
        <5>2. /\ ~ToDo("set") /\ ~ToDo("clear")
              /\ ~ToDo("set")' /\ ~ToDo("clear")'
          BY <5>1 DEF ToDo
        <5>3. link_up' = link_up
          BY <4>3 DEF Give, Reset, Schedule, SetBackoff
        <5> QED  BY <2>1, <3>2, <5>2, <5>3 DEF Handled
      <4> QED  BY <2>3, <4>1, <4>2, <4>3 DEF SetLink
    <3> QED  BY <2>1, <3>1, <3>2, SameTold DEF AddressInv
  <2> QED  BY <1>4, <2>1, <2>2, <2>3 DEF EventStep
<1> QED  BY <1>1, <1>2, <1>3, <1>4 DEF Next

(***************************************************************************)
(* wifi_connect_is_up() and DHCP disagree only while an event or a running *)
(* callback is about to bring them together.                               *)
(***************************************************************************)
THEOREM LinkAlwaysFollowsAddress == Spec => []LinkFollowsAddress
<1>1. Init => AddressIInv
  <2> SUFFICES ASSUME Init  PROVE AddressIInv  OBVIOUS
  <2>1. Silent  BY DEF Init, Silent
  <2>2. ~ToDo("set") /\ ~ToDo("clear")  BY DEF Init, ToDo
  <2>3. Handled  BY <2>2 DEF Init, Handled
  <2> QED  BY <2>1, <2>3, TokenInit DEF TokenIInv, AddressIInv, AddressInv
<1>2. AddressIInv => LinkFollowsAddress
  <2> SUFFICES ASSUME AddressIInv  PROVE LinkFollowsAddress  OBVIOUS
  <2>1. DOMAIN events = 1..Len(events)  BY DEF AddressIInv, TypeOK
  <2>2. CASE Tells
    <3>1. PICK i \in 1..Len(events) : Told(i)  BY <2>2 DEF Tells
    <3>2. /\ events[i] \in {"address added", "address gone", "disconnected"}
          /\ bound = TRUE <=> events[i] = "address added"
      BY <3>1, Zenon DEF Told, Address
    <3>3. bound = TRUE => events[i] = "address added"  BY <3>2, Zenon
    <3>4. bound # TRUE => events[i] \in {"address gone", "disconnected"}
      BY <3>2, Zenon
    <3> QED  BY <2>1, <3>3, <3>4 DEF LinkFollowsAddress, Outstanding
  <2>3. CASE Handled
    <3>1. link_up \in BOOLEAN /\ bound \in BOOLEAN
      BY DEF AddressIInv, TypeOK
    <3> QED  BY <2>3, <3>1 DEF Handled, LinkFollowsAddress
  <2> QED  BY <2>2, <2>3 DEF AddressIInv, AddressInv
<1> HIDE DEF AddressIInv
<1> QED  BY <1>1, <1>2, AddressStep, PTL DEF Spec
=============================================================================
