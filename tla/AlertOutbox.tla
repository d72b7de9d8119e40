----------------------------- MODULE AlertOutbox -----------------------------
(***************************************************************************)
(* Domain events and the alerts they raise (events.py, alert_engine.py,    *)
(* routers/alerts.py).  An event and its queue row are committed with the  *)
(* fact; a router claims a queue row, evaluates the alert policy and       *)
(* records one route in one transaction; a sender commits its claim of a   *)
(* delivery, sends without a transaction and then writes the outcome.  Two *)
(* routers or senders are two leaders, or a job and the one that overran.  *)
(*                                                                         *)
(* Bounds: a router claims one row at a time; the first alert has a        *)
(* channel, later ones are for the dashboard only.                         *)
(***************************************************************************)
EXTENDS Naturals, Sequences, FiniteSets

CONSTANTS Facts,          \* idempotence keys of events
          Subjects,       \* dedupe keys: tenant, type, logical subject, route
          Posts,          \* job instances, as routers and as senders
          MaxAttempts     \* MAX_DELIVERY_ATTEMPTS

ASSUME OutboxAssumption == MaxAttempts \in Nat \ {0} /\ IsFiniteSet(Facts) /\ IsFiniteSet(Posts)

VARIABLES
    queue,     \* per fact: its EventAlertQueue row
    route,     \* per fact: its AlertEventRoute row
    alerts,    \* Alert rows with their AlertDelivery, by id
    router,    \* per job instance: its open routing transaction
    sender     \* per job instance: the delivery it is sending

outboxVars == <<queue, route, alerts, router, sender>>

Unrouted == [result |-> "none", alert |-> 0]
IdleRouter == [at |-> "idle", fact |-> 0, holds |-> {}, alert |-> 0, count |-> 0, window |-> FALSE]
IdleSender == [alert |-> 0, sending |-> FALSE, tries |-> 0]
QueueRow == [at : {"none", "pending", "processed", "failed"}, attempts : 0 .. MaxAttempts]
DeliveryRow == [at : {"none", "pending", "processing", "sent", "failed"}, tries : Nat, sends : Nat]
AlertRow == [subject : Subjects, open : BOOLEAN, recent : BOOLEAN, window : BOOLEAN,
             count : Nat, delivery : DeliveryRow]

OutboxTypeOK ==
    /\ queue \in [Facts -> QueueRow]
    /\ \A f \in Facts : route[f].alert \in 0 .. Len(alerts)
    /\ alerts \in Seq(AlertRow)
    /\ \A p \in Posts : router[p].holds \subseteq Subjects /\ sender[p].alert \in 0 .. Len(alerts)

InitOutbox ==
    /\ queue = [f \in Facts |-> [at |-> "none", attempts |-> 0]]
    /\ route = [f \in Facts |-> Unrouted]
    /\ alerts = <<>>
    /\ router = [p \in Posts |-> IdleRouter]
    /\ sender = [p \in Posts |-> IdleSender]

\* emit_domain_event with _enqueue_alert_routing; a known key changes nothing.
EmitEvent(f) ==
    /\ queue[f].at = "none"
    /\ queue' = [queue EXCEPT ![f].at = "pending"]
    /\ UNCHANGED <<route, alerts, router, sender>>

-----------------------------------------------------------------------------
(* Routing: one transaction per claim *)

\* _claim_queue, FOR UPDATE SKIP LOCKED.  The processing status and the count
\* of attempts are visible to others only after the commit.
ClaimQueue(p, f) ==
    /\ router[p].at = "idle" /\ queue[f].at = "pending"
    /\ \A q \in Posts : router[q].at # "idle" => router[q].fact # f
    /\ router' = [router EXCEPT ![p] = [@ EXCEPT !.at = "claimed", !.fact = f]]
    /\ UNCHANGED <<queue, route, alerts, sender>>

\* Mutated form: the lock is not taken.
MayLock_Never(p, s) == TRUE

\* _dedupe_advisory_lock, held until the transaction ends.
MayLock(p, s) == \A q \in Posts \ {p} : s \notin router[q].holds

\* _open_alert_for_dedupe
OpenAlerts(s, window) ==
    {i \in DOMAIN alerts : window /\ alerts[i].subject = s /\ alerts[i].open /\ alerts[i].recent}

\* The policy says to notify: take the lock, look for an alert to add to.
RouteEvent(p) ==
    \E s \in Subjects, window \in BOOLEAN :
        LET found == OpenAlerts(s, window)
            i == CHOOSE a \in found : \A b \in found : a <= b
        IN /\ router[p].at = "claimed" /\ MayLock(p, s)
           /\ router' = [router EXCEPT ![p] =
                 IF found = {} THEN [@ EXCEPT !.at = "create", !.holds = {s}, !.window = window]
                 ELSE [@ EXCEPT !.at = "coalesce", !.holds = {s},
                                !.alert = i, !.count = alerts[i].count]]
           /\ UNCHANGED <<queue, route, alerts, sender>>

Processed(f) == queue' = [queue EXCEPT ![f] = [at |-> "processed", attempts |-> @.attempts + 1]]
Ends(p) == router' = [router EXCEPT ![p] = IdleRouter]

\* The policy says not to notify.
RouteNothing(p) ==
    LET f == router[p].fact IN
    /\ router[p].at = "claimed"
    /\ route' = [route EXCEPT ![f] = [result |-> "no_notification", alert |-> 0]]
    /\ Processed(f) /\ Ends(p) /\ UNCHANGED <<alerts, sender>>

\* _enqueue_deliveries: a row for an alert that has a channel with an address.
Enqueued(channel) == [at |-> IF channel THEN "pending" ELSE "none", tries |-> 0, sends |-> 0]

\* Creates the alert with its delivery and the route.
CommitCreated(p) ==
    LET r == router[p] IN
    /\ r.at = "create"
    /\ \E channel \in {FALSE, alerts = <<>>} : alerts' = Append(alerts,
          [subject |-> CHOOSE s \in r.holds : TRUE, open |-> TRUE, recent |-> TRUE,
           window |-> r.window, count |-> 1,
           delivery |-> Enqueued(channel)])
    /\ route' = [route EXCEPT ![r.fact] = [result |-> "created", alert |-> Len(alerts) + 1]]
    /\ Processed(r.fact) /\ Ends(p) /\ UNCHANGED sender

\* Adds the event to the alert it found; no new delivery.
CommitCoalesced(p) ==
    LET r == router[p] IN
    /\ r.at = "coalesce"
    /\ alerts' = [alerts EXCEPT ![r.alert].count = r.count + 1, ![r.alert].recent = TRUE]
    /\ route' = [route EXCEPT ![r.fact] = [result |-> "coalesced", alert |-> r.alert]]
    /\ Processed(r.fact) /\ Ends(p) /\ UNCHANGED sender

AfterFailure(attempts) == IF attempts < MaxAttempts THEN "pending" ELSE "failed"

\* The evaluation raises: back to pending until the attempts are used up.
RouteFails(p) ==
    LET f == router[p].fact
        attempts == queue[f].attempts + 1
    IN /\ router[p].at = "claimed"
       /\ queue' = [queue EXCEPT ![f] =
             [at |-> AfterFailure(attempts), attempts |-> attempts]]
       /\ Ends(p) /\ UNCHANGED <<route, alerts, sender>>

\* route_pending_events_job rolls back: everything is as before the claim.
RouteAborts(p) ==
    /\ router[p].at # "idle"
    /\ Ends(p) /\ UNCHANGED <<queue, route, alerts, sender>>

\* ack_alert, ack_all
AckAlert(i) ==
    /\ alerts[i].open
    /\ alerts' = [alerts EXCEPT ![i].open = FALSE]
    /\ UNCHANGED <<queue, route, router, sender>>

\* The suppression window since last_event_at ends.
WindowEnds(i) ==
    /\ alerts[i].recent
    /\ alerts' = [alerts EXCEPT ![i].recent = FALSE]
    /\ UNCHANGED <<queue, route, router, sender>>

-----------------------------------------------------------------------------
(* Delivery *)

\* Mutated form: a row whose lease ran out is not counted as a new attempt.
Claimed_Uncounted(d) == [d EXCEPT !.at = "processing", !.tries = IF d.at = "pending" THEN @ + 1 ELSE @]

Claimed(d) == [d EXCEPT !.at = "processing", !.tries = @ + 1]

\* _claim_deliveries: due, or processing with a lease that ran out while the
\* first sender works through its batch.  Bound: one reclaim past the limit.
ClaimDelivery(p, i) ==
    /\ sender[p].alert = 0
    /\ alerts[i].delivery.at \in {"pending", "processing"}
    /\ alerts[i].delivery.tries <= MaxAttempts
    /\ alerts' = [alerts EXCEPT ![i].delivery = Claimed(@)]
    /\ sender' = [sender EXCEPT ![p] = [alert |-> i, sending |-> FALSE, tries |-> 0]]
    /\ UNCHANGED <<queue, route, router>>

\* post_webhook or deliver_mail: accepted, refused for now or for good.
Outcomes == {"accepted", "transient", "permanent"}

\* _finish_delivery on the row as it was read before sending.
Finished(d, outcome, tries) ==
    [d EXCEPT !.at = IF outcome = "accepted" THEN "sent"
                     ELSE IF outcome = "permanent" \/ tries >= MaxAttempts THEN "failed" ELSE "pending"]

\* process_pending_deliveries reads the row afresh; past the limit it gives
\* up, otherwise it sends.  The status is not looked at.
Send(p) ==
    LET i == sender[p].alert
        d == alerts[i].delivery
    IN /\ i # 0 /\ ~sender[p].sending
       /\ IF d.tries > MaxAttempts
          THEN /\ alerts' = [alerts EXCEPT ![i].delivery = Finished(@, "permanent", d.tries)]
               /\ sender' = [sender EXCEPT ![p] = IdleSender]
          ELSE /\ alerts' = [alerts EXCEPT ![i].delivery.sends = @ + 1]
               /\ sender' = [sender EXCEPT ![p] = [@ EXCEPT !.sending = TRUE, !.tries = d.tries]]
       /\ UNCHANGED <<queue, route, router>>

\* The call returns and its outcome is committed.
SendEnds(p) ==
    LET i == sender[p].alert IN
    /\ sender[p].sending
    /\ \E outcome \in Outcomes :
        alerts' = [alerts EXCEPT ![i].delivery = Finished(@, outcome, sender[p].tries)]
    /\ sender' = [sender EXCEPT ![p] = IdleSender]
    /\ UNCHANGED <<queue, route, router>>

\* The process dies; the lease of its claim runs out later.
SenderDies(p) ==
    /\ sender[p].alert # 0
    /\ sender' = [sender EXCEPT ![p] = IdleSender]
    /\ UNCHANGED <<queue, route, alerts, router>>

NextOutbox ==
    \/ \E f \in Facts : EmitEvent(f) \/ \E p \in Posts : ClaimQueue(p, f)
    \/ \E p \in Posts :
         \/ RouteEvent(p) \/ RouteNothing(p) \/ CommitCreated(p) \/ CommitCoalesced(p)
         \/ RouteFails(p) \/ RouteAborts(p)
         \/ Send(p) \/ SendEnds(p) \/ SenderDies(p)
    \/ \E i \in DOMAIN alerts : AckAlert(i) \/ WindowEnds(i) \/ \E p \in Posts : ClaimDelivery(p, i)

-----------------------------------------------------------------------------
RoutedTo(i) == {f \in Facts : route[f].alert = i}

\* An alert counts exactly the events routed to it, with two routers at work
\* on its subject, failed and repeated routings and an acknowledgement in
\* between; and of two recent open alerts of one subject the later was raised
\* without a suppression window.
AlertCountsItsEvents ==
    /\ \A i \in DOMAIN alerts : alerts[i].count = Cardinality(RoutedTo(i))
    /\ \A f \in Facts : queue[f].at = "processed" <=> route[f].result # "none"
    /\ \A i, j \in DOMAIN alerts :
          (/\ i < j /\ alerts[i].subject = alerts[j].subject
           /\ alerts[i].open /\ alerts[j].open /\ alerts[i].recent /\ alerts[j].recent)
          => ~alerts[j].window

\* A notification is sent at most MAX_DELIVERY_ATTEMPTS times, also when
\* leases run out under a slow sender, senders die and a late failure
\* overwrites an earlier success.
SendsAreBounded == \A i \in DOMAIN alerts : alerts[i].delivery.sends <= MaxAttempts
=============================================================================
