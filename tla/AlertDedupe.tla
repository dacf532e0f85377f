---------------------------- MODULE AlertDedupe ----------------------------
(***************************************************************************)
(* Repeated notifications of an alert: services/alert_dedupe.py, the alert *)
(* webhooks of api/server.py that call it, and the retention of its        *)
(* markers (services/incident_store.py).                                   *)
(*                                                                         *)
(* Alertmanager and Grafana send a firing alert again and again, from      *)
(* several replicas, to several API processes.  A handler serves one       *)
(* request, which lists some alerts; it takes them one after another, one  *)
(* storage call to a step.  A handler may be killed, or a call may raise   *)
(* (after its effect, if the handler stops at the point behind the call);  *)
(* then the sender sees an error, and sends again.                         *)
(*                                                                         *)
(* An alert stands for its identity: organisation, fingerprint and         *)
(* startsAt.  A marker names an incident and the time it was claimed.      *)
(***************************************************************************)
EXTENDS Naturals

CONSTANTS
  Alert,
  Handler,       \* requests being served at a time
  NoAlert,
  Window,        \* ALERT_DEDUPE_WINDOW_SEC; 0 disables
  Retention,     \* AUDIT_RETENTION_DAYS
  Patience,      \* how long a handler can take over one alert
  MaxTime,       \* bound on the clock
  MaxIncidents,  \* bound on notifications: none fires once so many ids are drawn
  MaxAborts      \* bound on requests that are cut short

ASSUME NullAssumption == NoAlert \notin Alert
ASSUME BoundAssumption ==
  /\ Window \in Nat /\ Retention \in Nat /\ Patience \in Nat \ {0}
  /\ MaxTime \in Nat /\ MaxIncidents \in Nat /\ MaxAborts \in Nat
(* Retention is days, the window is an hour, a request takes seconds.      *)
ASSUME RetentionAssumption == Window + Patience <= Retention

VARIABLES
  now,
  marker,     \* the store: the marker of an alert
  queued,     \* incidents that were put in the queue
  doomed,     \* alerts whose marker the retention pass is about to delete
  pc,         \* what a handler is about to do
  todo,       \* alerts of its request it has yet to take
  cur,        \* the alert it is at
  mine,       \* the marker it writes for that
  drawn,      \* number of incident ids drawn
  claims,     \* history: what claim() answered True for
  answers,    \* history: incidents named as the original of a duplicate
  aborts

history == <<claims, answers>>
handler == <<pc, todo, cur, mine>>
vars    == <<now, marker, queued, doomed, handler, drawn, history, aborts>>

NoMarker == [incident |-> 0, created |-> 0]
Busy  == {"claim", "read", "overwrite", "enqueue"}
Point == {"idle", "next"} \cup Busy

Goto(h, point) == pc' = [pc EXCEPT ![h] = point]

Init ==
  /\ now = 0
  /\ marker = [a \in Alert |-> NoMarker]
  /\ queued = {} /\ doomed = {}
  /\ pc = [h \in Handler |-> "idle"]
  /\ todo = [h \in Handler |-> {}]
  /\ cur = [h \in Handler |-> NoAlert]
  /\ mine = [h \in Handler |-> NoMarker]
  /\ drawn = 0
  /\ claims = {} /\ answers = {}
  /\ aborts = 0

-----------------------------------------------------------------------------
Tick ==
  /\ now < MaxTime
  /\ \A h \in Handler : pc[h] \in Busy => now < mine[h].created + Patience
  /\ now' = now + 1
  /\ UNCHANGED <<marker, queued, doomed, handler, drawn, history, aborts>>

(* A notification arrives; alerts are those of its alerts that still fire. *)
Notify(h) ==
  /\ pc[h] = "idle"
  /\ \E alerts \in SUBSET Alert :
       /\ alerts # {} => drawn < MaxIncidents
       /\ todo' = [todo EXCEPT ![h] = alerts]
       /\ Goto(h, IF alerts = {} THEN "idle" ELSE "next")
  /\ UNCHANGED <<now, marker, queued, doomed, cur, mine, drawn, history, aborts>>

(* The handler is done with its alert, and takes the next or answers.      *)
Proceed(h) ==
  /\ Goto(h, IF todo[h] = {} THEN "idle" ELSE "next")
  /\ cur' = [cur EXCEPT ![h] = NoAlert]
  /\ mine' = [mine EXCEPT ![h] = NoMarker]
  /\ UNCHANGED todo

(* _enqueue_alert draws an incident id; claim reads the clock.             *)
EnqueueAlert(h) ==
  /\ pc[h] = "next"
  /\ drawn' = drawn + 1
  /\ \E a \in todo[h] :
       /\ todo' = [todo EXCEPT ![h] = @ \ {a}]
       /\ cur' = [cur EXCEPT ![h] = a]
  /\ mine' = [mine EXCEPT ![h] = [incident |-> drawn + 1, created |-> now]]
  /\ Goto(h, IF Window = 0 THEN "enqueue" ELSE "claim")
  /\ UNCHANGED <<now, marker, queued, doomed, history, aborts>>

Claimed(h) ==
  claims' = claims \cup {[alert |-> cur[h], incident |-> mine[h].incident,
                          created |-> mine[h].created]}

(* Mutant: the marker is written whether or not there is one.              *)
MutClaimAlways(h) ==
  /\ pc[h] = "claim"
  /\ marker' = [marker EXCEPT ![cur[h]] = mine[h]]
  /\ Claimed(h)
  /\ Goto(h, "enqueue")
  /\ UNCHANGED <<now, queued, doomed, todo, cur, mine, drawn, answers, aborts>>

(* put_json_if_absent                                                      *)
ClaimMarker(h) ==
  /\ pc[h] = "claim"
  /\ \/ /\ marker[cur[h]] = NoMarker
        /\ marker' = [marker EXCEPT ![cur[h]] = mine[h]]
        /\ Claimed(h)
        /\ Goto(h, "enqueue")
     \/ /\ marker[cur[h]] # NoMarker
        /\ Goto(h, "read")
        /\ UNCHANGED <<marker, claims>>
  /\ UNCHANGED <<now, queued, doomed, todo, cur, mine, drawn, answers, aborts>>

(* A repeat within the window is a duplicate of what the marker names.     *)
ReadMarker(h) ==
  /\ pc[h] = "read"
  /\ LET found == marker[cur[h]] IN
     \/ /\ found # NoMarker /\ mine[h].created < found.created + Window
        /\ answers' = answers \cup {found.incident}
        /\ Proceed(h)
     \/ /\ found = NoMarker \/ found.created + Window <= mine[h].created
        /\ Goto(h, "overwrite")
        /\ UNCHANGED <<todo, cur, mine, answers>>
  /\ UNCHANGED <<now, marker, queued, doomed, drawn, claims, aborts>>

(* put_json, whatever is there by now.                                     *)
Overwrite(h) ==
  /\ pc[h] = "overwrite"
  /\ marker' = [marker EXCEPT ![cur[h]] = mine[h]]
  /\ Claimed(h)
  /\ Goto(h, "enqueue")
  /\ UNCHANGED <<now, queued, doomed, todo, cur, mine, drawn, answers, aborts>>

(* Mutant: the queue draws an id of its own.                               *)
MutEnqueueFresh(h) ==
  /\ pc[h] = "enqueue"
  /\ queued' = queued \cup {drawn + 1}
  /\ Proceed(h)
  /\ UNCHANGED <<now, marker, doomed, drawn, history, aborts>>

(* Mutant: an incident whose marker was replaced is not queued.            *)
MutEnqueueOwned(h) ==
  /\ pc[h] = "enqueue"
  /\ queued' = IF marker[cur[h]] = mine[h]
               THEN queued \cup {mine[h].incident} ELSE queued
  /\ Proceed(h)
  /\ UNCHANGED <<now, marker, doomed, drawn, history, aborts>>

EnqueueIncident(h) ==
  /\ pc[h] = "enqueue"
  /\ queued' = queued \cup {mine[h].incident}
  /\ Proceed(h)
  /\ UNCHANGED <<now, marker, doomed, drawn, history, aborts>>

(* The request ends in an error, or the process is killed.                 *)
Abort(h) ==
  /\ pc[h] # "idle"
  /\ aborts < MaxAborts /\ aborts' = aborts + 1
  /\ Goto(h, "idle")
  /\ todo' = [todo EXCEPT ![h] = {}]
  /\ cur' = [cur EXCEPT ![h] = NoAlert]
  /\ mine' = [mine EXCEPT ![h] = NoMarker]
  /\ UNCHANGED <<now, marker, queued, doomed, drawn, history>>

-----------------------------------------------------------------------------
(* apply_retention reads a marker's age, then deletes what is there.       *)

RetentionRead(a) ==
  /\ marker[a] # NoMarker
  /\ marker[a].created + Retention < now
  /\ doomed' = doomed \cup {a}
  /\ UNCHANGED <<now, marker, queued, handler, drawn, history, aborts>>

RetentionDelete(a) ==
  /\ a \in doomed
  /\ marker' = [marker EXCEPT ![a] = NoMarker]
  /\ doomed' = doomed \ {a}
  /\ UNCHANGED <<now, queued, handler, drawn, history, aborts>>

-----------------------------------------------------------------------------
HandlerStep(h) ==
  Notify(h) \/ EnqueueAlert(h) \/ ClaimMarker(h) \/ ReadMarker(h)
  \/ Overwrite(h) \/ EnqueueIncident(h) \/ Abort(h)

Next ==
  \/ Tick
  \/ \E h \in Handler : HandlerStep(h)
  \/ \E a \in Alert : RetentionRead(a) \/ RetentionDelete(a)

Spec == Init /\ [][Next]_vars
=============================================================================
