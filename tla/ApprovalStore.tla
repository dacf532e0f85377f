--------------------------- MODULE ApprovalStore ---------------------------
(***************************************************************************)
(* services/approval_store.py: exact commands retained behind references   *)
(* that expire, are bounded in number, and authorise one execution.        *)
(*                                                                         *)
(* A caller is a request that retains a command (retain) or spends a       *)
(* reference (resolve); callers run in several processes over one store,   *)
(* and between the storage calls of one the others may do anything.  A     *)
(* step holds one storage call, or the reading of the clock between two.   *)
(* A caller may stop at any point: it is killed, or a call raises (after   *)
(* its effect, if the caller stops at the point behind the call).          *)
(*                                                                         *)
(* A reference stands for its identifier: when it was created (the code    *)
(* writes the expiry, a TTL later), its slot, and a random part.  Its      *)
(* object holds the payload or, once spent, a terminal record.  The        *)
(* organisation, the target host and the text of the command are bound in  *)
(* the payload and never change: they are left out.                        *)
(***************************************************************************)
EXTENDS Integers

CONSTANTS
  Caller,
  Clock,        \* clocks of the machines the callers run on
  ClockOf,      \* the clock a caller reads
  TTL,          \* APPROVAL_TTL_SECONDS, which is also a window's length
  PerWindow,    \* APPROVALS_PER_WINDOW
  Backend,      \* kinds of object store; one is chosen at the start
  MaxTime,      \* bound on the clocks
  MaxRetains    \* bound on retentions: none starts once so many ids are drawn

ASSUME ClockAssumption == ClockOf \in [Caller -> Clock]
ASSUME BoundAssumption ==
  /\ TTL \in Nat \ {0} /\ PerWindow \in Nat \ {0}
  /\ MaxTime \in Nat /\ MaxRetains \in Nat
(* "unfenced" is an S3-compatible server that lets a conditional           *)
(* replacement of an absent object through.                                *)
ASSUME BackendAssumption ==
  Backend \subseteq {"memory", "versioned", "s3", "unfenced"}

VARIABLES
  clock,        \* what each clock shows
  backend,      \* the store's kind
  reserved,     \* admission slots with a reserved.json
  payload,      \* references whose object holds the command
  terminal,     \* references whose object holds something else
  pc,           \* what a caller is about to do
  ref,          \* the reference it is about
  stale,        \* what its cleanup has yet to delete
  drawn,        \* number of random ids drawn
  executions,   \* how often the command of an issued reference was released
  spent         \* history: references consumed

store == <<reserved, payload, terminal>>
vars  == <<clock, backend, store, pc, ref, stale, drawn, executions, spent>>

SlotNumber == 0 .. PerWindow - 1
Reference == [created : Nat, slot : SlotNumber, id : Nat]
Slot      == [window : Nat, slot : SlotNumber]
NoRef     == [created |-> 0, slot |-> 0, id |-> 0]
Nothing   == [slots |-> {}, refs |-> {}]

issued == DOMAIN executions

WindowAt(t) == t \div TTL
Expiry(r)   == r.created + TTL
SlotOf(r)   == [window |-> WindowAt(r.created), slot |-> r.slot]
Now(c)      == clock[ClockOf[c]]

RetainPoint  == {"retainCleanup", "reserve", "probe", "probeDelete", "put",
                 "recheck", "drop"}
ResolvePoint == {"resolveCleanup", "read", "compare", "replace", "consumed",
                 "grant", "return", "deny"}
Point == {"idle"} \cup RetainPoint \cup ResolvePoint

Goto(c, point) == pc' = [pc EXCEPT ![c] = point]

Init ==
  /\ clock = [k \in Clock |-> 0]
  /\ backend \in Backend
  /\ reserved = {} /\ payload = {} /\ terminal = {}
  /\ pc = [c \in Caller |-> "idle"]
  /\ ref = [c \in Caller |-> NoRef]
  /\ stale = [c \in Caller |-> Nothing]
  /\ drawn = 0
  /\ executions = [r \in {} |-> 0]
  /\ spent = {}

-----------------------------------------------------------------------------
Tick(k) ==
  /\ clock[k] < MaxTime
  /\ clock' = [clock EXCEPT ![k] = @ + 1]
  /\ UNCHANGED <<backend, store, pc, ref, stale, drawn, executions, spent>>

(* The caller is done, or stops where it is.                               *)
Done(c) ==
  /\ Goto(c, "idle")
  /\ ref' = [ref EXCEPT ![c] = NoRef]
  /\ stale' = [stale EXCEPT ![c] = Nothing]

Abort(c) ==
  /\ pc[c] # "idle"
  /\ Done(c)
  /\ UNCHANGED <<clock, backend, store, drawn, executions, spent>>

DeleteObject(r) == payload' = payload \ {r} /\ terminal' = terminal \ {r}

-----------------------------------------------------------------------------
(* cleanup, the start of every retain and resolve: what has expired by     *)
(* the caller's clock is listed, then deleted object by object.            *)

(* Mutant: payloads are listed by their window alone, a window early.      *)
MutListPayloads(now) ==
  [slots |-> {s \in reserved : s.window + 1 < WindowAt(now)},
   refs |-> {r \in payload \cup terminal : WindowAt(r.created) < WindowAt(now)}]

(* Mutant: the slots of the previous window are freed too.                 *)
MutListSlots(now) ==
  [slots |-> {s \in reserved : s.window < WindowAt(now)},
   refs |-> {r \in payload \cup terminal :
               Expiry(r) <= now \/ WindowAt(r.created) + 1 < WindowAt(now)}]

Expired(now) ==
  [slots |-> {s \in reserved : s.window + 1 < WindowAt(now)},
   refs |-> {r \in payload \cup terminal :
               Expiry(r) <= now \/ WindowAt(r.created) + 1 < WindowAt(now)}]

BeginRetain(c) ==
  /\ pc[c] = "idle"
  /\ drawn < MaxRetains
  /\ stale' = [stale EXCEPT ![c] = Expired(Now(c))]
  /\ Goto(c, "retainCleanup")
  /\ UNCHANGED <<clock, backend, store, ref, drawn, executions, spent>>

(* Any number of requests may present the same reference; NoRef stands for *)
(* one that retain never returned.                                         *)
BeginResolve(c) ==
  /\ pc[c] = "idle"
  /\ \E r \in issued \cup {NoRef} : ref' = [ref EXCEPT ![c] = r]
  /\ stale' = [stale EXCEPT ![c] = Expired(Now(c))]
  /\ Goto(c, "resolveCleanup")
  /\ UNCHANGED <<clock, backend, store, drawn, executions, spent>>

CleanupDelete(c) ==
  /\ pc[c] \in {"retainCleanup", "resolveCleanup"}
  /\ \/ \E r \in stale[c].refs :
          /\ DeleteObject(r)
          /\ stale' = [stale EXCEPT ![c].refs = @ \ {r}]
          /\ UNCHANGED reserved
     \/ \E s \in stale[c].slots :
          /\ reserved' = reserved \ {s}
          /\ stale' = [stale EXCEPT ![c].slots = @ \ {s}]
          /\ UNCHANGED <<payload, terminal>>
  /\ UNCHANGED <<clock, backend, pc, ref, drawn, executions, spent>>

-----------------------------------------------------------------------------
(* retain                                                                  *)

(* Mutant: the slots are counted down, from the number of them.            *)
MutCleanedRetain(c) ==
  /\ pc[c] = "retainCleanup" /\ stale[c] = Nothing
  /\ ref' = [ref EXCEPT ![c] = [NoRef EXCEPT !.created = Now(c),
                                               !.slot = PerWindow]]
  /\ Goto(c, "reserve")
  /\ UNCHANGED <<clock, backend, store, stale, drawn, executions, spent>>

CleanedRetain(c) ==
  /\ pc[c] = "retainCleanup" /\ stale[c] = Nothing
  /\ ref' = [ref EXCEPT ![c] = [NoRef EXCEPT !.created = Now(c)]]
  /\ Goto(c, "reserve")
  /\ UNCHANGED <<clock, backend, store, stale, drawn, executions, spent>>

(* _create_atomically of reserved.json, slot after slot.                   *)
Reserve(c) ==
  /\ pc[c] = "reserve"
  /\ \/ /\ SlotOf(ref[c]) \notin reserved
        /\ reserved' = reserved \cup {SlotOf(ref[c])}
        /\ drawn' = drawn + 1
        /\ ref' = [ref EXCEPT ![c].id = drawn + 1]
        /\ Goto(c, IF backend \in {"s3", "unfenced"} THEN "probe" ELSE "put")
        /\ UNCHANGED stale
     \/ /\ SlotOf(ref[c]) \in reserved /\ ref[c].slot + 1 < PerWindow
        /\ ref' = [ref EXCEPT ![c].slot = @ + 1]
        /\ UNCHANGED <<reserved, drawn, pc, stale>>
     \/ /\ SlotOf(ref[c]) \in reserved /\ ref[c].slot + 1 = PerWindow
        /\ Done(c)
        /\ UNCHANGED <<reserved, drawn>>
  /\ UNCHANGED <<clock, backend, payload, terminal, executions, spent>>

(* A conditional replacement succeeds on the version that was read, or,    *)
(* where the server does not fence it, on an absent object.                *)
Replaceable(r) ==
  r \in payload \/ (backend = "unfenced" /\ r \notin payload \cup terminal)

(* Mutant: the server's answer to the probe is not looked at.              *)
MutProbe(c) ==
  /\ pc[c] = "probe"
  /\ Goto(c, "put")
  /\ UNCHANGED <<clock, backend, store, ref, stale, drawn, executions, spent>>

Probe(c) ==
  /\ pc[c] = "probe"
  /\ IF Replaceable(ref[c])
     THEN terminal' = terminal \cup {ref[c]} /\ Goto(c, "probeDelete")
     ELSE UNCHANGED terminal /\ Goto(c, "put")
  /\ UNCHANGED <<clock, backend, reserved, payload, ref, stale, drawn,
                 executions, spent>>

Put(c) ==
  /\ pc[c] = "put"
  /\ payload' = payload \cup {ref[c]}
  /\ Goto(c, "recheck")
  /\ UNCHANGED <<clock, backend, reserved, terminal, ref, stale, drawn,
                 executions, spent>>

(* The reference is returned unless it expired meanwhile.                  *)
Recheck(c) ==
  /\ pc[c] = "recheck"
  /\ \/ /\ Now(c) >= Expiry(ref[c])
        /\ Goto(c, "drop")
        /\ UNCHANGED <<ref, stale, executions>>
     \/ /\ Now(c) < Expiry(ref[c])
        /\ executions' = [r \in issued \cup {ref[c]} |->
                            IF r \in issued THEN executions[r] ELSE 0]
        /\ Done(c)
  /\ UNCHANGED <<clock, backend, store, drawn, spent>>

(* The delete before retain raises, or before resolve refuses.             *)
Drop(c) ==
  /\ pc[c] \in {"probeDelete", "drop", "deny"}
  /\ DeleteObject(ref[c])
  /\ Done(c)
  /\ UNCHANGED <<clock, backend, reserved, drawn, executions, spent>>

-----------------------------------------------------------------------------
(* resolve                                                                 *)

CleanedResolve(c) ==
  /\ pc[c] = "resolveCleanup" /\ stale[c] = Nothing
  /\ IF Now(c) >= Expiry(ref[c])
     THEN Done(c)
     ELSE Goto(c, "read") /\ UNCHANGED <<ref, stale>>
  /\ UNCHANGED <<clock, backend, store, drawn, executions, spent>>

Read(c) ==
  /\ pc[c] = "read"
  /\ IF ref[c] \in payload
     THEN Goto(c, "compare") /\ UNCHANGED <<ref, stale>>
     ELSE Done(c)
  /\ UNCHANGED <<clock, backend, store, drawn, executions, spent>>

(* _consume_existing reads the object again, with its version.  The memory *)
(* backend compares and deletes under its lock.                            *)
Compare(c) ==
  /\ pc[c] = "compare"
  /\ \/ /\ ref[c] \in payload /\ backend = "memory"
        /\ DeleteObject(ref[c])
        /\ spent' = spent \cup {ref[c]}
        /\ Goto(c, "consumed")
        /\ UNCHANGED <<ref, stale>>
     \/ /\ ref[c] \in payload /\ backend # "memory"
        /\ Goto(c, "replace")
        /\ UNCHANGED <<ref, stale, payload, terminal, spent>>
     \/ /\ ref[c] \notin payload
        /\ Done(c)
        /\ UNCHANGED <<payload, terminal, spent>>
  /\ UNCHANGED <<clock, backend, reserved, drawn, executions>>

(* Mutant: whether the conditional write went through is not looked at.    *)
MutReplace(c) ==
  /\ pc[c] = "replace"
  /\ payload' = payload \ {ref[c]}
  /\ terminal' = terminal \cup {ref[c]}
  /\ spent' = spent \cup {ref[c]}
  /\ Goto(c, "consumed")
  /\ UNCHANGED <<clock, backend, reserved, ref, stale, drawn, executions>>

Replace(c) ==
  /\ pc[c] = "replace"
  /\ IF Replaceable(ref[c])
     THEN /\ payload' = payload \ {ref[c]}
          /\ terminal' = terminal \cup {ref[c]}
          /\ spent' = spent \cup {ref[c]}
          /\ Goto(c, "consumed")
          /\ UNCHANGED <<ref, stale>>
     ELSE Done(c) /\ UNCHANGED <<payload, terminal, spent>>
  /\ UNCHANGED <<clock, backend, reserved, drawn, executions>>

(* The caller may have paused across the expiry before it consumed.        *)
CheckSpent(c) ==
  /\ pc[c] = "consumed"
  /\ Goto(c, IF Now(c) >= Expiry(ref[c]) THEN "deny" ELSE "grant")
  /\ UNCHANGED <<clock, backend, store, ref, stale, drawn, executions, spent>>

Grant(c) ==
  /\ pc[c] = "grant"
  /\ DeleteObject(ref[c])
  /\ Goto(c, "return")
  /\ UNCHANGED <<clock, backend, reserved, ref, stale, drawn, executions, spent>>

(* resolve returns the command, which its caller executes.                 *)
Release(c) ==
  /\ pc[c] = "return"
  /\ executions' = [executions EXCEPT ![ref[c]] = @ + 1]
  /\ Done(c)
  /\ UNCHANGED <<clock, backend, store, drawn, spent>>

-----------------------------------------------------------------------------
retain(c) ==
  BeginRetain(c) \/ CleanedRetain(c) \/ Reserve(c) \/ Probe(c) \/ Put(c)
  \/ Recheck(c)
resolve(c) ==
  BeginResolve(c) \/ CleanedResolve(c) \/ Read(c) \/ Compare(c) \/ Replace(c)
  \/ CheckSpent(c) \/ Grant(c) \/ Release(c)

Next ==
  \/ \E k \in Clock : Tick(k)
  \/ \E c \in Caller :
       retain(c) \/ resolve(c) \/ CleanupDelete(c) \/ Drop(c) \/ Abort(c)

Spec == Init /\ [][Next]_vars
=============================================================================
