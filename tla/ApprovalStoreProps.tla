------------------------- MODULE ApprovalStoreProps -------------------------
(***************************************************************************)
(* What is claimed of ApprovalStore.                                       *)
(***************************************************************************)
EXTENDS ApprovalStore

(* Every variable keeps its type.                                          *)
TypeOK ==
  /\ clock \in [Clock -> Nat]
  /\ backend \in Backend
  /\ reserved \subseteq Slot
  /\ payload \subseteq Reference /\ terminal \subseteq Reference
  /\ pc \in [Caller -> Point]
  /\ ref \in [Caller -> Reference]
  /\ stale \in [Caller -> [slots : SUBSET Slot, refs : SUBSET Reference]]
  /\ drawn \in Nat
  /\ issued \subseteq Reference
  /\ executions \in [issued -> Nat]
  /\ spent \subseteq Reference

(* An approval releases its command once at the most, however many callers *)
(* present it, whatever their clocks show, whichever of them are killed,   *)
(* and although the record of a spent reference is deleted.                *)
SpentOnce == \A r \in issued : executions[r] <= 1

(* What a client was given stays valid: until a reference is spent, or     *)
(* expired by some clock, its payload is there.                            *)
Available ==
  \A r \in issued \ spent :
    r \in payload \/ \E k \in Clock : Expiry(r) <= clock[k]

(* No clock shows that a reference has expired.                            *)
Live(r) == \A k \in Clock : clock[k] < Expiry(r)

(* Admission: of the live payloads in the store no two share a slot of a   *)
(* window, hence there are PerWindow to a window at the most: a cleanup    *)
(* never frees a slot whose command may still be approved, though slots    *)
(* and payloads are listed and deleted apart.                              *)
OneLivePerSlot ==
  \A r, s \in payload :
    Live(r) /\ Live(s) /\ SlotOf(r) = SlotOf(s) => r = s

(***************************************************************************)
(* The inductive invariants behind these.                                  *)
(***************************************************************************)

(* A retention between drawing its random id and returning the reference.  *)
Retaining(c) == pc[c] \in {"probe", "probeDelete", "put", "recheck", "drop"}
(* A resolution between consuming the payload and returning the command.   *)
Spending(c)  == pc[c] \in {"consumed", "grant", "return"}

(* Ids are drawn once: what retentions are busy with is theirs alone.      *)
IdInv ==
  /\ \A r \in payload \cup terminal \cup issued \cup spent : r.id \in 1 .. drawn
  /\ \A c \in Caller :
       /\ Retaining(c) => ref[c].id \in 1 .. drawn
                          /\ ref[c] \notin issued \cup spent
       /\ pc[c] \in {"probe", "put"} => ref[c] \notin payload \cup terminal
       /\ pc[c] \in {"resolveCleanup", "read"} => ref[c] \in issued \cup {NoRef}
       /\ pc[c] \in ResolvePoint \ {"resolveCleanup", "read"} => ref[c] \in issued
  /\ \A c, d \in Caller :
       Retaining(c) /\ Retaining(d) /\ ref[c].id = ref[d].id => c = d

(* On a server that does not fence replacements nothing is retained.       *)
FenceInv ==
  backend = "unfenced" =>
    /\ payload = {} /\ issued = {}
    /\ \A c \in Caller : pc[c] \notin {"put", "recheck", "drop"}

(* A consumed payload is gone for good, and exactly one caller, or one     *)
(* execution, has it.                                                      *)
SpendInv ==
  /\ payload \cap spent = {}
  /\ \A r \in issued :
       executions[r] <= 1 /\ (executions[r] = 1 => r \in spent)
  /\ \A c \in Caller :
       /\ pc[c] = "deny" => ref[c] \in spent
       /\ Spending(c) => ref[c] \in spent \cap issued /\ executions[ref[c]] = 0
  /\ \A c, d \in Caller :
       Spending(c) /\ Spending(d) /\ ref[c] = ref[d] => c = d

ExpiredBySome(r) == \E k \in Clock : Expiry(r) <= clock[k]

(* What a cleanup is about to delete has expired, ...                      *)
StaleInv == \A c \in Caller : \A r \in stale[c].refs : ExpiredBySome(r)
(* ... and so has what is about to be returned without its payload.        *)
RecheckInv ==
  \A c \in Caller : pc[c] = "recheck" => ref[c] \in payload \/ ExpiredBySome(ref[c])

(* What holds a slot: a payload, or a retention that will write one.       *)
Holding == payload \cup {ref[c] : c \in {d \in Caller : Retaining(d)}}

(* A slot about to be freed is of a window whose references expired, and   *)
(* the live ones hold slots that are taken, one each.                      *)
AdmissionInv ==
  /\ \A c \in Caller : \A s \in stale[c].slots :
       \E k \in Clock : (s.window + 2) * TTL <= clock[k]
  /\ \A r \in Holding : Live(r) => SlotOf(r) \in reserved
  /\ \A r, s \in Holding : Live(r) /\ Live(s) /\ SlotOf(r) = SlotOf(s) => r = s

(***************************************************************************)
(* What those who click rely on.  An approval lives while its payload is   *)
(* there, and, once its payload is consumed, in the hands of the one       *)
(* caller that consumed it.                                                *)
(***************************************************************************)
InHand(r) == \E c \in Caller : Spending(c) /\ ref[c] = r
live == {r \in issued : r \in payload \/ InHand(r)}

Contract == INSTANCE ApprovalContract
              WITH live <- live, executions <- executions

(* The store implements its contract: with listings, deletions, re-reads,  *)
(* conditional writes and clocks between, each caller's steps amount to    *)
(* issuing a reference, releasing its command once, or losing it.          *)
ImplementsContract == Contract!Spec
=============================================================================
