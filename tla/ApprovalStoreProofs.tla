------------------------ MODULE ApprovalStoreProofs ------------------------
(***************************************************************************)
(* Proofs about ApprovalStore, for every number of callers and clocks, and *)
(* every length and capacity of a window.                                  *)
(***************************************************************************)
EXTENDS ApprovalStoreProps, TLAPS

-----------------------------------------------------------------------------
(* Every variable keeps its type.                                          *)

(* A time lies in a window.                                                *)
LEMMA WindowNat == \A t \in Nat : WindowAt(t) \in Nat
  BY BoundAssumption DEF WindowAt

(* A reference is of a slot.                                               *)
LEMMA SlotOfType == \A r \in Reference : SlotOf(r) \in Slot
  BY WindowNat DEF SlotOf, Slot, Reference

(* The reference that was never issued is one.                             *)
LEMMA NoRefType == NoRef \in Reference
  BY BoundAssumption DEF NoRef, Reference, SlotNumber

(* Initially every variable has its type.                                  *)
LEMMA InitTypeOK == Init => TypeOK
  BY NoRefType DEF Init, TypeOK, Point, issued, Nothing

(* No step changes the type of a variable.                                 *)
LEMMA StepTypeOK == TypeOK /\ [Next]_vars => TypeOK'
<1> SUFFICES ASSUME TypeOK, [Next]_vars PROVE TypeOK'
  OBVIOUS
<1> USE ClockAssumption, BoundAssumption DEF TypeOK, Point, RetainPoint, ResolvePoint, store, Goto,
          issued, DeleteObject, Now
<1>0. ASSUME NEW c \in Caller, Done(c)
      PROVE  /\ pc' \in [Caller -> Point]
             /\ ref' \in [Caller -> Reference]
             /\ stale' \in [Caller -> [slots : SUBSET Slot, refs : SUBSET Reference]]
  BY <1>0, NoRefType DEF Done, Nothing
<1>1. ASSUME NEW k \in Clock, Tick(k) PROVE TypeOK'
  BY <1>1 DEF Tick
<1>2. ASSUME NEW c \in Caller, Abort(c) PROVE TypeOK'
  BY <1>0, <1>2 DEF Abort
<1>3. \A now \in Nat : Expired(now) \in [slots : SUBSET Slot, refs : SUBSET Reference]
  BY DEF Expired
<1>4. ASSUME NEW c \in Caller, BeginRetain(c) PROVE TypeOK'
  BY <1>3, <1>4 DEF BeginRetain
<1>5. ASSUME NEW c \in Caller, BeginResolve(c) PROVE TypeOK'
  BY <1>3, <1>5, NoRefType DEF BeginResolve
<1>6. ASSUME NEW c \in Caller, CleanupDelete(c) PROVE TypeOK'
  BY <1>6 DEF CleanupDelete
<1>7. ASSUME NEW c \in Caller, CleanedRetain(c) PROVE TypeOK'
  BY <1>7, NoRefType DEF CleanedRetain, NoRef, Reference
<1>8. ASSUME NEW c \in Caller, Reserve(c) PROVE TypeOK'
  <2>1. reserved' \subseteq Slot
    BY <1>8, SlotOfType DEF Reserve
  <2>2. CASE Done(c) /\ UNCHANGED drawn
    BY <1>0, <1>8, <2>1, <2>2 DEF Reserve
  <2>3. CASE /\ drawn' = drawn + 1
             /\ ref' = [ref EXCEPT ![c].id = drawn + 1]
             /\ Goto(c, IF backend \in {"s3", "unfenced"} THEN "probe" ELSE "put")
             /\ UNCHANGED stale
    <3>1. ref' \in [Caller -> Reference]
      BY <2>3 DEF Reference
    <3> QED
      BY <1>8, <2>1, <2>3, <3>1 DEF Reserve
  <2>4. CASE /\ ref' = [ref EXCEPT ![c].slot = @ + 1]
             /\ ref[c].slot + 1 < PerWindow
             /\ UNCHANGED <<drawn, pc, stale>>
    <3>1. ref[c] \in Reference /\ ref[c].slot + 1 \in SlotNumber
      BY <2>4, BoundAssumption DEF Reference, SlotNumber
    <3>2. ref' \in [Caller -> Reference]
      BY <2>4, <3>1 DEF Reference
    <3> QED
      BY <1>8, <2>1, <2>4, <3>2 DEF Reserve
  <2> QED
    BY <1>8, <2>2, <2>3, <2>4 DEF Reserve
<1>9. ASSUME NEW c \in Caller, Probe(c) PROVE TypeOK'
  BY <1>9 DEF Probe
<1>10. ASSUME NEW c \in Caller, Put(c) PROVE TypeOK'
  BY <1>10 DEF Put
<1>11. ASSUME NEW c \in Caller, Recheck(c) PROVE TypeOK'
  <2>1. CASE UNCHANGED <<executions, ref, stale>> /\ Goto(c, "drop")
    BY <1>11, <2>1 DEF Recheck
  <2>2. CASE Done(c) /\ executions' = [r \in issued \cup {ref[c]} |->
                                        IF r \in issued THEN executions[r] ELSE 0]
    <3>1. executions' \in [issued \cup {ref[c]} -> Nat]
      BY <2>2
    <3> QED
      BY <1>0, <1>11, <2>2, <3>1 DEF Recheck
  <2> QED
    BY <2>1, <2>2, <1>11 DEF Recheck
<1>12. ASSUME NEW c \in Caller, Drop(c) PROVE TypeOK'
  BY <1>0, <1>12 DEF Drop
<1>13. ASSUME NEW c \in Caller, CleanedResolve(c) PROVE TypeOK'
  BY <1>0, <1>13 DEF CleanedResolve
<1>14. ASSUME NEW c \in Caller, Read(c) PROVE TypeOK'
  BY <1>0, <1>14 DEF Read
<1>15. ASSUME NEW c \in Caller, Compare(c) PROVE TypeOK'
  BY <1>0, <1>15 DEF Compare
<1>16. ASSUME NEW c \in Caller, Replace(c) PROVE TypeOK'
  BY <1>0, <1>16 DEF Replace
<1>17. ASSUME NEW c \in Caller, CheckSpent(c) PROVE TypeOK'
  BY <1>17 DEF CheckSpent
<1>18. ASSUME NEW c \in Caller, Grant(c) PROVE TypeOK'
  BY <1>18 DEF Grant
<1>19. ASSUME NEW c \in Caller, Release(c) PROVE TypeOK'
  <2> DEFINE r == ref[c]
  <2>1. executions' = [s \in issued |-> IF s = r THEN executions[r] + 1 ELSE executions[s]]
    BY <1>19 DEF Release
  <2>2. executions' \in [issued -> Nat]
    BY <2>1
  <2> QED
    BY <1>0, <1>19, <2>2 DEF Release
<1>20. CASE UNCHANGED vars
  BY <1>20 DEF vars
<1> QED
  BY <1>1, <1>2, <1>4, <1>5, <1>6, <1>7, <1>8, <1>9, <1>10, <1>11, <1>12,
     <1>13, <1>14, <1>15, <1>16, <1>17, <1>18, <1>19, <1>20
     DEF Next, retain, resolve

(* Every variable keeps its type, and a window has PerWindow slots.        *)
THEOREM TypeCorrect == Spec => []TypeOK
  BY InitTypeOK, StepTypeOK, PTL DEF Spec

-----------------------------------------------------------------------------
(* A random id is drawn once, and a server that does not fence conditional *)
(* replacements is refused.                                                *)

(* No step draws an id twice.                                              *)
LEMMA StepIdInv == TypeOK /\ IdInv /\ [Next]_vars => IdInv'
<1> SUFFICES ASSUME TypeOK, IdInv, [Next]_vars PROVE IdInv'
  OBVIOUS
<1> USE DEF TypeOK, IdInv, Retaining, ResolvePoint, Reference, NoRef, store, Goto,
            Done, issued, DeleteObject
<1>0. ASSUME NEW c \in Caller, Done(c), UNCHANGED <<drawn, issued, spent>>,
             payload' \subseteq payload, terminal' \subseteq terminal
      PROVE  IdInv'
  BY <1>0
<1>1. ASSUME NEW k \in Clock, Tick(k) PROVE IdInv'
  BY <1>1 DEF Tick
<1>2. ASSUME NEW c \in Caller, Abort(c) PROVE IdInv'
  BY <1>0, <1>2 DEF Abort
<1>3. ASSUME NEW c \in Caller, BeginRetain(c) PROVE IdInv'
  BY <1>3 DEF BeginRetain
<1>4. ASSUME NEW c \in Caller, BeginResolve(c) PROVE IdInv'
  BY <1>4 DEF BeginResolve
<1>5. ASSUME NEW c \in Caller, CleanupDelete(c) PROVE IdInv'
  BY <1>5 DEF CleanupDelete
<1>6. ASSUME NEW c \in Caller, CleanedRetain(c) PROVE IdInv'
  BY <1>6 DEF CleanedRetain
<1>7. ASSUME NEW c \in Caller, Reserve(c) PROVE IdInv'
  <2>1. CASE Done(c) /\ UNCHANGED drawn
    BY <1>0, <1>7, <2>1 DEF Reserve
  <2>2. CASE /\ ref' = [ref EXCEPT ![c].slot = @ + 1]
             /\ UNCHANGED <<reserved, drawn, pc, stale>>
    BY <1>7, <2>2 DEF Reserve
  <2>3. CASE /\ drawn' = drawn + 1
             /\ ref' = [ref EXCEPT ![c].id = drawn + 1]
             /\ Goto(c, IF backend \in {"s3", "unfenced"} THEN "probe" ELSE "put")
    <3>1. \A r \in payload \cup terminal \cup issued \cup spent : r.id # drawn + 1
      OBVIOUS
    <3>2. ref'[c].id = drawn + 1 /\ \A d \in Caller \ {c} : ref'[d] = ref[d]
      BY <2>3
    <3> QED
      BY <1>7, <2>3, <3>1, <3>2 DEF Reserve
  <2> QED
    BY <1>7, <2>1, <2>2, <2>3 DEF Reserve
<1>8. ASSUME NEW c \in Caller, Probe(c) PROVE IdInv'
  BY <1>8 DEF Probe, Replaceable
<1>9. ASSUME NEW c \in Caller, Put(c) PROVE IdInv'
  BY <1>9 DEF Put
<1>10. ASSUME NEW c \in Caller, Recheck(c) PROVE IdInv'
  <2>1. CASE UNCHANGED <<executions, ref, stale>> /\ Goto(c, "drop")
    BY <1>10, <2>1 DEF Recheck
  <2>2. CASE Done(c) /\ issued' = issued \cup {ref[c]}
    BY <1>10, <2>2 DEF Recheck
  <2> QED
    BY <1>10, <2>1, <2>2 DEF Recheck
<1>11. ASSUME NEW c \in Caller, Drop(c) PROVE IdInv'
  BY <1>0, <1>11 DEF Drop
<1>12. ASSUME NEW c \in Caller, CleanedResolve(c) PROVE IdInv'
  BY <1>0, <1>12 DEF CleanedResolve
<1>13. ASSUME NEW c \in Caller, Read(c) PROVE IdInv'
  <2>1. CASE ref[c] \notin payload
    BY <1>0, <1>13, <2>1 DEF Read
  <2>2. CASE ref[c] \in payload
    <3>1. ref[c] # NoRef
      BY <2>2
    <3>2. ref[c] \in issued
      BY <1>13, <3>1 DEF Read
    <3> QED
      BY <1>13, <2>2, <3>2, SMTT(30) DEF Read
  <2> QED
    BY <2>1, <2>2
<1>14. ASSUME NEW c \in Caller, Compare(c) PROVE IdInv'
  <2>1. CASE Done(c) /\ UNCHANGED <<payload, terminal, spent>>
    BY <1>0, <1>14, <2>1 DEF Compare
  <2>2. CASE ref[c] \in payload /\ UNCHANGED <<ref, stale>>
    BY <1>14, <2>2, SMTT(30) DEF Compare
  <2> QED
    BY <1>14, <2>1, <2>2 DEF Compare
<1>15. ASSUME NEW c \in Caller, Replace(c) PROVE IdInv'
  <2>1. CASE Done(c) /\ UNCHANGED <<payload, terminal, spent>>
    BY <1>0, <1>15, <2>1 DEF Replace
  <2>2. CASE /\ payload' = payload \ {ref[c]}
             /\ terminal' = terminal \cup {ref[c]}
             /\ spent' = spent \cup {ref[c]}
             /\ Goto(c, "consumed") /\ UNCHANGED <<ref, stale>>
    BY <1>15, <2>2 DEF Replace
  <2> QED
    BY <1>15, <2>1, <2>2 DEF Replace
<1>16. ASSUME NEW c \in Caller, CheckSpent(c) PROVE IdInv'
  BY <1>16 DEF CheckSpent
<1>17. ASSUME NEW c \in Caller, Grant(c) PROVE IdInv'
  BY <1>17 DEF Grant
<1>18. ASSUME NEW c \in Caller, Release(c) PROVE IdInv'
  BY <1>18 DEF Release
<1>19. CASE UNCHANGED vars
  BY <1>19 DEF vars
<1> QED
  BY <1>1, <1>2, <1>3, <1>4, <1>5, <1>6, <1>7, <1>8, <1>9, <1>10, <1>11, <1>12,
     <1>13, <1>14, <1>15, <1>16, <1>17, <1>18, <1>19
     DEF Next, retain, resolve

(* Nothing is retained where replacements are not fenced.                  *)
LEMMA StepFenceInv == TypeOK /\ IdInv /\ FenceInv /\ [Next]_vars => FenceInv'
<1> SUFFICES ASSUME TypeOK, IdInv, FenceInv, [Next]_vars PROVE FenceInv'
  OBVIOUS
<1> USE DEF TypeOK, FenceInv, store, Goto, Done, DeleteObject, issued
<1>1. ASSUME NEW k \in Clock, Tick(k) PROVE FenceInv'
  BY <1>1 DEF Tick
<1>2. ASSUME NEW c \in Caller, Abort(c) PROVE FenceInv'
  BY <1>2 DEF Abort
<1>3. ASSUME NEW c \in Caller, BeginRetain(c) PROVE FenceInv'
  BY <1>3 DEF BeginRetain
<1>4. ASSUME NEW c \in Caller, BeginResolve(c) PROVE FenceInv'
  BY <1>4 DEF BeginResolve
<1>5. ASSUME NEW c \in Caller, CleanupDelete(c) PROVE FenceInv'
  BY <1>5 DEF CleanupDelete
<1>6. ASSUME NEW c \in Caller, CleanedRetain(c) PROVE FenceInv'
  BY <1>6 DEF CleanedRetain
<1>7. ASSUME NEW c \in Caller, Reserve(c) PROVE FenceInv'
  BY <1>7 DEF Reserve
<1>8. ASSUME NEW c \in Caller, Probe(c) PROVE FenceInv'
  BY <1>8 DEF Probe, Replaceable, IdInv
<1>9. ASSUME NEW c \in Caller, Put(c) PROVE FenceInv'
  BY <1>9 DEF Put
<1>10. ASSUME NEW c \in Caller, Recheck(c) PROVE FenceInv'
  BY <1>10 DEF Recheck
<1>11. ASSUME NEW c \in Caller, Drop(c) PROVE FenceInv'
  BY <1>11 DEF Drop
<1>12. ASSUME NEW c \in Caller, CleanedResolve(c) PROVE FenceInv'
  BY <1>12 DEF CleanedResolve
<1>13. ASSUME NEW c \in Caller, Read(c) PROVE FenceInv'
  BY <1>13 DEF Read
<1>14. ASSUME NEW c \in Caller, Compare(c) PROVE FenceInv'
  BY <1>14 DEF Compare
<1>15. ASSUME NEW c \in Caller, Replace(c) PROVE FenceInv'
  BY <1>15 DEF Replace
<1>16. ASSUME NEW c \in Caller, CheckSpent(c) PROVE FenceInv'
  BY <1>16 DEF CheckSpent
<1>17. ASSUME NEW c \in Caller, Grant(c) PROVE FenceInv'
  BY <1>17 DEF Grant
<1>18. ASSUME NEW c \in Caller, Release(c) PROVE FenceInv'
  BY <1>18 DEF Release
<1>19. CASE UNCHANGED vars
  BY <1>19 DEF vars
<1> QED
  BY <1>1, <1>2, <1>3, <1>4, <1>5, <1>6, <1>7, <1>8, <1>9, <1>10, <1>11, <1>12,
     <1>13, <1>14, <1>15, <1>16, <1>17, <1>18, <1>19
     DEF Next, retain, resolve

-----------------------------------------------------------------------------
(* An approval is spent once.                                              *)

(* What is about to be consumed was not.                                   *)
LEMMA Unspent ==
  ASSUME TypeOK, SpendInv, NEW r \in issued, r \in payload
  PROVE  r \notin spent /\ executions[r] = 0
<1>1. r \notin spent
  BY DEF SpendInv
<1>2. executions[r] \in Nat
  BY DEF TypeOK
<1>3. executions[r] <= 1 /\ executions[r] # 1
  BY <1>1 DEF SpendInv
<1> QED
  BY <1>1, <1>2, <1>3

(* A consumed payload stays consumed, by one caller.                       *)
LEMMA StepSpendInv ==
  TypeOK /\ IdInv /\ FenceInv /\ SpendInv /\ [Next]_vars => SpendInv'
<1> SUFFICES ASSUME TypeOK, IdInv, FenceInv, SpendInv, [Next]_vars PROVE SpendInv'
  OBVIOUS
<1> USE DEF TypeOK, SpendInv, Spending, store, Goto, Done, issued, DeleteObject
<1>0. ASSUME NEW c \in Caller, Done(c), UNCHANGED <<executions, spent>>,
             payload' \subseteq payload
      PROVE  SpendInv'
  BY <1>0
<1>1. ASSUME NEW k \in Clock, Tick(k) PROVE SpendInv'
  BY <1>1 DEF Tick
<1>2. ASSUME NEW c \in Caller, Abort(c) PROVE SpendInv'
  BY <1>0, <1>2 DEF Abort
<1>3. ASSUME NEW c \in Caller, BeginRetain(c) PROVE SpendInv'
  BY <1>0, <1>3 DEF BeginRetain
<1>4. ASSUME NEW c \in Caller, BeginResolve(c) PROVE SpendInv'
  BY <1>0, <1>4 DEF BeginResolve
<1>5. ASSUME NEW c \in Caller, CleanupDelete(c) PROVE SpendInv'
  BY <1>0, <1>5 DEF CleanupDelete
<1>6. ASSUME NEW c \in Caller, CleanedRetain(c) PROVE SpendInv'
  BY <1>0, <1>6 DEF CleanedRetain
<1>7. ASSUME NEW c \in Caller, Reserve(c) PROVE SpendInv'
  BY <1>0, <1>7 DEF Reserve
<1>8. ASSUME NEW c \in Caller, Probe(c) PROVE SpendInv'
  BY <1>0, <1>8 DEF Probe
<1>9. ASSUME NEW c \in Caller, Put(c) PROVE SpendInv'
  BY <1>0, <1>9 DEF Put, IdInv, Retaining
<1>10. ASSUME NEW c \in Caller, Recheck(c) PROVE SpendInv'
  <2>1. CASE UNCHANGED <<executions, ref, stale>> /\ Goto(c, "drop")
    BY <1>10, <2>1 DEF Recheck
  <2>2. CASE Done(c) /\ executions' = [r \in issued \cup {ref[c]} |->
                                        IF r \in issued THEN executions[r] ELSE 0]
    BY <1>10, <2>2 DEF Recheck
  <2> QED
    BY <1>10, <2>1, <2>2 DEF Recheck
<1>11. ASSUME NEW c \in Caller, Drop(c) PROVE SpendInv'
  BY <1>0, <1>11 DEF Drop
<1>12. ASSUME NEW c \in Caller, CleanedResolve(c) PROVE SpendInv'
  BY <1>0, <1>12 DEF CleanedResolve
<1>13. ASSUME NEW c \in Caller, Read(c) PROVE SpendInv'
  BY <1>0, <1>13 DEF Read
<1>14. ASSUME NEW c \in Caller, Compare(c) PROVE SpendInv'
  <2>1. CASE Done(c) /\ UNCHANGED <<payload, spent>>
    BY <1>0, <1>14, <2>1 DEF Compare
  <2>2. CASE ref[c] \in payload /\ Goto(c, "replace") /\ UNCHANGED <<ref, payload, spent>>
    BY <1>14, <2>2 DEF Compare
  <2>3. CASE /\ ref[c] \in payload /\ DeleteObject(ref[c])
             /\ spent' = spent \cup {ref[c]} /\ Goto(c, "consumed") /\ UNCHANGED ref
    <3>1. ref[c] \in issued
      BY <1>14 DEF Compare, IdInv, ResolvePoint
    <3>2. ref[c] \notin spent /\ executions[ref[c]] = 0
      BY <2>3, <3>1, Unspent
    <3> QED
      BY <1>14, <2>3, <3>1, <3>2 DEF Compare
  <2> QED
    BY <1>14, <2>1, <2>2, <2>3 DEF Compare
<1>15. ASSUME NEW c \in Caller, Replace(c) PROVE SpendInv'
  <2>1. CASE Done(c) /\ UNCHANGED <<payload, spent>>
    BY <1>0, <1>15, <2>1 DEF Replace
  <2>2. CASE /\ Replaceable(ref[c])
             /\ payload' = payload \ {ref[c]} /\ spent' = spent \cup {ref[c]}
             /\ Goto(c, "consumed") /\ UNCHANGED ref
    <3>1. ref[c] \in issued
      BY <1>15 DEF Replace, IdInv, ResolvePoint
    <3>2. ref[c] \in payload
      BY <2>2, <3>1 DEF Replaceable, FenceInv
    <3>3. ref[c] \notin spent /\ executions[ref[c]] = 0
      BY <3>1, <3>2, Unspent
    <3> QED
      BY <1>15, <2>2, <3>1, <3>2, <3>3 DEF Replace
  <2> QED
    BY <1>15, <2>1, <2>2 DEF Replace
<1>16. ASSUME NEW c \in Caller, CheckSpent(c) PROVE SpendInv'
  BY <1>0, <1>16 DEF CheckSpent
<1>17. ASSUME NEW c \in Caller, Grant(c) PROVE SpendInv'
  BY <1>0, <1>17 DEF Grant
<1>18. ASSUME NEW c \in Caller, Release(c) PROVE SpendInv'
  <2>1. \A d \in Caller \ {c} : Spending(d) => ref[d] # ref[c]
    BY <1>18 DEF Release
  <2>2. ref[c] \in issued \cap spent /\ executions[ref[c]] = 0
    BY <1>18 DEF Release
  <2> QED
    BY <1>18, <2>1, <2>2 DEF Release
<1>19. CASE UNCHANGED vars
  BY <1>19 DEF vars
<1> QED
  BY <1>1, <1>2, <1>3, <1>4, <1>5, <1>6, <1>7, <1>8, <1>9, <1>10, <1>11,
     <1>12, <1>13, <1>14, <1>15, <1>16, <1>17, <1>18, <1>19
     DEF Next, retain, resolve

-----------------------------------------------------------------------------
(* Windows: arithmetic.                                                    *)

(* A time lies between the ends of its window.                             *)
LEMMA WindowBounds ==
  ASSUME NEW t \in Nat
  PROVE  /\ WindowAt(t) \in Nat
         /\ WindowAt(t) * TTL <= t
         /\ t < (WindowAt(t) + 1) * TTL
  BY BoundAssumption DEF WindowAt

(* Multiplication is monotone.                                             *)
LEMMA TimesMono ==
  ASSUME NEW a \in Nat, NEW b \in Nat, NEW n \in Nat, a <= b
  PROVE  a * n <= b * n
  OBVIOUS
(* A whole window between two times is a TTL.                              *)
LEMMA WindowsApart ==
  ASSUME NEW s \in Nat, NEW t \in Nat, WindowAt(s) + 1 < WindowAt(t)
  PROVE  s + TTL <= t
<1>1. (WindowAt(s) + 2) * TTL <= WindowAt(t) * TTL
  BY WindowBounds, TimesMono, BoundAssumption
<1>2. (WindowAt(s) + 2) * TTL = (WindowAt(s) + 1) * TTL + TTL
  BY WindowBounds, BoundAssumption
<1>3. /\ WindowAt(t) * TTL <= t /\ s < (WindowAt(s) + 1) * TTL
      /\ (WindowAt(s) + 1) * TTL \in Nat /\ WindowAt(t) * TTL \in Nat /\ TTL \in Nat
  BY WindowBounds, BoundAssumption
<1> QED
  BY <1>1, <1>2, <1>3

-----------------------------------------------------------------------------
(* An issued reference is available until it is spent or expired.          *)

(* Clocks do not go back.                                                  *)
LEMMA ClocksAdvance ==
  ASSUME TypeOK, [Next]_vars
  PROVE  \A k \in Clock : clock[k] <= clock'[k]
<1>1. CASE \E k \in Clock : Tick(k)
  BY <1>1 DEF TypeOK, Tick
<1>2. CASE UNCHANGED clock
  BY <1>2 DEF TypeOK
<1>3. (\E k \in Clock : Tick(k)) \/ UNCHANGED clock
  BY DEF Next, vars, Abort, retain, resolve, BeginRetain, BeginResolve,
     CleanupDelete, CleanedRetain, Reserve, Probe, Put, Recheck, Drop,
     CleanedResolve, Read, Compare, Replace, CheckSpent, Grant, Release
<1> QED
  BY <1>1, <1>2, <1>3

(* What has expired stays expired.                                         *)
LEMMA StaysExpired ==
  ASSUME TypeOK, [Next]_vars, NEW r \in Reference, ExpiredBySome(r)
  PROVE  ExpiredBySome(r)'
<1>1. /\ Expiry(r) \in Nat
      /\ \A k \in Clock : clock[k] \in Nat /\ clock'[k] \in Nat
  BY StepTypeOK, BoundAssumption DEF TypeOK, Expiry, Reference
<1> QED
  BY <1>1, ClocksAdvance DEF ExpiredBySome, Expiry

(* A reference that a cleanup lists has expired.                           *)
LEMMA ListedExpired ==
  ASSUME TypeOK, NEW c \in Caller, NEW r \in Expired(Now(c)).refs
  PROVE  r \in Reference /\ ExpiredBySome(r)
<1>1. ClockOf[c] \in Clock /\ Now(c) \in Nat /\ r \in Reference /\ r.created \in Nat
  BY ClockAssumption DEF TypeOK, Now, Reference, Expired
<1>2. Expiry(r) <= Now(c)
  BY <1>1, WindowsApart DEF Expired, Expiry
<1> QED
  BY <1>1, <1>2 DEF ExpiredBySome, Now

(* Cleanups list expired references only.                                  *)
LEMMA StepStaleInv == TypeOK /\ StaleInv /\ [Next]_vars => StaleInv'
<1> SUFFICES ASSUME TypeOK, StaleInv, [Next]_vars PROVE StaleInv'
  OBVIOUS
<1>0. \A r \in Reference : ExpiredBySome(r) => ExpiredBySome(r)'
  BY StaysExpired
<1> USE DEF TypeOK, StaleInv, store, Goto, Done, Nothing, DeleteObject
<1>1. ASSUME NEW k \in Clock, Tick(k) PROVE StaleInv'
  BY <1>0, <1>1 DEF Tick
<1>2. ASSUME NEW c \in Caller, Abort(c) PROVE StaleInv'
  BY <1>0, <1>2 DEF Abort
<1>3. ASSUME NEW c \in Caller, BeginRetain(c) PROVE StaleInv'
  <2>1. \A r \in stale'[c].refs : r \in Reference /\ ExpiredBySome(r)
    BY <1>3, ListedExpired DEF BeginRetain
  <2> QED
    BY <1>0, <1>3, <2>1 DEF BeginRetain
<1>4. ASSUME NEW c \in Caller, BeginResolve(c) PROVE StaleInv'
  <2>1. \A r \in stale'[c].refs : r \in Reference /\ ExpiredBySome(r)
    BY <1>4, ListedExpired DEF BeginResolve
  <2> QED
    BY <1>0, <1>4, <2>1 DEF BeginResolve
<1>5. ASSUME NEW c \in Caller, CleanupDelete(c) PROVE StaleInv'
  BY <1>0, <1>5 DEF CleanupDelete
<1>6. ASSUME NEW c \in Caller, CleanedRetain(c) PROVE StaleInv'
  BY <1>0, <1>6 DEF CleanedRetain
<1>7. ASSUME NEW c \in Caller, Reserve(c) PROVE StaleInv'
  BY <1>0, <1>7 DEF Reserve
<1>8. ASSUME NEW c \in Caller, Probe(c) PROVE StaleInv'
  BY <1>0, <1>8 DEF Probe
<1>9. ASSUME NEW c \in Caller, Put(c) PROVE StaleInv'
  BY <1>0, <1>9 DEF Put
<1>10. ASSUME NEW c \in Caller, Recheck(c) PROVE StaleInv'
  BY <1>0, <1>10 DEF Recheck
<1>11. ASSUME NEW c \in Caller, Drop(c) PROVE StaleInv'
  BY <1>0, <1>11 DEF Drop
<1>12. ASSUME NEW c \in Caller, CleanedResolve(c) PROVE StaleInv'
  BY <1>0, <1>12 DEF CleanedResolve
<1>13. ASSUME NEW c \in Caller, Read(c) PROVE StaleInv'
  BY <1>0, <1>13 DEF Read
<1>14. ASSUME NEW c \in Caller, Compare(c) PROVE StaleInv'
  BY <1>0, <1>14 DEF Compare
<1>15. ASSUME NEW c \in Caller, Replace(c) PROVE StaleInv'
  BY <1>0, <1>15 DEF Replace
<1>16. ASSUME NEW c \in Caller, CheckSpent(c) PROVE StaleInv'
  BY <1>0, <1>16 DEF CheckSpent
<1>17. ASSUME NEW c \in Caller, Grant(c) PROVE StaleInv'
  BY <1>0, <1>17 DEF Grant
<1>18. ASSUME NEW c \in Caller, Release(c) PROVE StaleInv'
  BY <1>0, <1>18 DEF Release
<1>19. CASE UNCHANGED vars
  BY <1>0, <1>19 DEF vars
<1> QED
  BY <1>1, <1>2, <1>3, <1>4, <1>5, <1>6, <1>7, <1>8, <1>9, <1>10, <1>11,
     <1>12, <1>13, <1>14, <1>15, <1>16, <1>17, <1>18, <1>19
     DEF Next, retain, resolve

(* What is rechecked is in the store, or has expired.                      *)
LEMMA StepRecheckInv ==
  TypeOK /\ IdInv /\ StaleInv /\ RecheckInv /\ [Next]_vars => RecheckInv'
<1> SUFFICES ASSUME TypeOK, IdInv, StaleInv, RecheckInv, [Next]_vars
             PROVE  RecheckInv'
  OBVIOUS
<1>0. \A r \in Reference : ExpiredBySome(r) => ExpiredBySome(r)'
  BY StaysExpired
<1> USE DEF TypeOK, RecheckInv, store, Goto, Done, DeleteObject
<1>1. ASSUME NEW k \in Clock, Tick(k) PROVE RecheckInv'
  BY <1>0, <1>1 DEF Tick
<1>2. ASSUME NEW c \in Caller, Abort(c) PROVE RecheckInv'
  BY <1>0, <1>2 DEF Abort
<1>3. ASSUME NEW c \in Caller, BeginRetain(c) PROVE RecheckInv'
  BY <1>0, <1>3 DEF BeginRetain
<1>4. ASSUME NEW c \in Caller, BeginResolve(c) PROVE RecheckInv'
  BY <1>0, <1>4 DEF BeginResolve
<1>5. ASSUME NEW c \in Caller, CleanupDelete(c) PROVE RecheckInv'
  BY <1>0, <1>5 DEF CleanupDelete, StaleInv
<1>6. ASSUME NEW c \in Caller, CleanedRetain(c) PROVE RecheckInv'
  BY <1>0, <1>6 DEF CleanedRetain
<1>7. ASSUME NEW c \in Caller, Reserve(c) PROVE RecheckInv'
  BY <1>0, <1>7 DEF Reserve
<1>8. ASSUME NEW c \in Caller, Probe(c) PROVE RecheckInv'
  BY <1>0, <1>8 DEF Probe
<1>9. ASSUME NEW c \in Caller, Put(c) PROVE RecheckInv'
  BY <1>0, <1>9 DEF Put
<1>10. ASSUME NEW c \in Caller, Recheck(c) PROVE RecheckInv'
  BY <1>0, <1>10 DEF Recheck
<1>11. ASSUME NEW c \in Caller, Drop(c) PROVE RecheckInv'
  <2>1. \A d \in Caller : pc'[d] = "recheck" => pc[d] = "recheck" /\ ref'[d] = ref[d] /\ ref[d] # ref[c]
    BY <1>11 DEF Drop, IdInv, Retaining, ResolvePoint
  <2> QED
    BY <1>0, <1>11, <2>1 DEF Drop
<1>12. ASSUME NEW c \in Caller, CleanedResolve(c) PROVE RecheckInv'
  BY <1>0, <1>12 DEF CleanedResolve
<1>13. ASSUME NEW c \in Caller, Read(c) PROVE RecheckInv'
  BY <1>0, <1>13 DEF Read
<1>14. ASSUME NEW c \in Caller, Compare(c) PROVE RecheckInv'
  <2>1. \A d \in Caller : pc'[d] = "recheck" => pc[d] = "recheck" /\ ref'[d] = ref[d] /\ ref[d] # ref[c]
    BY <1>14 DEF Compare, IdInv, Retaining, ResolvePoint
  <2> QED
    BY <1>0, <1>14, <2>1 DEF Compare
<1>15. ASSUME NEW c \in Caller, Replace(c) PROVE RecheckInv'
  <2>1. \A d \in Caller : pc'[d] = "recheck" => pc[d] = "recheck" /\ ref'[d] = ref[d] /\ ref[d] # ref[c]
    BY <1>15 DEF Replace, IdInv, Retaining, ResolvePoint
  <2> QED
    BY <1>0, <1>15, <2>1 DEF Replace
<1>16. ASSUME NEW c \in Caller, CheckSpent(c) PROVE RecheckInv'
  BY <1>0, <1>16 DEF CheckSpent
<1>17. ASSUME NEW c \in Caller, Grant(c) PROVE RecheckInv'
  <2>1. \A d \in Caller : pc'[d] = "recheck" => pc[d] = "recheck" /\ ref'[d] = ref[d] /\ ref[d] # ref[c]
    BY <1>17 DEF Grant, IdInv, Retaining, ResolvePoint
  <2> QED
    BY <1>0, <1>17, <2>1 DEF Grant
<1>18. ASSUME NEW c \in Caller, Release(c) PROVE RecheckInv'
  BY <1>0, <1>18 DEF Release
<1>19. CASE UNCHANGED vars
  BY <1>0, <1>19 DEF vars
<1> QED
  BY <1>1, <1>2, <1>3, <1>4, <1>5, <1>6, <1>7, <1>8, <1>9, <1>10, <1>11,
     <1>12, <1>13, <1>14, <1>15, <1>16, <1>17, <1>18, <1>19
     DEF Next, retain, resolve

(* No step removes a live unspent payload.                                 *)
LEMMA StepAvailable ==
  TypeOK /\ IdInv /\ SpendInv /\ StaleInv /\ RecheckInv /\ Available /\ [Next]_vars
    => Available'
<1> SUFFICES ASSUME TypeOK, IdInv, SpendInv, StaleInv, RecheckInv, Available, [Next]_vars
             PROVE  Available'
  OBVIOUS
<1>0. \A r \in Reference : ExpiredBySome(r) => ExpiredBySome(r)'
  BY StaysExpired
<1>a. Available' <=> \A r \in (issued \ spent)' : r \in payload' \/ ExpiredBySome(r)'
  BY DEF Available, ExpiredBySome
<1>b. \A r \in issued \ spent : r \in Reference /\ (r \in payload \/ ExpiredBySome(r))
  BY DEF Available, ExpiredBySome, TypeOK
<1> USE DEF store, Goto, Done, DeleteObject, issued
<1>1. ASSUME NEW k \in Clock, Tick(k) PROVE Available'
  BY <1>0, <1>a, <1>b, <1>1 DEF Tick
<1>2. ASSUME NEW c \in Caller, Abort(c) PROVE Available'
  BY <1>0, <1>a, <1>b, <1>2 DEF Abort
<1>3. ASSUME NEW c \in Caller, BeginRetain(c) PROVE Available'
  BY <1>0, <1>a, <1>b, <1>3 DEF BeginRetain
<1>4. ASSUME NEW c \in Caller, BeginResolve(c) PROVE Available'
  BY <1>0, <1>a, <1>b, <1>4 DEF BeginResolve
<1>5. ASSUME NEW c \in Caller, CleanupDelete(c) PROVE Available'
  BY <1>0, <1>a, <1>b, <1>5 DEF CleanupDelete, StaleInv, TypeOK
<1>6. ASSUME NEW c \in Caller, CleanedRetain(c) PROVE Available'
  BY <1>0, <1>a, <1>b, <1>6 DEF CleanedRetain
<1>7. ASSUME NEW c \in Caller, Reserve(c) PROVE Available'
  BY <1>0, <1>a, <1>b, <1>7 DEF Reserve
<1>8. ASSUME NEW c \in Caller, Probe(c) PROVE Available'
  BY <1>0, <1>a, <1>b, <1>8 DEF Probe
<1>9. ASSUME NEW c \in Caller, Put(c) PROVE Available'
  BY <1>0, <1>a, <1>b, <1>9 DEF Put
<1>10. ASSUME NEW c \in Caller, Recheck(c) PROVE Available'
  BY <1>0, <1>a, <1>b, <1>10 DEF Recheck, RecheckInv, TypeOK
<1>11. ASSUME NEW c \in Caller, Drop(c) PROVE Available'
  BY <1>0, <1>a, <1>b, <1>11 DEF Drop, IdInv, SpendInv, Retaining
<1>12. ASSUME NEW c \in Caller, CleanedResolve(c) PROVE Available'
  BY <1>0, <1>a, <1>b, <1>12 DEF CleanedResolve
<1>13. ASSUME NEW c \in Caller, Read(c) PROVE Available'
  BY <1>0, <1>a, <1>b, <1>13 DEF Read
<1>14. ASSUME NEW c \in Caller, Compare(c) PROVE Available'
  BY <1>0, <1>a, <1>b, <1>14 DEF Compare
<1>15. ASSUME NEW c \in Caller, Replace(c) PROVE Available'
  BY <1>0, <1>a, <1>b, <1>15 DEF Replace
<1>16. ASSUME NEW c \in Caller, CheckSpent(c) PROVE Available'
  BY <1>0, <1>a, <1>b, <1>16 DEF CheckSpent
<1>17. ASSUME NEW c \in Caller, Grant(c) PROVE Available'
  BY <1>0, <1>a, <1>b, <1>17 DEF Grant, SpendInv, Spending
<1>18. ASSUME NEW c \in Caller, Release(c) PROVE Available'
  BY <1>0, <1>a, <1>b, <1>18 DEF Release
<1>19. CASE UNCHANGED vars
  BY <1>0, <1>a, <1>b, <1>19 DEF vars
<1> QED
  BY <1>1, <1>2, <1>3, <1>4, <1>5, <1>6, <1>7, <1>8, <1>9, <1>10, <1>11,
     <1>12, <1>13, <1>14, <1>15, <1>16, <1>17, <1>18, <1>19
     DEF Next, retain, resolve

-----------------------------------------------------------------------------
(* Admission.                                                              *)

(* What is live was live.                                                  *)
LEMMA LiveBefore ==
  ASSUME TypeOK, [Next]_vars, NEW r \in Reference, Live(r)'
  PROVE  Live(r)
<1>1. /\ Expiry(r) \in Nat
      /\ \A k \in Clock : clock[k] \in Nat /\ clock'[k] \in Nat
  BY StepTypeOK, BoundAssumption DEF TypeOK, Expiry, Reference
<1> QED
  BY <1>1, ClocksAdvance DEF Live, Expiry

(* A slot that a cleanup lists is of a window none of whose references is  *)
(* live.                                                                   *)
LEMMA ListedSlot ==
  ASSUME TypeOK, NEW c \in Caller, NEW s \in Expired(Now(c)).slots
  PROVE  \E k \in Clock : (s.window + 2) * TTL <= clock[k]
<1>1. ClockOf[c] \in Clock /\ Now(c) \in Nat /\ s.window \in Nat
  BY ClockAssumption DEF TypeOK, Now, Slot, Expired
<1>2. s.window + 2 <= WindowAt(Now(c)) /\ WindowAt(Now(c)) \in Nat
  BY <1>1, WindowNat DEF Expired
<1>3. (s.window + 2) * TTL <= WindowAt(Now(c)) * TTL
  BY <1>1, <1>2, TimesMono, BoundAssumption
<1>4. WindowAt(Now(c)) * TTL <= Now(c)
  BY <1>1, WindowBounds
<1>5. (s.window + 2) * TTL \in Nat /\ WindowAt(Now(c)) * TTL \in Nat
  BY <1>1, <1>2, BoundAssumption
<1>6. (s.window + 2) * TTL <= Now(c)
  BY <1>1, <1>3, <1>4, <1>5
<1> QED
  BY <1>1, <1>6 DEF Now

(* The slot of a live reference is not one that is freed.                  *)
LEMMA LiveKeepsSlot ==
  ASSUME TypeOK, NEW r \in Reference, Live(r), NEW s \in Slot,
         \E k \in Clock : (s.window + 2) * TTL <= clock[k]
  PROVE  SlotOf(r) # s
<1> SUFFICES ASSUME SlotOf(r) = s PROVE FALSE
  OBVIOUS
<1>1. PICK k \in Clock : (s.window + 2) * TTL <= clock[k]
  OBVIOUS
<1>2. s.window = WindowAt(r.created) /\ r.created \in Nat /\ s.window \in Nat
  BY WindowNat DEF SlotOf, Reference
<1>3. r.created < (s.window + 1) * TTL
  BY <1>2, WindowBounds
<1>4. (s.window + 2) * TTL = (s.window + 1) * TTL + TTL
  BY <1>2, BoundAssumption
<1>5. clock[k] < r.created + TTL /\ clock[k] \in Nat
  BY <1>1 DEF Live, Expiry, TypeOK
<1>6. (s.window + 1) * TTL \in Nat /\ TTL \in Nat
  BY <1>2, BoundAssumption
<1> QED
  BY <1>1, <1>2, <1>3, <1>4, <1>5, <1>6

(* Steps that add no holder and free no slot.                              *)
LEMMA FewerHolding ==
  ASSUME TypeOK, [Next]_vars, AdmissionInv, Holding' \subseteq Holding,
         reserved \subseteq reserved',
         \A c \in Caller : \A s \in stale'[c].slots :
           \E k \in Clock : (s.window + 2) * TTL <= clock[k]
  PROVE  AdmissionInv'
<1>1. Holding \subseteq Reference /\ Holding' \subseteq Reference
  BY StepTypeOK DEF TypeOK, Holding
<1>2. \A r \in Holding' : Live(r)' => Live(r) /\ r \in Holding
  BY <1>1, LiveBefore
<1>3. \A c \in Caller : \A s \in stale'[c].slots :
        \E k \in Clock : (s.window + 2) * TTL <= clock'[k]
  <2> SUFFICES ASSUME NEW c \in Caller, NEW s \in stale'[c].slots
               PROVE  \E k \in Clock : (s.window + 2) * TTL <= clock'[k]
    OBVIOUS
  <2>1. s \in Slot
    BY StepTypeOK DEF TypeOK
  <2>2. (s.window + 2) * TTL \in Nat
    BY <2>1, BoundAssumption DEF Slot
  <2>3. \A k \in Clock : clock[k] \in Nat /\ clock'[k] \in Nat
    BY StepTypeOK DEF TypeOK
  <2> QED
    BY <2>2, <2>3, ClocksAdvance
<1>4. \A r \in Holding' : Live(r)' => SlotOf(r) \in reserved'
  BY <1>2 DEF AdmissionInv
<1>5. \A r, s \in Holding' :
        Live(r)' /\ Live(s)' /\ SlotOf(r) = SlotOf(s) => r = s
  BY <1>2 DEF AdmissionInv
<1> QED
  BY <1>3, <1>4, <1>5 DEF AdmissionInv, SlotOf, WindowAt

(* Live references keep their slots, one each.                             *)
LEMMA StepAdmissionInv == TypeOK /\ AdmissionInv /\ [Next]_vars => AdmissionInv'
<1> SUFFICES ASSUME TypeOK, AdmissionInv, [Next]_vars PROVE AdmissionInv'
  OBVIOUS
<1>0. \A c \in Caller : \A s \in stale[c].slots :
        \E k \in Clock : (s.window + 2) * TTL <= clock[k]
  BY DEF AdmissionInv
<1> USE DEF store, Goto, Done, Nothing, DeleteObject
<1>1. ASSUME NEW k \in Clock, Tick(k) PROVE AdmissionInv'
  <2>1. Holding' = Holding /\ UNCHANGED <<reserved, stale>>
    BY <1>1 DEF Tick, Holding, Retaining
  <2> QED
    BY <1>0, <2>1, FewerHolding
<1>2. ASSUME NEW c \in Caller, Abort(c) PROVE AdmissionInv'
  <2>1. Holding' \subseteq Holding /\ reserved' = reserved
    BY <1>2 DEF Abort, Holding, Retaining, TypeOK
  <2>2. \A d \in Caller : stale'[d].slots \subseteq stale[d].slots
    BY <1>2 DEF Abort, TypeOK
  <2> QED
    BY <1>0, <2>1, <2>2, FewerHolding
<1>3. ASSUME NEW c \in Caller, BeginRetain(c) PROVE AdmissionInv'
  <2>1. Holding' \subseteq Holding /\ reserved' = reserved
    BY <1>3 DEF BeginRetain, Holding, Retaining, TypeOK
  <2>2. \A s \in stale'[c].slots : \E k \in Clock : (s.window + 2) * TTL <= clock[k]
    BY <1>3, ListedSlot DEF BeginRetain, TypeOK
  <2>3. \A d \in Caller \ {c} : stale'[d] = stale[d]
    BY <1>3 DEF BeginRetain, TypeOK
  <2> QED
    BY <1>0, <2>1, <2>2, <2>3, FewerHolding
<1>4. ASSUME NEW c \in Caller, BeginResolve(c) PROVE AdmissionInv'
  <2>1. Holding' \subseteq Holding /\ reserved' = reserved
    BY <1>4 DEF BeginResolve, Holding, Retaining, TypeOK
  <2>2. \A s \in stale'[c].slots : \E k \in Clock : (s.window + 2) * TTL <= clock[k]
    BY <1>4, ListedSlot DEF BeginResolve, TypeOK
  <2>3. \A d \in Caller \ {c} : stale'[d] = stale[d]
    BY <1>4 DEF BeginResolve, TypeOK
  <2> QED
    BY <1>0, <2>1, <2>2, <2>3, FewerHolding
<1>5. ASSUME NEW c \in Caller, CleanupDelete(c) PROVE AdmissionInv'
  <2>1. Holding' \subseteq Holding
    BY <1>5 DEF CleanupDelete, Holding, Retaining
  <2>2. \A d \in Caller : stale'[d].slots \subseteq stale[d].slots
    BY <1>5 DEF CleanupDelete, TypeOK
  <2>3. CASE reserved' = reserved
    BY <1>0, <2>1, <2>2, <2>3, FewerHolding
  <2>4. ASSUME NEW s \in stale[c].slots, reserved' = reserved \ {s}, clock' = clock
        PROVE  AdmissionInv'
    <3>1. s \in Slot /\ \E k \in Clock : (s.window + 2) * TTL <= clock[k]
      BY <1>0 DEF TypeOK
    <3>2. Holding \subseteq Reference
      BY DEF TypeOK, Holding
    <3>3. \A r \in Holding : Live(r) => SlotOf(r) \in reserved'
      BY <2>4, <3>1, <3>2, LiveKeepsSlot DEF AdmissionInv
    <3>4. \A r : Live(r)' <=> Live(r)
      BY <2>4 DEF Live, Expiry
    <3> QED
      BY <1>0, <2>1, <2>2, <2>4, <3>3, <3>4 DEF AdmissionInv, SlotOf, WindowAt
  <2> QED
    BY <1>5, <2>3, <2>4 DEF CleanupDelete
<1>6. ASSUME NEW c \in Caller, CleanedRetain(c) PROVE AdmissionInv'
  <2>1. Holding' \subseteq Holding /\ reserved' = reserved
    BY <1>6 DEF CleanedRetain, Holding, Retaining, TypeOK
  <2>2. \A d \in Caller : stale'[d].slots \subseteq stale[d].slots
    BY <1>6 DEF CleanedRetain, TypeOK
  <2> QED
    BY <1>0, <2>1, <2>2, FewerHolding
<1>7. ASSUME NEW c \in Caller, Reserve(c) PROVE AdmissionInv'
  <2>1. \A d \in Caller : stale'[d].slots \subseteq stale[d].slots
    BY <1>7 DEF Reserve, TypeOK
  <2>2. CASE Holding' \subseteq Holding /\ reserved' = reserved
    BY <1>0, <2>1, <2>2, FewerHolding
  <2>3. CASE /\ SlotOf(ref[c]) \notin reserved
             /\ reserved' = reserved \cup {SlotOf(ref[c])}
             /\ ref' = [ref EXCEPT ![c].id = drawn + 1]
    <3>1. SlotOf(ref'[c]) = SlotOf(ref[c])
      BY <2>3 DEF TypeOK, Reference, SlotOf
    <3>2. Holding' \subseteq Holding \cup {ref'[c]}
      BY <1>7, <2>3 DEF Reserve, Holding, Retaining, TypeOK
    <3>3. \A r : Live(r)' <=> Live(r)
      BY <1>7 DEF Reserve, Live, Expiry
    <3>4. \A r \in Holding' : Live(r) => SlotOf(r) \in reserved'
      BY <2>3, <3>1, <3>2 DEF AdmissionInv
    <3>5. \A r, s \in Holding' : Live(r) /\ Live(s) /\ SlotOf(r) = SlotOf(s) => r = s
      BY <2>3, <3>1, <3>2 DEF AdmissionInv
    <3>6. clock' = clock
      BY <1>7 DEF Reserve
    <3> QED
      BY <1>0, <2>1, <3>3, <3>4, <3>5, <3>6 DEF AdmissionInv, SlotOf, WindowAt
  <2> QED
    BY <1>7, <2>2, <2>3 DEF Reserve, Holding, Retaining, TypeOK
<1>8. ASSUME NEW c \in Caller, Probe(c) PROVE AdmissionInv'
  <2>1. Holding' \subseteq Holding /\ reserved' = reserved
    BY <1>8 DEF Probe, Holding, Retaining, TypeOK
  <2>2. \A d \in Caller : stale'[d].slots \subseteq stale[d].slots
    BY <1>8 DEF Probe, TypeOK
  <2> QED
    BY <1>0, <2>1, <2>2, FewerHolding
<1>9. ASSUME NEW c \in Caller, Put(c) PROVE AdmissionInv'
  <2>1. Holding' \subseteq Holding /\ reserved' = reserved
    BY <1>9 DEF Put, Holding, Retaining, TypeOK
  <2>2. \A d \in Caller : stale'[d].slots \subseteq stale[d].slots
    BY <1>9 DEF Put, TypeOK
  <2> QED
    BY <1>0, <2>1, <2>2, FewerHolding
<1>10. ASSUME NEW c \in Caller, Recheck(c) PROVE AdmissionInv'
  <2>1. Holding' \subseteq Holding /\ reserved' = reserved
    BY <1>10 DEF Recheck, Holding, Retaining, TypeOK
  <2>2. \A d \in Caller : stale'[d].slots \subseteq stale[d].slots
    BY <1>10 DEF Recheck, TypeOK
  <2> QED
    BY <1>0, <2>1, <2>2, FewerHolding
<1>11. ASSUME NEW c \in Caller, Drop(c) PROVE AdmissionInv'
  <2>1. Holding' \subseteq Holding /\ reserved' = reserved
    BY <1>11 DEF Drop, Holding, Retaining, TypeOK
  <2>2. \A d \in Caller : stale'[d].slots \subseteq stale[d].slots
    BY <1>11 DEF Drop, TypeOK
  <2> QED
    BY <1>0, <2>1, <2>2, FewerHolding
<1>12. ASSUME NEW c \in Caller, CleanedResolve(c) PROVE AdmissionInv'
  <2>1. Holding' \subseteq Holding /\ reserved' = reserved
    BY <1>12 DEF CleanedResolve, Holding, Retaining, TypeOK
  <2>2. \A d \in Caller : stale'[d].slots \subseteq stale[d].slots
    BY <1>12 DEF CleanedResolve, TypeOK
  <2> QED
    BY <1>0, <2>1, <2>2, FewerHolding
<1>13. ASSUME NEW c \in Caller, Read(c) PROVE AdmissionInv'
  <2>1. Holding' \subseteq Holding /\ reserved' = reserved
    BY <1>13 DEF Read, Holding, Retaining, TypeOK
  <2>2. \A d \in Caller : stale'[d].slots \subseteq stale[d].slots
    BY <1>13 DEF Read, TypeOK
  <2> QED
    BY <1>0, <2>1, <2>2, FewerHolding
<1>14. ASSUME NEW c \in Caller, Compare(c) PROVE AdmissionInv'
  <2>1. Holding' \subseteq Holding /\ reserved' = reserved
    BY <1>14 DEF Compare, Holding, Retaining, TypeOK
  <2>2. \A d \in Caller : stale'[d].slots \subseteq stale[d].slots
    BY <1>14 DEF Compare, TypeOK
  <2> QED
    BY <1>0, <2>1, <2>2, FewerHolding
<1>15. ASSUME NEW c \in Caller, Replace(c) PROVE AdmissionInv'
  <2>1. Holding' \subseteq Holding /\ reserved' = reserved
    BY <1>15 DEF Replace, Holding, Retaining, TypeOK
  <2>2. \A d \in Caller : stale'[d].slots \subseteq stale[d].slots
    BY <1>15 DEF Replace, TypeOK
  <2> QED
    BY <1>0, <2>1, <2>2, FewerHolding
<1>16. ASSUME NEW c \in Caller, CheckSpent(c) PROVE AdmissionInv'
  <2>1. Holding' \subseteq Holding /\ reserved' = reserved
    BY <1>16 DEF CheckSpent, Holding, Retaining, TypeOK
  <2>2. \A d \in Caller : stale'[d].slots \subseteq stale[d].slots
    BY <1>16 DEF CheckSpent, TypeOK
  <2> QED
    BY <1>0, <2>1, <2>2, FewerHolding
<1>17. ASSUME NEW c \in Caller, Grant(c) PROVE AdmissionInv'
  <2>1. Holding' \subseteq Holding /\ reserved' = reserved
    BY <1>17 DEF Grant, Holding, Retaining, TypeOK
  <2>2. \A d \in Caller : stale'[d].slots \subseteq stale[d].slots
    BY <1>17 DEF Grant, TypeOK
  <2> QED
    BY <1>0, <2>1, <2>2, FewerHolding
<1>18. ASSUME NEW c \in Caller, Release(c) PROVE AdmissionInv'
  <2>1. Holding' \subseteq Holding /\ reserved' = reserved
    BY <1>18 DEF Release, Holding, Retaining, TypeOK
  <2>2. \A d \in Caller : stale'[d].slots \subseteq stale[d].slots
    BY <1>18 DEF Release, TypeOK
  <2> QED
    BY <1>0, <2>1, <2>2, FewerHolding
<1>19. CASE UNCHANGED vars
  <2>1. Holding' = Holding /\ UNCHANGED <<reserved, stale>>
    BY <1>19 DEF vars, Holding, Retaining
  <2> QED
    BY <1>0, <2>1, FewerHolding
<1> QED
  BY <1>1, <1>2, <1>3, <1>4, <1>5, <1>6, <1>7, <1>8, <1>9, <1>10, <1>11,
     <1>12, <1>13, <1>14, <1>15, <1>16, <1>17, <1>18, <1>19
     DEF Next, retain, resolve

-----------------------------------------------------------------------------
(* The theorems.                                                           *)

(* The invariants hold initially.                                          *)
LEMMA InitInvariants ==
  Init => IdInv /\ FenceInv /\ SpendInv /\ StaleInv /\ RecheckInv /\ Available
          /\ AdmissionInv
<1> SUFFICES ASSUME Init PROVE IdInv /\ FenceInv /\ SpendInv /\ StaleInv
                               /\ RecheckInv /\ Available /\ AdmissionInv
  OBVIOUS
<1>0. issued = {}
  BY DEF Init, issued
<1>1. IdInv
  BY <1>0 DEF Init, IdInv, Retaining, ResolvePoint
<1>2. FenceInv
  BY <1>0 DEF Init, FenceInv
<1>3. SpendInv
  BY <1>0 DEF Init, SpendInv, Spending
<1>4. StaleInv /\ RecheckInv
  BY DEF Init, StaleInv, RecheckInv, Nothing
<1>5. Available
  BY <1>0 DEF Available
<1>6. AdmissionInv
  <2>1. Holding = {}
    BY DEF Init, Holding, Retaining
  <2> QED
    BY <2>1 DEF Init, AdmissionInv, Nothing
<1> QED
  BY <1>1, <1>2, <1>3, <1>4, <1>5, <1>6

(* An approval is spent once at the most, however many callers present it, *)
(* whatever their clocks show and wherever they are killed.                *)
THEOREM SpentOnceAlways == Spec => []SpentOnce
<1> DEFINE Inv == IdInv /\ FenceInv /\ SpendInv
<1>1. Init => Inv
  BY InitInvariants
<1>2. TypeOK /\ Inv /\ [Next]_vars => Inv'
  BY StepIdInv, StepFenceInv, StepSpendInv
<1>3. Inv => SpentOnce
  BY DEF SpendInv, SpentOnce
<1> QED
  BY <1>1, <1>2, <1>3, TypeCorrect, PTL DEF Spec

(* What a client was given stays in the store until it is spent or some    *)
(* clock shows that it has expired.                                        *)
THEOREM AvailableAlways == Spec => []Available
<1> DEFINE Inv == IdInv /\ FenceInv /\ SpendInv /\ StaleInv /\ RecheckInv /\ Available
<1>1. Init => Inv
  BY InitInvariants
<1>2. TypeOK /\ Inv /\ [Next]_vars => Inv'
  BY StepIdInv, StepFenceInv, StepSpendInv, StepStaleInv, StepRecheckInv,
     StepAvailable
<1>3. Inv => Available
  OBVIOUS
<1> QED
  BY <1>1, <1>2, <1>3, TypeCorrect, PTL DEF Spec

(* No two live payloads share a slot of a window.                          *)
THEOREM OneLivePerSlotAlways == Spec => []OneLivePerSlot
<1>1. Init => AdmissionInv
  BY InitInvariants
<1>2. TypeOK /\ AdmissionInv /\ [Next]_vars => AdmissionInv'
  BY StepAdmissionInv
<1>3. AdmissionInv => OneLivePerSlot
  BY DEF AdmissionInv, OneLivePerSlot, Holding
<1> QED
  BY <1>1, <1>2, <1>3, TypeCorrect, PTL DEF Spec

-----------------------------------------------------------------------------
(* The store implements ApprovalContract.                                  *)

(* Nothing lives before anything is issued.                                *)
LEMMA InitContract == Init => Contract!Init
  BY DEF Init, Contract!Init, live, issued

(* The program points of every other caller are what they were.            *)
Alone(c) == \A d \in Caller \ {c} : pc'[d] = pc[d] /\ ref'[d] = ref[d]

(* A caller that neither had a reference in hand nor has one now.          *)
LEMMA HandsSame ==
  ASSUME NEW c \in Caller, Alone(c), ~Spending(c), ~Spending(c)'
  PROVE  \A r : InHand(r)' <=> InHand(r)
  BY DEF Alone, Spending, InHand

(* A step that releases and issues nothing, after which what lived lives,  *)
(* but for one reference at the most, is a lapse or a stutter.             *)
LEMMA OneLapses ==
  ASSUME executions' = executions, NEW r, live' \subseteq live, live \ live' \subseteq {r}
  PROVE  [Contract!Next]_(Contract!vars)
<1>1. CASE live' = live
  BY <1>1 DEF Contract!vars
<1>2. CASE live' # live
  <2>1. r \in live /\ live' = live \ {r}
    BY <1>2
  <2>2. r \in DOMAIN executions'
    BY <2>1 DEF live, issued
  <2> QED
    BY <2>1, <2>2 DEF Contract!Next, Contract!Lapse
<1> QED
  BY <1>1, <1>2

(* What is about one caller, and keeps the payloads of issued references.  *)
LEMMA NothingLapses ==
  ASSUME NEW c \in Caller, Alone(c), ~Spending(c), ~Spending(c)',
         executions' = executions,
         \A r \in issued : r \in payload' <=> r \in payload
  PROVE  [Contract!Next]_(Contract!vars)
<1>1. live' = live
  BY HandsSame DEF live, issued
<1> QED
  BY <1>1 DEF Contract!vars

(* A caller whose reference was in hand, and is no longer.                 *)
LEMMA LetsGo ==
  ASSUME NEW c \in Caller, Alone(c), Spending(c), ~Spending(c)', SpendInv,
         payload' = payload, issued' = issued, NEW r, r = ref[c]
  PROVE  r \in live /\ live' = live \ {r}
<1>1. r \in live /\ r \notin payload
  BY DEF SpendInv, live, InHand
<1>2. \A d \in Caller \ {c} : ~(Spending(d) /\ ref[d] = r)
  BY DEF SpendInv
<1>3. ~InHand(r)'
  BY <1>2 DEF InHand, Alone, Spending
<1>4. \A q : q # r => (InHand(q)' <=> InHand(q))
  BY DEF InHand, Alone, Spending
<1> QED
  BY <1>1, <1>3, <1>4 DEF live

(* Every step of a caller is a step of the contract or leaves it alone.    *)
LEMMA StepContract ==
  TypeOK /\ IdInv /\ FenceInv /\ SpendInv /\ [Next]_vars
    => [Contract!Next]_(Contract!vars)
<1> SUFFICES ASSUME TypeOK, IdInv, FenceInv, SpendInv, [Next]_vars
             PROVE  [Contract!Next]_(Contract!vars)
  OBVIOUS
<1> USE DEF TypeOK, store, Goto
<1>0. ASSUME UNCHANGED vars PROVE UNCHANGED Contract!vars
  BY <1>0 DEF vars, Contract!vars, live, issued, InHand, Spending
<1>1. ASSUME NEW k \in Clock, Tick(k) PROVE UNCHANGED Contract!vars
  BY <1>1 DEF Tick, Contract!vars, live, issued, InHand, Spending
<1>2. ASSUME NEW c \in Caller, Abort(c) PROVE [Contract!Next]_(Contract!vars)
  <2>1. Alone(c) /\ ~Spending(c)' /\ payload' = payload /\ executions' = executions
    BY <1>2 DEF Abort, Done, Alone, Spending
  <2>2. CASE Spending(c)
    BY <2>1, <2>2, LetsGo, OneLapses DEF issued
  <2>3. CASE ~Spending(c)
    BY <2>1, <2>3, NothingLapses
  <2> QED
    BY <2>2, <2>3
<1>3. ASSUME NEW c \in Caller, \/ BeginRetain(c) \/ CleanedRetain(c) \/ BeginResolve(c)
                               \/ CleanedResolve(c) \/ Read(c) \/ Reserve(c) \/ Probe(c)
      PROVE [Contract!Next]_(Contract!vars)
  <2>1. payload' = payload /\ executions' = executions
    BY <1>3 DEF BeginRetain, CleanedRetain, BeginResolve, CleanedResolve, Read, Reserve, Probe
  <2>2. Alone(c)
    BY <1>3 DEF BeginRetain, CleanedRetain, BeginResolve, CleanedResolve, Read,
                Reserve, Probe, Done, Alone
  <2>3. ~Spending(c) /\ ~Spending(c)'
    BY <1>3 DEF BeginRetain, CleanedRetain, BeginResolve, CleanedResolve, Read,
                Reserve, Probe, Done, Spending
  <2> QED
    BY <2>1, <2>2, <2>3, NothingLapses
<1>4. ASSUME NEW c \in Caller, Put(c) PROVE [Contract!Next]_(Contract!vars)
  <2>1. Alone(c) /\ ~Spending(c) /\ ~Spending(c)' /\ executions' = executions
    BY <1>4 DEF Put, Alone, Spending
  <2>2. ref[c] \notin issued
    BY <1>4 DEF Put, IdInv, Retaining
  <2> QED
    BY <1>4, <2>1, <2>2, NothingLapses DEF Put
<1>5. ASSUME NEW c \in Caller, Recheck(c) PROVE [Contract!Next]_(Contract!vars)
  <2>1. Alone(c) /\ ~Spending(c) /\ ~Spending(c)' /\ payload' = payload
    BY <1>5 DEF Recheck, Done, Alone, Spending
  <2>2. ref[c] \notin issued
    BY <1>5 DEF Recheck, IdInv, Retaining
  <2>3. CASE executions' = executions
    BY <2>1, <2>3, NothingLapses
  <2>4. CASE executions' = [r \in issued \cup {ref[c]} |->
                              IF r \in issued THEN executions[r] ELSE 0]
    <3>1. issued' = issued \cup {ref[c]}
      BY <2>4 DEF issued
    <3>2. live' \in {live, live \cup {ref[c]}}
      BY <2>1, <2>2, <3>1, HandsSame DEF live
    <3>3. Contract!Issue(ref[c])
      BY <2>2, <2>4, <3>2 DEF Contract!Issue, issued
    <3> QED
      BY <3>1, <3>3 DEF Contract!Next, issued
  <2> QED
    BY <1>5, <2>3, <2>4 DEF Recheck
<1>6. ASSUME NEW c \in Caller, CleanupDelete(c) PROVE [Contract!Next]_(Contract!vars)
  <2>1. executions' = executions /\ \A r : InHand(r)' <=> InHand(r)
    BY <1>6 DEF CleanupDelete, InHand, Spending
  <2>2. PICK x : payload' = payload \/ payload' = payload \ {x}
    BY <1>6 DEF CleanupDelete, DeleteObject
  <2>3. live' \subseteq live /\ live \ live' \subseteq {x}
    BY <2>1, <2>2 DEF live, issued
  <2> QED
    BY <2>1, <2>3, OneLapses
<1>7. ASSUME NEW c \in Caller, Drop(c) PROVE [Contract!Next]_(Contract!vars)
  <2>1. Alone(c) /\ ~Spending(c) /\ ~Spending(c)' /\ executions' = executions
    BY <1>7 DEF Drop, Done, Alone, Spending
  <2>2. ref[c] \notin issued \/ ref[c] \notin payload
    BY <1>7 DEF Drop, IdInv, SpendInv, Retaining
  <2> QED
    BY <1>7, <2>1, <2>2, NothingLapses DEF Drop, DeleteObject
<1>8. ASSUME NEW c \in Caller, Compare(c) \/ Replace(c)
      PROVE [Contract!Next]_(Contract!vars)
  <2>1. Alone(c) /\ ~Spending(c) /\ executions' = executions
    BY <1>8 DEF Compare, Replace, Done, Alone, Spending
  <2>2. CASE payload' = payload /\ ~Spending(c)'
    BY <2>1, <2>2, NothingLapses
  <2>3. CASE /\ ref[c] \in payload /\ payload' = payload \ {ref[c]}
             /\ Spending(c)' /\ ref' = ref
    <3>1. \A r : InHand(r)' <=> InHand(r) \/ r = ref[c]
      BY <2>1, <2>3 DEF InHand, Alone, Spending
    <3>2. live' = live
      BY <2>1, <2>3, <3>1 DEF live, issued
    <3> QED
      BY <2>1, <3>2 DEF Contract!vars
  <2>4. CASE Compare(c)
    BY <2>2, <2>3, <2>4 DEF Compare, DeleteObject, Done, Spending
  <2>5. CASE Replace(c)
    <3>1. ref[c] \in issued
      BY <2>5 DEF Replace, IdInv, ResolvePoint
    <3>2. Replaceable(ref[c]) => ref[c] \in payload
      BY <3>1 DEF Replaceable, FenceInv
    <3> QED
      BY <2>2, <2>3, <2>5, <3>2 DEF Replace, Done, Spending
  <2> QED
    BY <1>8, <2>4, <2>5
<1>9. ASSUME NEW c \in Caller, CheckSpent(c) PROVE [Contract!Next]_(Contract!vars)
  <2>1. Alone(c) /\ Spending(c) /\ ref' = ref /\ payload' = payload
        /\ executions' = executions
    BY <1>9 DEF CheckSpent, Alone, Spending
  <2>2. CASE ~Spending(c)'
    BY <2>1, <2>2, LetsGo, OneLapses DEF issued
  <2>3. CASE Spending(c)'
    <3>1. live' = live
      BY <2>1, <2>3 DEF live, issued, InHand, Alone, Spending
    <3> QED
      BY <2>1, <3>1 DEF Contract!vars
  <2> QED
    BY <2>2, <2>3
<1>10. ASSUME NEW c \in Caller, Grant(c) PROVE [Contract!Next]_(Contract!vars)
  <2>1. executions' = executions /\ payload' = payload \ {ref[c]}
    BY <1>10 DEF Grant, DeleteObject
  <2>2. \A r : InHand(r)' <=> InHand(r)
    BY <1>10 DEF Grant, InHand, Spending
  <2>3. InHand(ref[c])
    BY <1>10 DEF Grant, InHand, Spending
  <2>4. live' = live
    BY <2>1, <2>2, <2>3 DEF live, issued
  <2> QED
    BY <2>1, <2>4 DEF Contract!vars
<1>11. ASSUME NEW c \in Caller, Release(c) PROVE [Contract!Next]_(Contract!vars)
  <2>1. Alone(c) /\ Spending(c) /\ ~Spending(c)' /\ payload' = payload
        /\ executions' = [executions EXCEPT ![ref[c]] = @ + 1]
    BY <1>11 DEF Release, Done, Alone, Spending
  <2>2. issued' = issued
    BY <2>1 DEF issued
  <2>3. ref[c] \in live /\ live' = live \ {ref[c]}
    BY <2>1, <2>2, LetsGo
  <2>4. ref[c] \in DOMAIN executions'
    BY <2>2, <2>3 DEF live, issued
  <2> QED
    BY <2>1, <2>3, <2>4 DEF Contract!Next, Contract!Release
<1> QED
  BY <1>0, <1>1, <1>2, <1>3, <1>4, <1>5, <1>6, <1>7, <1>8, <1>9, <1>10, <1>11
     DEF Next, retain, resolve

(* Whatever callers, clocks and object stores do, they issue, release and  *)
(* lose approvals as the contract says.                                    *)
THEOREM ContractImplemented == Spec => ImplementsContract
<1> DEFINE Inv == IdInv /\ FenceInv /\ SpendInv
<1>1. Init => Inv /\ Contract!Init
  BY InitInvariants, InitContract
<1>2. TypeOK /\ Inv /\ [Next]_vars => Inv' /\ [Contract!Next]_(Contract!vars)
  BY StepIdInv, StepFenceInv, StepSpendInv, StepContract
<1> QED
  BY <1>1, <1>2, TypeCorrect, PTL DEF Spec, ImplementsContract, Contract!Spec
=============================================================================
