---------------------------- MODULE QueueProofs ----------------------------
(***************************************************************************)
(* For any number of threads that add and one that takes, the unlocked     *)
(* size check of Queue::next_item is safe, and the queue is a FIFO.        *)
(***************************************************************************)
EXTENDS Queue, TLAPS

(* The constructor's state satisfies the invariant: an empty queue, a free *)
(* lock, all threads outside add_item and next_item.                       *)
LEMMA InitIInv == Init => IInv
<1> SUFFICES ASSUME Init PROVE IInv
  OBVIOUS
<1>1. TypeOK
  BY MaxAddsAssumption DEF Init, TypeOK, Steps
<1>2. LockOwner /\ NoEmptyPop /\ LookStillGood /\ OneConsumer /\ ArgumentPresent
  BY NobodyAssumption, ConsumerAssumption
     DEF Init, LockOwner, NoEmptyPop, LookStillGood, OneConsumer, ArgumentPresent
<1> QED BY <1>1, <1>2 DEF IInv

(* Every step of add_item and next_item preserves the invariant; the steps *)
(* that matter are the push that makes a torn size check come true and the *)
(* pop that only the single consumer can take.                             *)
LEMMA StepIInv == IInv /\ [Next]_vars => IInv'
<1> SUFFICES ASSUME IInv, [Next]_vars PROVE IInv'
  OBVIOUS
<1> USE DEF IInv, TypeOK, Steps
<1>1. CASE UNCHANGED vars
  BY <1>1 DEF vars, LockOwner, NoEmptyPop, LookStillGood, OneConsumer, ArgumentPresent
<1>2. ASSUME NEW t \in Threads, NEW x \in Items, AddCall(t, x) PROVE IInv'
  BY <1>2, MaxAddsAssumption, ConsumerAssumption
     DEF AddCall, Goto, LockOwner, NoEmptyPop, LookStillGood, OneConsumer, ArgumentPresent
<1>3. ASSUME NEW t \in Threads, NextCall(t) PROVE IInv'
  BY <1>3, ConsumerAssumption
     DEF NextCall, Goto, LockOwner, NoEmptyPop, LookStillGood, OneConsumer, ArgumentPresent
<1>4. ASSUME NEW t \in Threads, AddLock(t) PROVE IInv'
  BY <1>4, NobodyAssumption, ConsumerAssumption
     DEF AddLock, Goto, Lock, LockOwner, NoEmptyPop, LookStillGood, OneConsumer, ArgumentPresent
<1>5. ASSUME NEW t \in Threads, AddPush(t) PROVE IInv'
  BY <1>5, ConsumerAssumption
     DEF AddPush, Goto, LockOwner, NoEmptyPop, LookStillGood, OneConsumer, ArgumentPresent
<1>6. ASSUME NEW t \in Threads, AddUnlock(t) PROVE IInv'
  BY <1>6, NobodyAssumption, ConsumerAssumption
     DEF AddUnlock, Goto, Unlock, LockOwner, NoEmptyPop, LookStillGood, OneConsumer, ArgumentPresent
<1>7. ASSUME NEW t \in Threads, SawItems(t) PROVE IInv'
  BY <1>7, ConsumerAssumption
     DEF SawItems, Pushing, Goto, LockOwner, NoEmptyPop, LookStillGood, OneConsumer, ArgumentPresent
<1>8. ASSUME NEW t \in Threads, SawNone(t) PROVE IInv'
  BY <1>8, ConsumerAssumption
     DEF SawNone, Goto, LockOwner, NoEmptyPop, LookStillGood, OneConsumer, ArgumentPresent
<1>9. ASSUME NEW t \in Threads, NextLock(t) PROVE IInv'
  BY <1>9, NobodyAssumption, ConsumerAssumption
     DEF NextLock, Goto, Lock, LockOwner, NoEmptyPop, LookStillGood, OneConsumer, ArgumentPresent
<1>10. ASSUME NEW t \in Threads, NextPop(t) PROVE IInv'
  BY <1>10, ConsumerAssumption
     DEF NextPop, Goto, LockOwner, NoEmptyPop, LookStillGood, OneConsumer, ArgumentPresent
<1>11. ASSUME NEW t \in Threads, NextUnlock(t) PROVE IInv'
  BY <1>11, NobodyAssumption, ConsumerAssumption
     DEF NextUnlock, Goto, Unlock, LockOwner, NoEmptyPop, LookStillGood, OneConsumer,
         ArgumentPresent
<1> QED BY <1>1, <1>2, <1>3, <1>4, <1>5, <1>6, <1>7, <1>8, <1>9, <1>10, <1>11
        DEF Next, AddItem, NextItem

(* next_item never takes from an empty deque, for any set of threads, any  *)
(* items and any number of calls.                                          *)
THEOREM NeverPopsEmpty == Spec => []NoEmptyPop
<1>1. Spec => []IInv
  BY InitIInv, StepIInv, PTL DEF Spec
<1>2. IInv => NoEmptyPop
  BY DEF IInv
<1> QED BY <1>1, <1>2, PTL

(* The step-level queue implements the abstract FIFO: a push is a Put, a   *)
(* removal is a Take, every other step of the threads is invisible.        *)
THEOREM QueueIsFifo == Spec => IsFifo
<1>1. Init => Abstract!Init
  BY DEF Init, Abstract!Init
<1>2. IInv /\ [Next]_vars => [Abstract!Next]_(Abstract!fifoVars)
  <2> SUFFICES ASSUME IInv, [Next]_vars
               PROVE  [Abstract!Next]_(Abstract!fifoVars)
    OBVIOUS
  <2>1. CASE UNCHANGED vars
    BY <2>1 DEF vars, Abstract!fifoVars
  <2>2. ASSUME NEW t \in Threads, AddPush(t)
        PROVE  \E x \in Items : Abstract!Put(x)
    <3>1. item[t] \in Items
      BY <2>2 DEF IInv, ArgumentPresent, AddPush, Goto
    <3> QED BY <2>2, <3>1 DEF AddPush, Abstract!Put
  <2>3. ASSUME NEW t \in Threads, NextPop(t)
        PROVE  Abstract!Take
    BY <2>3 DEF NextPop, Abstract!Take
  <2>4. ASSUME NEW t \in Threads,
               \/ \E x \in Items : AddCall(t, x)
               \/ NextCall(t) \/ AddLock(t) \/ AddUnlock(t)
               \/ SawItems(t) \/ SawNone(t) \/ NextLock(t) \/ NextUnlock(t)
        PROVE  UNCHANGED Abstract!fifoVars
    BY <2>4 DEF AddCall, NextCall, AddLock, AddUnlock, SawItems, SawNone,
                NextLock, NextUnlock, Abstract!fifoVars
  <2> QED BY <2>1, <2>2, <2>3, <2>4 DEF Next, AddItem, NextItem, Abstract!Next
<1>3. Spec => []IInv
  BY InitIInv, StepIInv, PTL DEF Spec
<1> QED BY <1>1, <1>2, <1>3, PTL DEF Spec, IsFifo, Abstract!Spec
=============================================================================
