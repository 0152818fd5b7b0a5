------------------------------- MODULE Queue -------------------------------
(***************************************************************************)
(* struct Queue of decoder.h: a std::deque and a std::mutex.  add_item     *)
(* pushes under the lock.  next_item looks at items.size() WITHOUT the     *)
(* lock and takes the lock only when it saw something, so the look and the *)
(* removal are two separate steps.  A size() read while another thread is  *)
(* in the middle of push_back is a data race: it may return anything.      *)
(***************************************************************************)
EXTENDS Naturals, Sequences, FiniteSets

CONSTANTS Threads,      \* the threads that call add_item
          Consumer,     \* the one thread that calls next_item
          Items,        \* the values queued; none of them is null
          Nobody,       \* items_lock when it is free
          Null,         \* T{}: what next_item returns when it finds nothing
          MaxAdds       \* bound: calls of add_item in a behaviour

ASSUME ConsumerAssumption == Consumer \in Threads
ASSUME NobodyAssumption == Nobody \notin Threads
ASSUME NullAssumption == Null \notin Items
ASSUME MaxAddsAssumption == MaxAdds \in Nat

VARIABLES items,        \* std::deque<T> items
          items_lock,   \* the owner of the mutex, or Nobody
          pc,           \* what each thread is about to do
          item,         \* the local or the argument "item" of each thread
          taken,        \* history: every item next_item returned, in order
          calls         \* number of add_item calls begun (bounds the model)

vars == <<items, items_lock, pc, item, taken, calls>>

Steps == {"idle", "add_lock", "push", "add_unlock",
          "size", "next_lock", "pop", "next_unlock"}

Init == /\ items = <<>>
        /\ items_lock = Nobody
        /\ pc = [t \in Threads |-> "idle"]
        /\ item = [t \in Threads |-> Null]
        /\ taken = <<>>
        /\ calls = 0

Goto(t, from, to) == pc[t] = from /\ pc' = [pc EXCEPT ![t] = to]

Lock(t) == items_lock = Nobody /\ items_lock' = t

Unlock(t) == items_lock' = Nobody

\* add_item(x) is called.
AddCall(t, x) ==
  /\ calls < MaxAdds
  /\ Goto(t, "idle", "add_lock")
  /\ item' = [item EXCEPT ![t] = x]
  /\ calls' = calls + 1
  /\ UNCHANGED <<items, items_lock, taken>>

AddLock(t) ==
  /\ Goto(t, "add_lock", "push")
  /\ Lock(t)
  /\ UNCHANGED <<items, item, taken, calls>>

\* Mutant: push_front for push_back.
AddPushFront(t) ==
  /\ Goto(t, "push", "add_unlock")
  /\ items' = <<item[t]>> \o items
  /\ UNCHANGED <<items_lock, item, taken, calls>>

\* From AddLock up to here size() races with the push_back.
AddPush(t) ==
  /\ Goto(t, "push", "add_unlock")
  /\ items' = Append(items, item[t])
  /\ UNCHANGED <<items_lock, item, taken, calls>>

AddUnlock(t) ==
  /\ Goto(t, "add_unlock", "idle")
  /\ Unlock(t)
  /\ UNCHANGED <<items, item, taken, calls>>

\* next_item() is called: T item{}.
NextCall(t) ==
  /\ t = Consumer
  /\ Goto(t, "idle", "size")
  /\ item' = [item EXCEPT ![t] = Null]
  /\ UNCHANGED <<items, items_lock, taken, calls>>

\* Some thread is inside push_back.
Pushing == \E u \in Threads : pc[u] = "push"

\* Mutants: the size is not looked at; it is compared with 1.
SawItemsUnchecked(t) ==
  /\ Goto(t, "size", "next_lock")
  /\ UNCHANGED <<items, items_lock, item, taken, calls>>

SawItemsMany(t) ==
  /\ Len(items) > 1
  /\ Goto(t, "size", "next_lock")
  /\ UNCHANGED <<items, items_lock, item, taken, calls>>

\* if (items.size()): the answer may be wrong while a push is under way.
SawItems(t) ==
  /\ items # <<>> \/ Pushing
  /\ Goto(t, "size", "next_lock")
  /\ UNCHANGED <<items, items_lock, item, taken, calls>>

SawNone(t) ==
  /\ items = <<>> \/ Pushing
  /\ Goto(t, "size", "idle")
  /\ UNCHANGED <<items, items_lock, item, taken, calls>>

NextLock(t) ==
  /\ Goto(t, "next_lock", "pop")
  /\ Lock(t)
  /\ UNCHANGED <<items, item, taken, calls>>

\* front() and erase(begin()) of an empty deque are undefined: NoEmptyPop
\* says the step is never reached that way.
NextPop(t) ==
  /\ items # <<>>
  /\ Goto(t, "pop", "next_unlock")
  /\ item' = [item EXCEPT ![t] = Head(items)]
  /\ items' = Tail(items)
  /\ taken' = Append(taken, Head(items))
  /\ UNCHANGED <<items_lock, calls>>

NextUnlock(t) ==
  /\ Goto(t, "next_unlock", "idle")
  /\ Unlock(t)
  /\ UNCHANGED <<items, item, taken, calls>>

AddItem(t) == AddLock(t) \/ AddPush(t) \/ AddUnlock(t)

NextItem(t) == \/ SawItems(t) \/ SawNone(t)
               \/ NextLock(t) \/ NextPop(t) \/ NextUnlock(t)

Next == \E t \in Threads :
          \/ \E x \in Items : AddCall(t, x)
          \/ NextCall(t)
          \/ AddItem(t)
          \/ NextItem(t)

(***************************************************************************)
(* A call that has begun goes on: whoever holds the lock never blocks.     *)
(* Nobody has to call add_item, but the consumer polls (video_thread for   *)
(* every frame, video_decode_thread every 5 ms).                           *)
(***************************************************************************)
Fairness == /\ \A t \in Threads : WF_vars(AddItem(t) \/ NextItem(t))
            /\ WF_vars(NextCall(Consumer))

Spec == Init /\ [][Next]_vars

FairSpec == Spec /\ Fairness
-----------------------------------------------------------------------------
(* Every variable has its type: the mutex is free or owned by a thread.    *)
TypeOK == /\ items \in Seq(Items)
          /\ items_lock \in Threads \cup {Nobody}
          /\ pc \in [Threads -> Steps]
          /\ item \in [Threads -> Items \cup {Null}]
          /\ taken \in Seq(Items)
          /\ calls \in 0..MaxAdds

(* The mutex is held by exactly the thread that is between lock and unlock *)
(* of add_item or next_item.                                               *)
LockOwner == \A t \in Threads :
  pc[t] \in {"push", "add_unlock", "pop", "next_unlock"} <=> items_lock = t

(* front() and erase(begin()) in next_item never run on an empty deque,    *)
(* although the size was looked at before the lock was taken and the look  *)
(* may have been torn by a push.                                           *)
NoEmptyPop == \A t \in Threads : pc[t] = "pop" => items # <<>>

(* Once next_item has decided to take the lock there is an item, or one is *)
(* being pushed by the thread that holds the lock now.                     *)
LookStillGood ==
  pc[Consumer] = "next_lock" =>
    items # <<>> \/ \E u \in Threads : u # Consumer /\ pc[u] = "push"

(* Only the consumer is ever inside next_item.                             *)
OneConsumer == \A t \in Threads :
  pc[t] \in {"size", "next_lock", "pop", "next_unlock"} => t = Consumer

(* A thread between the call of add_item and the push has an item to push. *)
ArgumentPresent == \A t \in Threads :
  pc[t] \in {"add_lock", "push"} => item[t] \in Items

(* The inductive invariant behind NoEmptyPop and the refinement.           *)
IInv == /\ TypeOK /\ LockOwner /\ NoEmptyPop
        /\ LookStillGood /\ OneConsumer /\ ArgumentPresent

(* The step-level queue is a FIFO: no interleaving of the unlocked size    *)
(* check with pushes loses, duplicates or reorders an item.                *)
Abstract == INSTANCE Fifo WITH contents <- items
IsFifo == Abstract!Spec

(* Whatever was pushed is taken in the end: a torn or stale size check may *)
(* send the consumer away empty-handed, but not for ever.                  *)
Delivered == \A n \in 1..MaxAdds :
  (Len(taken) + Len(items) >= n) ~> (Len(taken) >= n)
=============================================================================
