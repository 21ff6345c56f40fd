----------------------------- MODULE MemStatus -----------------------------
(***************************************************************************)
(* The allocation statistics of TokuDB (toku_utils/03.memarena/memory.cc): *)
(* threads in toku_malloc, toku_realloc and toku_free update shared        *)
(* counters, some by atomic additions, one by a compare-and-swap loop and  *)
(* one by a plain test and store.  Each action is one access to a shared   *)
(* counter, or one call of the allocator.                                  *)
(*                                                                         *)
(* toku_memory_do_stats is on.  The counters of calls, requested bytes and *)
(* failures are left out: they are only added to, and no code reads them.  *)
(* toku_xmalloc and its kin do the same steps, and end the process if the  *)
(* allocation fails; the aligned variants do the same steps.  The          *)
(* allocator is external: it returns NULL or a block whose usable size is  *)
(* at least the size asked for.  Sizes are not 0.                          *)
(***************************************************************************)
EXTENDS Integers, FiniteSets
F == INSTANCE FiniteSetsExt

CONSTANTS Thread,
          Block,   \* addresses
          Size,    \* the sizes that are asked for
          Usable,  \* the usable sizes of a block that serves a size
          NULL,
          Budget   \* bound on status.used when a block is allocated

ASSUME MemAssumption ==
    /\ Size \subseteq Nat \ {0}
    /\ Usable \in [Size -> SUBSET Nat]
    /\ \A s \in Size : \A u \in Usable[s] : s <= u
    /\ NULL \notin Block \cup Thread
    /\ Budget \in Nat

ASSUME FiniteAssumption == IsFiniteSet(Thread) /\ IsFiniteSet(Block)

None == -1  \* not read yet

VARIABLES used, freed, max_in_use, max_requested_size,  \* fields of status
          usable,  \* block -> its usable size, 0 while it is free
          owner,   \* block -> the thread in whose call it is, or NULL
          pc,      \* thread -> where it is
          call     \* thread -> the local variables of its call

status == <<used, freed, max_in_use, max_requested_size>>
heap == <<usable, owner>>
vars == <<status, heap, pc, call>>

\* p: the block given; size: the size asked for; add, sub: what the call adds
\* to used and to freed; sum_used, sum_freed, old_max: locals of set_max.
NoCall == [p |-> NULL, size |-> 0, add |-> 0, sub |-> 0,
           sum_used |-> None, sum_freed |-> None, old_max |-> None]

Init ==
    /\ used = 0 /\ freed = 0 /\ max_in_use = 0 /\ max_requested_size = 0
    /\ usable = [b \in Block |-> 0]
    /\ owner = [b \in Block |-> NULL]
    /\ pc = [t \in Thread |-> "idle"]
    /\ call = [t \in Thread |-> NoCall]

Goto(t, label) == pc' = [pc EXCEPT ![t] = label]

\* A call returns: the blocks it has are the caller's, who may pass them on.
Return(t) ==
    /\ Goto(t, "idle")
    /\ call' = [call EXCEPT ![t] = NoCall]
    /\ owner' = [b \in Block |-> IF owner[b] = t THEN NULL ELSE owner[b]]

Allocated(b) == usable[b] # 0 /\ owner[b] = NULL

-----------------------------------------------------------------------------
(* toku_malloc (p = NULL) and toku_realloc                                 *)

Malloc(t, size) ==
    /\ pc[t] = "idle"
    /\ Goto(t, "check")
    /\ call' = [call EXCEPT ![t] = [NoCall EXCEPT !.size = size]]
    /\ UNCHANGED <<status, heap>>

Realloc(t, p, size) ==
    /\ pc[t] = "idle" /\ Allocated(p)
    /\ Goto(t, "check")
    /\ call' = [call EXCEPT ![t] = [NoCall EXCEPT !.size = size, !.p = p]]
    /\ owner' = [owner EXCEPT ![p] = t]
    /\ UNCHANGED <<status, usable>>

CheckLargest(t) ==
    /\ pc[t] = "check"
    /\ Goto(t, IF call[t].size > max_requested_size THEN "store" ELSE "allocate")
    /\ UNCHANGED <<status, heap, call>>

StoreLargest(t) ==
    /\ pc[t] = "store"
    /\ max_requested_size' = call[t].size
    /\ Goto(t, "allocate")
    /\ UNCHANGED <<used, freed, max_in_use, heap, call>>

AfterAllocate_OnlyFreed(c) == IF c.p = NULL THEN "add used" ELSE "add freed"  \* mutant
AfterAllocate(c) == "add used"

\* The allocator; a realloc frees p, whose usable size has been read before.
Allocate(t) ==
    /\ pc[t] = "allocate"
    /\ LET p == call[t].p
           orig == IF p = NULL THEN 0 ELSE usable[p]
       IN  \E b \in {c \in Block : usable[c] = 0} \cup ({p} \cap Block), u \in Usable[call[t].size] :
              /\ used + u <= Budget
              /\ usable' = [c \in Block |-> IF c = b THEN u ELSE IF c = p THEN 0 ELSE usable[c]]
              /\ owner' = [c \in Block |-> IF c = b THEN t ELSE IF c = p THEN NULL ELSE owner[c]]
              /\ call' = [call EXCEPT ![t].add = u, ![t].sub = orig]
    /\ Goto(t, AfterAllocate(call[t]))
    /\ UNCHANGED status

AllocateFails(t) ==
    /\ pc[t] = "allocate"
    /\ Return(t)
    /\ UNCHANGED <<status, usable>>

\* A realloc goes on to add the old block to freed.
AddUsed(t) ==
    /\ pc[t] = "add used"
    /\ used' = used + call[t].add
    /\ call' = [call EXCEPT ![t].add = 0]
    /\ Goto(t, IF call[t].p = NULL THEN "read" ELSE "add freed")
    /\ UNCHANGED <<freed, max_in_use, max_requested_size, heap>>

-----------------------------------------------------------------------------
(* toku_free                                                               *)

FreedSize_Header(p) == usable[p] - 3  \* mutant: the allocator's header is deducted
FreedSize(p) == usable[p]

Free(t, p) ==
    /\ pc[t] = "idle" /\ Allocated(p)
    /\ Goto(t, "add freed")
    /\ owner' = [owner EXCEPT ![p] = t]
    /\ call' = [call EXCEPT ![t] = [NoCall EXCEPT !.p = p, !.sub = FreedSize(p)]]
    /\ UNCHANGED <<status, usable>>

\* A free has no size: it goes on to release its block.
AddFreed(t) ==
    /\ pc[t] = "add freed"
    /\ freed' = freed + call[t].sub
    /\ call' = [call EXCEPT ![t].sub = 0]
    /\ Goto(t, IF call[t].size = 0 THEN "release" ELSE "read")
    /\ UNCHANGED <<used, max_in_use, max_requested_size, heap>>

Release(t) ==
    /\ pc[t] = "release"
    /\ usable' = [usable EXCEPT ![call[t].p] = 0]
    /\ Return(t)
    /\ UNCHANGED status

-----------------------------------------------------------------------------
(* set_max(status.used, status.freed).  C++ leaves open which argument is  *)
(* read first.                                                             *)

ReadUsed(t) ==
    /\ pc[t] = "read" /\ call[t].sum_used = None
    /\ call' = [call EXCEPT ![t].sum_used = used]
    /\ UNCHANGED <<status, heap, pc>>

ReadFreed(t) ==
    /\ pc[t] = "read" /\ call[t].sum_freed = None
    /\ call' = [call EXCEPT ![t].sum_freed = freed]
    /\ UNCHANGED <<status, heap, pc>>

in_use(c) == c.sum_used - c.sum_freed
HasRead(c) == c.sum_used # None /\ c.sum_freed # None

\* "if (sum_used >= sum_freed)"
Compare(t) ==
    /\ pc[t] = "read" /\ HasRead(call[t])
    /\ \/ in_use(call[t]) >= 0 /\ Goto(t, "load") /\ UNCHANGED <<owner, call>>
       \/ in_use(call[t]) < 0 /\ Return(t)
    /\ UNCHANGED <<status, usable>>

Load(t) ==
    /\ pc[t] = "load"
    /\ \/ /\ max_in_use < in_use(call[t])
          /\ call' = [call EXCEPT ![t].old_max = max_in_use]
          /\ Goto(t, "swap")
          /\ UNCHANGED owner
       \/ /\ max_in_use >= in_use(call[t])
          /\ Return(t)
    /\ UNCHANGED <<status, usable>>

Swaps_Blind(c) == TRUE  \* mutant: a plain store
Swaps(c) == max_in_use = c.old_max

AfterMiss_Swap == "swap"  \* mutant: the old maximum is loaded once, before the loop
AfterMiss_GiveUp == "idle"  \* mutant: one attempt only
AfterMiss == "load"

CompareAndSwap(t) ==
    /\ pc[t] = "swap"
    /\ \/ /\ Swaps(call[t])
          /\ max_in_use' = in_use(call[t])
          /\ Return(t)
       \/ /\ ~Swaps(call[t])
          /\ Goto(t, AfterMiss)
          /\ UNCHANGED <<max_in_use, owner, call>>
    /\ UNCHANGED <<used, freed, max_requested_size, usable>>

-----------------------------------------------------------------------------
Starts(t) ==
    \/ \E size \in Size : Malloc(t, size)
    \/ \E p \in Block : Free(t, p)
    \/ \E p \in Block, size \in Size : Realloc(t, p, size)

Continues(t) ==
    \/ CheckLargest(t) \/ StoreLargest(t) \/ Allocate(t) \/ AllocateFails(t)
    \/ AddUsed(t) \/ AddFreed(t) \/ Release(t)
    \/ ReadUsed(t) \/ ReadFreed(t) \/ Compare(t) \/ Load(t) \/ CompareAndSwap(t)

Next == \E t \in Thread : Starts(t) \/ Continues(t)

Spec == Init /\ [][Next]_vars

\* A thread inside a call goes on; nobody has to call.
FairSpec == Spec /\ \A t \in Thread : WF_vars(Continues(t))

-----------------------------------------------------------------------------
Counter == Nat \cup {None}
Calls == [p : Block \cup {NULL}, size : Size \cup {0}, add : Nat, sub : Nat,
          sum_used : Counter, sum_freed : Counter, old_max : Counter]

\* Every counter is a natural number, and every thread is at a step of a call.
TypeOK ==
    /\ used \in Nat /\ freed \in Nat /\ max_in_use \in Nat /\ max_requested_size \in Nat
    /\ usable \in [Block -> Nat]
    /\ owner \in [Block -> Thread \cup {NULL}]
    /\ pc \in [Thread -> {"idle", "check", "store", "allocate", "add used", "add freed",
                          "release", "read", "load", "swap"}]
    /\ call \in [Thread -> Calls]

Sum(f(_), S) == F!MapThenSumSet(f, S)

BeingFreed == {call[t].p : t \in {u \in Thread : call[u].p # NULL /\ call[u].size = 0}}

\* At every moment used - freed is the memory in use, but for what the calls
\* under way have still to add: nothing is lost or counted twice when a block
\* is allocated by one thread, resized by another and freed by a third.
AccountsExact ==
    LET toUse(t) == call[t].add
        toFree(t) == call[t].sub
    IN  used + Sum(toUse, Thread) - (freed + Sum(toFree, Thread))
        = Sum(LAMBDA b : usable[b], Block \ BeingFreed)

\* At no moment is more counted as freed than as used (the difference is an
\* unsigned number for whoever reads it), although toku_free counts a block
\* before it is free: toku_malloc and toku_realloc have added it to used first.
FreedWithinUsed == freed <= used

\* Both together: the difference always stands for the memory in use.
AccountsSound == AccountsExact /\ FreedWithinUsed

\* max_in_use may be off, but once the threads are out of their calls it is not
\* below the memory then in use, whatever old values of used and freed the last
\* calls of set_max worked with.
Quiet == \A t \in Thread : pc[t] = "idle"
MaxCovers == Quiet => max_in_use >= used - freed

\* "this logic is intended to guarantee that it increases monotonically"
\* (memory.cc, line 138), with every thread writing max_in_use.
MaxMonotone == [][max_in_use' >= max_in_use]_vars

\* Every call returns: the loop of set_max ends, since each swap that fails has
\* met a larger maximum.
CallsReturn == \A t \in Thread : pc[t] # "idle" ~> pc[t] = "idle"
=============================================================================
