-------------------------- MODULE ToolGroupProofs ---------------------------
(***************************************************************************)
(* Proofs about ToolGroup, for every size of group and every cap.          *)
(***************************************************************************)
EXTENDS ToolGroup, TLAPS, FiniteSetTheorems

Busy(w) == phase[w] \in {"running", "sending"}

-----------------------------------------------------------------------------
(* The inductive invariant.                                                *)

\* Which states of the caller belong to which size of group.
CallerInv ==
  /\ main = "empty" => size = 0
  /\ main \in {"direct", "directRunning"} => size = 1
  /\ main \in {"dispatch", "abort", "join", "drain"} => size >= 2
  /\ main = "check" => size >= 1
  /\ outcome = "none" <=> main # "returned"

\* A worker leaves only after jobs was closed, which ends the dispatching; past
\* wg.Wait nobody is left.
PoolInv ==
  /\ main = "dispatch" => ~jobsClosed
  /\ \A w \in Workers : phase[w] = "exited" => jobsClosed
  /\ main \in {"drain", "check", "returned"} => Joined
  /\ size >= 2 /\ main \in {"join", "drain", "check"} => next = size + 1
  /\ \A w \in Workers : Busy(w) => job[w] \in 1..(next - 1)

\* Calls are handed out in order; one that was and has not ended is being run.
RunningInv ==
  /\ size >= 2 => begun = 1..(next - 1)
  /\ ended \subseteq begun
  /\ \A i \in begun \ ended :
       size >= 2 => \E w \in Workers : phase[w] = "running" /\ job[w] = i
  /\ size <= 1 /\ main # "directRunning" => begun = ended
  /\ main = "directRunning" => begun = {1}

\* A call that was handed out is held by a worker, has its result in the
\* channel, or has it in its place.
AccountedFor(i) ==
  \/ \E w \in Workers : Busy(w) /\ job[w] = i
  \/ \E k \in DOMAIN resultCh : resultCh[k].index = i
  \/ results[i] = i

ResultInv ==
  /\ \A k \in DOMAIN resultCh : resultCh[k].index = resultCh[k].call
  /\ size >= 2 => \A i \in 1..(next - 1) : AccountedFor(i)
  /\ main = "check" => \A i \in Calls : results[i] = i
  /\ outcome = "results" => \A i \in Calls : results[i] = i

IInv == TypeOK /\ CallerInv /\ PoolInv /\ RunningInv /\ ResultInv
-----------------------------------------------------------------------------
\* The arguments of the call fix the calls and the workers.
LEMMA ArgsFix == ASSUME UNCHANGED args PROVE Workers' = Workers /\ Calls' = Calls /\ Item' = Item
  BY DEF args, Workers, WorkerCount, Calls, Item

LEMMA InitInv == Init => IInv
  <1> SUFFICES ASSUME Init PROVE IInv OBVIOUS
  <1>1. TypeOK
    <2>1. size \in 0..MaxCalls /\ limit \in Limits /\ size \in Nat
      BY GroupAssumption DEF Init
    <2>2. next \in 1..(size + 1) /\ main \in {"empty", "direct", "dispatch"}
      BY <2>1 DEF Init
    <2>3. resultCh \in Seq(Item)
      BY DEF Init
    <2>4. phase \in [Workers -> {"idle", "running", "sending", "exited"}] /\ job \in [Workers -> 0..size]
      BY <2>1 DEF Init
    <2>5. results \in [Calls -> 0..size]
      BY <2>1 DEF Init
    <2> QED BY <2>1, <2>2, <2>3, <2>4, <2>5 DEF Init, TypeOK
  <1>2. CallerInv /\ PoolInv /\ RunningInv
    BY DEF Init, CallerInv, PoolInv, RunningInv, Busy
  <1>3. ResultInv
    BY DEF Init, ResultInv
  <1> QED BY <1>1, <1>2, <1>3 DEF IInv

LEMMA ReturnEmptyInv == ASSUME IInv, ReturnEmpty PROVE IInv'
  <1> USE DEF IInv, ReturnEmpty, Return, workerVars, callVars
  <1>0. Workers' = Workers /\ Calls' = Calls /\ Item' = Item /\ size' = size /\ limit' = limit
    BY ArgsFix DEF args
  <1>1. TypeOK'
    BY <1>0 DEF TypeOK
  <1>2. CallerInv'
    BY DEF CallerInv
  <1>3. PoolInv'
    BY <1>0 DEF CallerInv, PoolInv, Joined, Workers
  <1>4. RunningInv'
    BY <1>0 DEF RunningInv
  <1>5. ResultInv'
    BY <1>0 DEF CallerInv, ResultInv, Calls
  <1> QED BY <1>1, <1>2, <1>3, <1>4, <1>5

LEMMA DirectBeginInv == ASSUME IInv, DirectBegin PROVE IInv'
  <1> USE DEF IInv, DirectBegin, workerVars, callVars
  <1>0. Workers' = Workers /\ Calls' = Calls /\ Item' = Item /\ size' = size /\ limit' = limit
    BY ArgsFix DEF args
  <1>1. TypeOK'
    <2>1. begun' \in SUBSET Calls
      BY DEF TypeOK, CallerInv, Calls
    <2> QED BY <1>0, <2>1 DEF TypeOK
  <1>2. CallerInv'
    BY <1>0 DEF CallerInv
  <1>3. PoolInv'
    BY <1>0 DEF PoolInv, Busy
  <1>4. RunningInv'
    BY <1>0 DEF TypeOK, CallerInv, RunningInv, Calls
  <1>5. ResultInv'
    BY <1>0 DEF ResultInv, AccountedFor, Busy
  <1> QED BY <1>1, <1>2, <1>3, <1>4, <1>5

LEMMA DirectEndInv == ASSUME IInv, DirectEnd PROVE IInv'
  <1> USE DEF IInv, DirectEnd, workerVars, callVars
  <1>0. Workers' = Workers /\ Calls' = Calls /\ Item' = Item /\ size' = size /\ limit' = limit
    BY ArgsFix DEF args
  <1>1. TypeOK'
    <2>1. size = 1
      BY DEF CallerInv
    <2>2. ended' \in SUBSET Calls
      BY <2>1 DEF Calls
    <2>3. results' \in [Calls -> 0..size]
      BY <2>1 DEF TypeOK, Calls
    <2> QED BY <1>0, <2>2, <2>3 DEF TypeOK
  <1>2. CallerInv'
    BY <1>0 DEF CallerInv
  <1>3. PoolInv'
    BY <1>0 DEF CallerInv, PoolInv, Joined, Workers
  <1>4. RunningInv'
    BY <1>0 DEF RunningInv
  <1>5. ResultInv'
    BY <1>0 DEF TypeOK, CallerInv, ResultInv, Calls
  <1> QED BY <1>1, <1>2, <1>3, <1>4, <1>5

LEMMA DispatchInv == ASSUME IInv, NEW w \in Workers, Dispatch(w) PROVE IInv'
  <1> USE DEF IInv, Dispatch, workerVars, callVars
  <1>0. Workers' = Workers /\ Calls' = Calls /\ Item' = Item /\ size' = size /\ limit' = limit
    BY ArgsFix DEF args
  <1>1. TypeOK'
    <2>1. next \in 1..size /\ size \in Nat
      BY GroupAssumption DEF TypeOK, MoreCalls, Calls
    <2>2. next' \in 1..(size + 1)
      BY <2>1
    <2>3. begun' \in SUBSET Calls
      BY <2>1 DEF TypeOK, Calls
    <2>4. phase' \in [Workers -> {"idle", "running", "sending", "exited"}]
      BY DEF TypeOK
    <2>5. job' \in [Workers -> 0..size]
      BY <2>1 DEF TypeOK
    <2> QED BY <1>0, <2>2, <2>3, <2>4, <2>5 DEF TypeOK
  <1>2. CallerInv'
    BY <1>0 DEF CallerInv
  <1>3. PoolInv'
    BY <1>0 DEF TypeOK, PoolInv, Busy
  <1>4. RunningInv'
    BY <1>0 DEF TypeOK, CallerInv, RunningInv
  <1>5. ResultInv'
    <2>1. size >= 2 /\ next \in Nat
      BY GroupAssumption DEF TypeOK, CallerInv
    <2>2. ~Busy(w) /\ Busy(w)' /\ job'[w] = next
      BY DEF TypeOK, Busy
    <2>3. \A v \in Workers : Busy(v) => Busy(v)' /\ job'[v] = job[v]
      BY <2>2 DEF TypeOK, Busy
    <2>4. ASSUME NEW i \in 1..(next' - 1) PROVE AccountedFor(i)'
      <3>1. CASE i = next
        BY <1>0, <2>2, <3>1 DEF AccountedFor
      <3>2. CASE i # next
        <4>1. i \in 1..(next - 1)
          BY <2>1, <2>4, <3>2
        <4>2. AccountedFor(i)
          BY <2>1, <4>1 DEF ResultInv
        <4> QED BY <1>0, <2>3, <4>2 DEF AccountedFor
      <3> QED BY <3>1, <3>2
    <2> QED BY <1>0, <1>2, <2>4 DEF ResultInv, CallerInv
  <1> QED BY <1>1, <1>2, <1>3, <1>4, <1>5

LEMMA StopDispatchingInv == ASSUME IInv, StopDispatching PROVE IInv'
  <1> USE DEF IInv, StopDispatching, workerVars, callVars
  <1>0. Workers' = Workers /\ Calls' = Calls /\ Item' = Item /\ size' = size /\ limit' = limit
    BY ArgsFix DEF args
  <1>1. TypeOK'
    BY <1>0 DEF TypeOK
  <1>2. CallerInv'
    BY <1>0 DEF CallerInv
  <1>3. PoolInv'
    BY <1>0 DEF PoolInv, Busy
  <1>4. RunningInv'
    BY <1>0 DEF RunningInv
  <1>5. ResultInv'
    BY <1>0 DEF ResultInv, AccountedFor, Busy
  <1> QED BY <1>1, <1>2, <1>3, <1>4, <1>5

LEMMA AllDispatchedInv == ASSUME IInv, AllDispatched PROVE IInv'
  <1> USE DEF IInv, AllDispatched, workerVars, callVars
  <1>0. Workers' = Workers /\ Calls' = Calls /\ Item' = Item /\ size' = size /\ limit' = limit
    BY ArgsFix DEF args
  <1>1. TypeOK'
    BY <1>0 DEF TypeOK
  <1>2. CallerInv'
    BY <1>0 DEF CallerInv
  <1>3. PoolInv'
    <2>1. next = size + 1
      BY GroupAssumption DEF TypeOK, MoreCalls, Calls
    <2> QED BY <1>0, <2>1 DEF CallerInv, PoolInv, Busy, Joined
  <1>4. RunningInv'
    BY <1>0 DEF RunningInv
  <1>5. ResultInv'
    BY <1>0 DEF ResultInv, AccountedFor, Busy
  <1> QED BY <1>1, <1>2, <1>3, <1>4, <1>5

LEMMA ReturnAbortedInv == ASSUME IInv, ReturnAborted PROVE IInv'
  <1> USE DEF IInv, ReturnAborted, Return, workerVars, callVars
  <1>0. Workers' = Workers /\ Calls' = Calls /\ Item' = Item /\ size' = size /\ limit' = limit
    BY ArgsFix DEF args
  <1>1. TypeOK'
    BY <1>0 DEF TypeOK
  <1>2. CallerInv'
    BY DEF CallerInv
  <1>3. PoolInv'
    BY <1>0 DEF PoolInv, Busy, Joined
  <1>4. RunningInv'
    BY <1>0 DEF RunningInv
  <1>5. ResultInv'
    BY <1>0 DEF ResultInv, AccountedFor, Busy
  <1> QED BY <1>1, <1>2, <1>3, <1>4, <1>5

LEMMA JoinWorkersInv == ASSUME IInv, JoinWorkers PROVE IInv'
  <1> USE DEF IInv, JoinWorkers, workerVars, callVars
  <1>0. Workers' = Workers /\ Calls' = Calls /\ Item' = Item /\ size' = size /\ limit' = limit
    BY ArgsFix DEF args
  <1>1. TypeOK'
    BY <1>0 DEF TypeOK
  <1>2. CallerInv'
    BY <1>0 DEF CallerInv
  <1>3. PoolInv'
    BY <1>0 DEF PoolInv, Busy, Joined
  <1>4. RunningInv'
    BY <1>0 DEF RunningInv
  <1>5. ResultInv'
    BY <1>0 DEF ResultInv, AccountedFor, Busy
  <1> QED BY <1>1, <1>2, <1>3, <1>4, <1>5

LEMMA DrainInv == ASSUME IInv, Drain PROVE IInv'
  <1> USE DEF IInv, Drain, workerVars, callVars
  <1>0. Workers' = Workers /\ Calls' = Calls /\ Item' = Item /\ size' = size /\ limit' = limit
    BY ArgsFix DEF args
  <1>1. TypeOK'
    <2>1. Head(resultCh) \in Item /\ resultCh' \in Seq(Item)
      BY DEF TypeOK
    <2>2. Head(resultCh).index \in Calls /\ Head(resultCh).call \in 0..size
      BY <2>1 DEF Item, Calls
    <2>3. results' \in [Calls -> 0..size]
      BY <2>2 DEF TypeOK
    <2> QED BY <1>0, <2>1, <2>3 DEF TypeOK
  <1>2. CallerInv'
    BY <1>0 DEF CallerInv
  <1>3. PoolInv'
    BY <1>0 DEF PoolInv, Busy, Joined
  <1>4. RunningInv'
    BY <1>0 DEF RunningInv
  <1>5. ResultInv'
    <2>1. size >= 2 /\ size \in Nat /\ next = size + 1 /\ \A w \in Workers : ~Busy(w)
      BY DEF TypeOK, CallerInv, PoolInv, Joined, Busy
    <2>2. resultCh \in Seq(Item) /\ Len(resultCh) > 0 /\ 1 \in DOMAIN resultCh
      BY DEF TypeOK
    <2>3. /\ resultCh[1].index \in Calls /\ resultCh[1].call = resultCh[1].index
          /\ results' = [results EXCEPT ![resultCh[1].index] = resultCh[1].index]
      <3>1. resultCh[1] \in Item /\ Head(resultCh) = resultCh[1]
        BY <2>2
      <3>2. resultCh[1].index \in Calls /\ resultCh[1].call = resultCh[1].index
        BY <2>2, <3>1 DEF ResultInv, Item
      <3> QED BY <3>1, <3>2
    <2>4. ASSUME NEW k \in DOMAIN resultCh'
          PROVE  k + 1 \in DOMAIN resultCh /\ resultCh'[k] = resultCh[k + 1]
      BY <2>2
    <2>5. ASSUME NEW k \in DOMAIN resultCh, k # 1
          PROVE  k - 1 \in DOMAIN resultCh' /\ resultCh'[k - 1] = resultCh[k]
      <3>1. k \in 2..Len(resultCh) /\ Len(resultCh) \in Nat
        BY <2>2, <2>5
      <3>2. resultCh' \in Seq(Item) /\ Len(resultCh') = Len(resultCh) - 1
        BY <2>2
      <3>3. k - 1 \in 1..Len(resultCh') /\ DOMAIN resultCh' = 1..Len(resultCh')
        BY <3>1, <3>2
      <3>4. resultCh'[k - 1] = resultCh[(k - 1) + 1]
        BY <2>2, <3>3
      <3> QED BY <3>1, <3>3, <3>4
    <2>6. ASSUME NEW i \in 1..(next - 1) PROVE AccountedFor(i)'
      <3>1. i \in Calls
        BY <2>1 DEF Calls
      <3>2. CASE results[i] = i
        BY <2>3, <3>1, <3>2 DEF AccountedFor, TypeOK
      <3>3. ASSUME NEW k \in DOMAIN resultCh, resultCh[k].index = i PROVE AccountedFor(i)'
        <4>1. CASE k = 1
          BY <2>3, <3>1, <3>3, <4>1 DEF AccountedFor, TypeOK
        <4>2. CASE k # 1
          BY <2>5, <3>3, <4>2 DEF AccountedFor
        <4> QED BY <4>1, <4>2
      <3> QED BY <2>1, <3>2, <3>3 DEF ResultInv, AccountedFor
    <2>7. \A k \in DOMAIN resultCh' : resultCh'[k].index = resultCh'[k].call
      BY <2>4 DEF ResultInv
    <2> QED BY <2>6, <2>7, <1>2 DEF ResultInv, CallerInv
  <1> QED BY <1>1, <1>2, <1>3, <1>4, <1>5

LEMMA DrainedInv == ASSUME IInv, Drained PROVE IInv'
  <1> USE DEF IInv, Drained, workerVars, callVars
  <1>0. Workers' = Workers /\ Calls' = Calls /\ Item' = Item /\ size' = size /\ limit' = limit
    BY ArgsFix DEF args
  <1>1. TypeOK'
    BY <1>0 DEF TypeOK
  <1>2. CallerInv'
    BY <1>0 DEF TypeOK, CallerInv
  <1>3. PoolInv'
    BY <1>0 DEF PoolInv, Busy, Joined
  <1>4. RunningInv'
    BY <1>0 DEF RunningInv
  <1>5. ResultInv'
    BY <1>0 DEF TypeOK, CallerInv, PoolInv, ResultInv, AccountedFor, Busy, Joined, Calls
  <1> QED BY <1>1, <1>2, <1>3, <1>4, <1>5

LEMMA ReturnCheckedInv == ASSUME IInv, ReturnChecked PROVE IInv'
  <1> USE DEF IInv, ReturnChecked, Return, workerVars, callVars
  <1>0. Workers' = Workers /\ Calls' = Calls /\ Item' = Item /\ size' = size /\ limit' = limit
    BY ArgsFix DEF args
  <1>1. TypeOK'
    BY <1>0 DEF TypeOK
  <1>2. CallerInv'
    BY DEF CallerInv
  <1>3. PoolInv'
    BY <1>0 DEF PoolInv, Busy, Joined
  <1>4. RunningInv'
    BY <1>0 DEF RunningInv
  <1>5. ResultInv'
    BY <1>0 DEF ResultInv, AccountedFor, Busy
  <1> QED BY <1>1, <1>2, <1>3, <1>4, <1>5

LEMMA ToolReturnsInv == ASSUME IInv, NEW w \in Workers, ToolReturns(w) PROVE IInv'
  <1> USE DEF IInv, ToolReturns, workerVars, callVars
  <1>0. Workers' = Workers /\ Calls' = Calls /\ Item' = Item /\ size' = size /\ limit' = limit
    BY ArgsFix DEF args
  <1>1. TypeOK'
    <2>1. job[w] \in Calls
      BY GroupAssumption DEF TypeOK, PoolInv, Busy, Calls
    <2>2. ended' \in SUBSET Calls
      BY <2>1 DEF TypeOK
    <2>3. phase' \in [Workers -> {"idle", "running", "sending", "exited"}]
      BY DEF TypeOK
    <2> QED BY <1>0, <2>2, <2>3 DEF TypeOK
  <1>2. CallerInv'
    BY <1>0 DEF CallerInv
  <1>3. PoolInv'
    BY <1>0 DEF PoolInv, Busy, Joined
  <1>4. RunningInv'
    <2>1. size >= 2 /\ size \in Nat /\ job[w] \in 1..(next - 1)
      BY GroupAssumption DEF TypeOK, PoolInv, Busy, Workers
    <2>2. ended' \subseteq begun'
      BY <2>1 DEF RunningInv
    <2>3. ASSUME NEW i \in begun' \ ended'
          PROVE  \E v \in Workers : phase'[v] = "running" /\ job[v] = i
      <3>1. PICK v \in Workers : phase[v] = "running" /\ job[v] = i
        BY <2>1, <2>3 DEF RunningInv
      <3>2. v # w
        BY <2>3, <3>1
      <3> QED BY <3>1, <3>2 DEF TypeOK
    <2> QED BY <1>0, <2>1, <2>2, <2>3, <1>2 DEF RunningInv, CallerInv
  <1>5. ResultInv'
    <2>1. \A v \in Workers : Busy(v) => Busy(v)'
      BY DEF TypeOK, Busy
    <2>2. \A i : AccountedFor(i) => AccountedFor(i)'
      BY <1>0, <2>1 DEF AccountedFor
    <2> QED BY <1>0, <2>2 DEF ResultInv
  <1> QED BY <1>1, <1>2, <1>3, <1>4, <1>5

LEMMA SendInv == ASSUME IInv, NEW w \in Workers, Send(w) PROVE IInv'
  <1> USE DEF IInv, Send, workerVars, callVars
  <1>0. Workers' = Workers /\ Calls' = Calls /\ Item' = Item /\ size' = size /\ limit' = limit
    BY ArgsFix DEF args
  <1>1. TypeOK'
    <2>1. job[w] \in Calls
      BY GroupAssumption DEF TypeOK, PoolInv, Busy, Calls
    <2>2. resultCh' \in Seq(Item)
      BY <2>1 DEF TypeOK, ItemOf, Item
    <2>3. phase' \in [Workers -> {"idle", "running", "sending", "exited"}]
      BY DEF TypeOK
    <2>4. job' \in [Workers -> 0..size]
      BY GroupAssumption DEF TypeOK
    <2> QED BY <1>0, <2>2, <2>3, <2>4 DEF TypeOK
  <1>2. CallerInv'
    BY <1>0 DEF CallerInv
  <1>3. PoolInv'
    BY <1>0 DEF TypeOK, PoolInv, Busy, Joined
  <1>4. RunningInv'
    BY <1>0 DEF RunningInv
  <1>5. ResultInv'
    <2>1. resultCh \in Seq(Item) /\ resultCh' = Append(resultCh, ItemOf(w))
      BY DEF TypeOK
    <2>2. ItemOf(w).index = job[w] /\ ItemOf(w).call = job[w]
      BY DEF ItemOf
    <2>3. \A k \in DOMAIN resultCh : k \in DOMAIN resultCh' /\ resultCh'[k] = resultCh[k]
      BY <2>1
    <2>4. /\ Len(resultCh) + 1 \in DOMAIN resultCh'
          /\ resultCh'[Len(resultCh) + 1] = ItemOf(w)
          /\ DOMAIN resultCh' = DOMAIN resultCh \cup {Len(resultCh) + 1}
      BY <2>1
    <2>5. ASSUME NEW i, AccountedFor(i) PROVE AccountedFor(i)'
      <3>1. ASSUME NEW v \in Workers, Busy(v), job[v] = i PROVE AccountedFor(i)'
        <4>1. CASE v = w
          BY <2>2, <2>4, <3>1, <4>1 DEF AccountedFor
        <4>2. CASE v # w
          BY <1>0, <3>1, <4>2 DEF AccountedFor, Busy, TypeOK
        <4> QED BY <4>1, <4>2
      <3>2. CASE \E k \in DOMAIN resultCh : resultCh[k].index = i
        BY <2>3, <3>2 DEF AccountedFor
      <3>3. CASE results[i] = i
        BY <3>3 DEF AccountedFor
      <3> QED BY <2>5, <3>1, <3>2, <3>3 DEF AccountedFor
    <2>6. \A k \in DOMAIN resultCh' : resultCh'[k].index = resultCh'[k].call
      BY <2>2, <2>3, <2>4 DEF ResultInv
    <2> QED BY <1>0, <2>5, <2>6 DEF ResultInv
  <1> QED BY <1>1, <1>2, <1>3, <1>4, <1>5

LEMMA ExitInv == ASSUME IInv, NEW w \in Workers, Exit(w) PROVE IInv'
  <1> USE DEF IInv, Exit, workerVars, callVars
  <1>0. Workers' = Workers /\ Calls' = Calls /\ Item' = Item /\ size' = size /\ limit' = limit
    BY ArgsFix DEF args
  <1>1. TypeOK'
    BY <1>0 DEF TypeOK
  <1>2. CallerInv'
    BY <1>0 DEF CallerInv
  <1>3. PoolInv'
    BY <1>0 DEF PoolInv, Busy, Joined
  <1>4. RunningInv'
    BY <1>0 DEF RunningInv
  <1>5. ResultInv'
    <2>1. \A v \in Workers : Busy(v) => Busy(v)'
      BY DEF TypeOK, Busy
    <2>2. \A i : AccountedFor(i) => AccountedFor(i)'
      BY <1>0, <2>1 DEF AccountedFor
    <2> QED BY <1>0, <2>2 DEF ResultInv
  <1> QED BY <1>1, <1>2, <1>3, <1>4, <1>5

LEMMA CancelInv == ASSUME IInv, Cancel PROVE IInv'
  <1> USE DEF IInv, Cancel, workerVars, callVars
  <1>0. Workers' = Workers /\ Calls' = Calls /\ Item' = Item /\ size' = size /\ limit' = limit
    BY ArgsFix DEF args
  <1>1. TypeOK'
    BY <1>0 DEF TypeOK
  <1>2. CallerInv'
    BY <1>0 DEF CallerInv
  <1>3. PoolInv'
    BY <1>0 DEF PoolInv, Busy, Joined
  <1>4. RunningInv'
    BY <1>0 DEF RunningInv
  <1>5. ResultInv'
    BY <1>0 DEF ResultInv, AccountedFor, Busy
  <1> QED BY <1>1, <1>2, <1>3, <1>4, <1>5

-----------------------------------------------------------------------------
LEMMA StutterInv == ASSUME IInv, UNCHANGED vars PROVE IInv'
  <1>1. Workers' = Workers /\ Calls' = Calls /\ Item' = Item
    BY ArgsFix DEF vars, args
  <1>2. TypeOK'
    BY <1>1 DEF IInv, TypeOK, vars
  <1>3. CallerInv' /\ PoolInv' /\ RunningInv'
    BY <1>1 DEF IInv, CallerInv, PoolInv, RunningInv, Busy, Joined, vars
  <1>4. ResultInv'
    BY <1>1 DEF IInv, ResultInv, AccountedFor, Busy, vars
  <1> QED BY <1>2, <1>3, <1>4 DEF IInv

LEMMA NextInv == IInv /\ [Next]_vars => IInv'
  <1> SUFFICES ASSUME IInv, [Next]_vars PROVE IInv' OBVIOUS
  <1>1. CASE Caller
    BY <1>1, ReturnEmptyInv, DirectBeginInv, DirectEndInv, DispatchInv, StopDispatchingInv,
       AllDispatchedInv, ReturnAbortedInv, JoinWorkersInv, DrainInv, DrainedInv, ReturnCheckedInv
       DEF Caller
  <1>2. ASSUME NEW w, Worker(w) PROVE IInv'
    BY <1>2, ToolReturnsInv, SendInv, ExitInv DEF Worker
  <1>3. CASE Cancel
    BY <1>3, CancelInv
  <1>4. CASE UNCHANGED vars
    BY <1>4, StutterInv
  <1> QED BY <1>1, <1>2, <1>3, <1>4 DEF Next, Finished

\* The inductive invariant holds of every reachable state.
THEOREM Invariant == Spec => []IInv
  BY InitInv, NextInv, PTL DEF Spec

\* Every variable keeps its type: the index of the next call, the jobs the
\* workers hold and the indices in the result channel never leave the group,
\* for any size of group and any cap.
THEOREM TypeCorrect == Spec => []TypeOK
  <1>1. IInv => TypeOK
    BY DEF IInv
  <1> QED BY <1>1, Invariant, PTL

\* executeToolCallGroup returns its results in the order of the requests, each
\* with its own call's output, whatever order the tools finished in.
THEOREM ResultsInOrder == Spec => []ResultsMatchRequests
  <1>1. IInv => ResultsMatchRequests
    BY DEF IInv, ResultInv, ResultsMatchRequests
  <1> QED BY <1>1, Invariant, PTL

\* When executeToolCallGroup has returned, cancelled or not, no goroutine of
\* its pool is left and every tool it started has ended.
THEOREM NoLeak == Spec => []NoLeakedWorker
  <1>1. ASSUME IInv PROVE NoLeakedWorker
    <2> SUFFICES ASSUME outcome # "none" PROVE Joined /\ begun = ended
      BY DEF NoLeakedWorker
    <2>1. main = "returned" /\ Joined
      BY <1>1 DEF IInv, TypeOK, CallerInv, PoolInv
    <2>2. CASE size <= 1
      BY <1>1, <2>1, <2>2 DEF IInv, RunningInv
    <2>3. CASE size >= 2
      <3>1. \A w \in Workers : phase[w] # "running"
        BY <2>1 DEF Joined
      <3>2. begun \ ended = {}
        BY <1>1, <2>3, <3>1 DEF IInv, RunningInv
      <3> QED BY <1>1, <2>1, <3>2 DEF IInv, RunningInv
    <2>4. size \in Nat
      BY <1>1, GroupAssumption DEF IInv, TypeOK
    <2> QED BY <2>2, <2>3, <2>4
  <1> QED BY <1>1, Invariant, PTL


-----------------------------------------------------------------------------
(* The pool implements OrderedExecution.                                   *)

\* What only the abstract view needs: a group of one call has begun nothing
\* before it is executed and its call afterwards, and dispatching is given up
\* for a cancellation only.
PathInv ==
  /\ main = "direct" => begun = {}
  /\ main = "check" /\ size = 1 => begun = {1}
  /\ main = "abort" => cancelled

\* PathInv is kept by every step.
LEMMA NextPath == ASSUME IInv, PathInv, [Next]_vars PROVE PathInv'
  <1> USE DEF PathInv, workerVars, callVars, args
  <1>1. CASE ReturnEmpty \/ DirectBegin
    BY <1>1 DEF ReturnEmpty, DirectBegin, Return
  <1>2. CASE DirectEnd
    BY <1>2 DEF DirectEnd, IInv, RunningInv
  <1>3. CASE \E w \in Workers : Dispatch(w)
    BY <1>3 DEF Dispatch
  <1>4. CASE StopDispatching \/ AllDispatched \/ ReturnAborted \/ JoinWorkers \/ Drain \/ ReturnChecked
    BY <1>4 DEF StopDispatching, AllDispatched, ReturnAborted, JoinWorkers, Drain, ReturnChecked, Return
  <1>5. CASE Drained
    BY <1>5 DEF Drained, IInv, CallerInv
  <1>6. CASE \E w : Worker(w)
    BY <1>6 DEF Worker, ToolReturns, Send, Exit
  <1>7. CASE Cancel \/ UNCHANGED vars
    BY <1>7 DEF Cancel, vars
  <1> QED BY <1>1, <1>2, <1>3, <1>4, <1>5, <1>6, <1>7 DEF Next, Caller, Finished

\* While a worker is idle the calls that run leave room for one more: each is
\* run by a worker of its own, and there are no more workers than the cap.
LEMMA RoomForOneMore ==
  ASSUME IInv, size >= 2, NEW w \in Workers, phase[w] = "idle", limit > 0
  PROVE  Cardinality(begun \ ended) < limit
  <1> DEFINE running == begun \ ended
             holder == [i \in running |-> CHOOSE v \in Workers : phase[v] = "running" /\ job[v] = i]
  <1>1. size \in Nat /\ limit \in Int /\ WorkerCount \in Nat /\ WorkerCount <= limit
    <2>1. size \in Nat /\ limit \in Int
      BY GroupAssumption DEF IInv, TypeOK
    <2> QED BY <2>1 DEF WorkerCount
  <1>2. /\ Workers = 1..WorkerCount /\ IsFiniteSet(Workers) /\ Cardinality(Workers) = WorkerCount
    <2>1. Workers = 1..WorkerCount
      BY <1>1 DEF Workers
    <2> QED BY <1>1, <2>1, FS_Interval
  <1>3. IsFiniteSet(Workers \ {w}) /\ Cardinality(Workers \ {w}) = WorkerCount - 1
    BY <1>2, FS_RemoveElement
  <1>4. ASSUME NEW i \in running
        PROVE  holder[i] \in Workers \ {w} /\ job[holder[i]] = i
    <2>1. \E v \in Workers : phase[v] = "running" /\ job[v] = i
      BY DEF IInv, RunningInv
    <2>2. holder[i] \in Workers /\ phase[holder[i]] = "running" /\ job[holder[i]] = i
      BY <2>1
    <2> HIDE DEF holder
    <2> QED BY <2>2
  <1>5. holder \in Injection(running, Workers \ {w})
    <2>1. holder \in [running -> Workers \ {w}]
      BY <1>4
    <2> HIDE DEF holder
    <2>2. \A i, j \in running : holder[i] = holder[j] => i = j
      BY <1>4
    <2> QED BY <2>1, <2>2 DEF Injection, IsInjective
  <1>6. Cardinality(running) <= WorkerCount - 1 /\ IsFiniteSet(running)
    <2> HIDE DEF holder, running
    <2> QED BY <1>3, <1>5, FS_Injection
  <1>7. Cardinality(running) \in Nat
    BY <1>6, FS_CardinalityType
  <1> QED BY <1>1, <1>6, <1>7

\* Nothing runs once every worker has gone.
LEMMA JoinedIsQuiet ==
  ASSUME IInv, Joined, main # "directRunning" PROVE begun = ended
  <1>1. size \in Nat
    BY GroupAssumption DEF IInv, TypeOK
  <1>2. CASE size <= 1
    BY <1>2 DEF IInv, RunningInv
  <1>3. CASE size >= 2
    BY <1>3 DEF IInv, RunningInv, Joined
  <1> QED BY <1>1, <1>2, <1>3

\* OrderedExecution counts with its own instance of Cardinality: the same one.
LEMMA SameCardinality == ASSUME NEW S PROVE OE!Cardinality(S) = Cardinality(S)
  BY DEF OE!Cardinality, Cardinality, OE!IsFiniteSet, IsFiniteSet

\* The variables OrderedExecution speaks of.
abstract == <<size, limit, begun, ended, cancelled, outcome>>

\* Every step of the pool is a step of OrderedExecution, or none.
LEMMA StepImplements == ASSUME IInv, PathInv, [Next]_vars PROVE [OE!Next]_abstract
  <1>0. size \in Nat /\ ended \subseteq Calls /\ begun \subseteq Calls /\ Calls = 1..size
    BY GroupAssumption DEF IInv, TypeOK, Calls
  <1>1. CASE ReturnEmpty
    <2>1. size = 0 /\ outcome = "none" /\ ended = 1..size
      BY <1>0, <1>1 DEF ReturnEmpty, IInv, CallerInv
    <2>2. OE!ReturnResults
      BY <1>1, <2>1 DEF ReturnEmpty, Return, args, callVars, OE!ReturnResults
    <2> QED BY <2>2 DEF OE!Next
  <1>2. CASE DirectBegin
    <2>1. size = 1 /\ outcome = "none" /\ begun = {}
      BY <1>2 DEF DirectBegin, IInv, CallerInv, PathInv
    <2>2. Cardinality(begun \ ended) = 0
      BY <2>1, FS_EmptySet
    <2>3. 1 \in 1..size \ begun /\ begun = 1..(1 - 1)
      BY <2>1
    <2>4. OE!Begin(1)
      <3>1. limit > 0 => Cardinality(begun \ ended) < limit
        BY <2>2
      <3>2. begun' = begun \cup {1} /\ UNCHANGED <<size, limit, ended, cancelled, outcome>>
        BY <1>2, <2>1 DEF DirectBegin, args
      <3> QED BY <2>1, <2>3, <3>1, <3>2, SameCardinality DEF OE!Begin, OE!Running
    <2> QED BY <2>3, <2>4 DEF OE!Next
  <1>3. CASE DirectEnd
    <2>1. size = 1 /\ begun = {1} /\ ended \subseteq {1}
      BY <1>3 DEF DirectEnd, IInv, CallerInv, RunningInv
    <2>2. ended' = ended \cup {1} /\ UNCHANGED <<size, limit, begun, cancelled, outcome>>
      BY <1>3, <2>1 DEF DirectEnd, args
    <2>3. CASE 1 \in ended
      BY <2>2, <2>3 DEF abstract
    <2>4. CASE 1 \notin ended
      <3>1. OE!End(1) /\ 1 \in 1..size
        BY <2>1, <2>2, <2>4 DEF OE!End, OE!Running
      <3> QED BY <3>1 DEF OE!Next
    <2> QED BY <2>3, <2>4
  <1>4. ASSUME NEW w \in Workers, Dispatch(w) PROVE [OE!Next]_abstract
    <2>1. size >= 2 /\ outcome = "none" /\ begun = 1..(next - 1) /\ next \in 1..size
      BY <1>4 DEF Dispatch, MoreCalls, Calls, IInv, CallerInv, RunningInv
    <2>2. limit > 0 => Cardinality(begun \ ended) < limit
      BY <1>4, <2>1, RoomForOneMore DEF Dispatch
    <2>3. next \in 1..size \ begun
      BY <1>0, <2>1
    <2>4. OE!Begin(next)
      <3>1. begun' = begun \cup {next} /\ UNCHANGED <<size, limit, ended, cancelled, outcome>>
        BY <1>4 DEF Dispatch, args
      <3> QED BY <2>1, <2>2, <2>3, <3>1, SameCardinality DEF OE!Begin, OE!Running
    <2> QED BY <2>1, <2>4 DEF OE!Next
  <1>5. CASE ReturnAborted
    <2>1. outcome = "none" /\ cancelled /\ begun = ended
      BY <1>5, JoinedIsQuiet DEF ReturnAborted, IInv, CallerInv, PathInv
    <2>2. OE!ReturnCancelled
      BY <1>5, <2>1 DEF ReturnAborted, Return, args, callVars, OE!ReturnCancelled, OE!Running
    <2> QED BY <2>2 DEF OE!Next
  <1>6. CASE ReturnChecked
    <2>1. outcome = "none" /\ begun = ended /\ size >= 1
      BY <1>6, JoinedIsQuiet DEF ReturnChecked, IInv, CallerInv, PoolInv
    <2>2. CASE cancelled
      <3>1. OE!ReturnCancelled
        BY <1>6, <2>1, <2>2 DEF ReturnChecked, Return, args, callVars, OE!ReturnCancelled, OE!Running
      <3> QED BY <3>1 DEF OE!Next
    <2>3. CASE ~cancelled
      <3>1. begun = 1..size
        <4>1. CASE size = 1
          BY <1>6, <4>1 DEF ReturnChecked, PathInv
        <4>2. CASE size >= 2
          <5>1. begun = 1..(next - 1) /\ next = size + 1
            BY <1>6, <4>2 DEF ReturnChecked, IInv, RunningInv, PoolInv
          <5> QED BY <1>0, <5>1
        <4> QED BY <1>0, <2>1, <4>1, <4>2
      <3>2. OE!ReturnResults
        BY <1>6, <2>1, <2>3, <3>1 DEF ReturnChecked, Return, args, callVars, OE!ReturnResults
      <3> QED BY <3>2 DEF OE!Next
    <2> QED BY <2>2, <2>3
  <1>7. ASSUME NEW w \in Workers, ToolReturns(w) PROVE [OE!Next]_abstract
    <2>1. size >= 2 /\ job[w] \in 1..(next - 1) /\ begun = 1..(next - 1)
      <3>1. size >= 2
        BY <1>0, <1>7 DEF Workers
      <3> QED BY <1>7, <3>1 DEF ToolReturns, Busy, IInv, PoolInv, RunningInv
    <2>2. ended' = ended \cup {job[w]} /\ UNCHANGED <<size, limit, begun, cancelled, outcome>>
      BY <1>7 DEF ToolReturns, args
    <2>3. CASE job[w] \in ended
      BY <2>2, <2>3 DEF abstract
    <2>4. CASE job[w] \notin ended
      <3>1. OE!End(job[w]) /\ job[w] \in 1..size
        BY <1>0, <2>1, <2>2, <2>4 DEF OE!End, OE!Running
      <3> QED BY <3>1 DEF OE!Next
    <2> QED BY <2>3, <2>4
  <1>8. CASE Cancel
    <2>1. OE!Cancel
      BY <1>8 DEF Cancel, args, callVars, OE!Cancel
    <2> QED BY <2>1 DEF OE!Next
  <1>9. CASE \/ StopDispatching \/ AllDispatched \/ JoinWorkers \/ Drain \/ Drained
             \/ (\E w \in Workers : Send(w) \/ Exit(w)) \/ UNCHANGED vars
    BY <1>9 DEF StopDispatching, AllDispatched, JoinWorkers, Drain, Drained, Send, Exit, vars,
       args, callVars, abstract
  <1> QED BY <1>1, <1>2, <1>3, <1>4, <1>5, <1>6, <1>7, <1>8, <1>9 DEF Next, Caller, Worker, Finished

\* For every group, cap and moment of cancellation executeToolCallGroup does
\* what the agent loop relies on (tool_execution.go:24-108): its calls begin in
\* order and once, never more at once than the cap, and it returns all results
\* or the cancellation with nothing left running.
THEOREM PoolImplements == Spec => Implements
  <1>1. Init => PathInv
    BY DEF Init, PathInv
  <1>2. Init => OE!Init
    BY GroupAssumption DEF Init, OE!Init
  <1>3. IInv /\ PathInv /\ [Next]_vars => [OE!Next]_abstract
    BY StepImplements
  <1>4. IInv /\ PathInv /\ [Next]_vars => PathInv'
    BY NextPath
  <1> QED BY <1>1, <1>2, <1>3, <1>4, Invariant, PTL DEF Spec, Implements, OE!Spec, abstract
=============================================================================
